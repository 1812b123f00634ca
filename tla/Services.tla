------------------------------ MODULE Services -------------------------------
(***************************************************************************)
(* The services that share no state with each other, side by side: each    *)
(* behaviour is one of a single service, chosen as it begins, and the      *)
(* variables of the others stay as their Init left them.                   *)
(***************************************************************************)
EXTENDS WSConnections, McpServers, McpPipe, Coordinator, Compaction,
        HiddenThoughts, ToolStream, Memory, Routing, ChatPage, Hooks,
        HistoryPages, Skills, FileTools, AgentEditor, RemoteBridge, Costs,
        Requests

VARIABLE part   \* the service this behaviour is about

serviceVars == <<part, connectionVars, mcpVars, pipeVars, coordinatorVars,
                 compactionVars, thoughtVars, streamVars, memoryVars,
                 routingVars, pageVars, hookVars, historyVars, skillVars,
                 fileVars, agentVars, bridgeVars, costVars, requestVars>>
\* For the runs.
AgentSlugs == [name \in {"Mine"} |-> "mine"]

-----------------------------------------------------------------------------

ServicesInit ==
    /\ part \in {"pushes", "servers", "pipe", "board", "history", "thoughts",
                 "calls", "memories", "keys", "page", "hooks", "pages",
                 "skills", "files", "agents", "bridge", "costs", "requests"}
    /\ ConnectionsInit /\ McpInit /\ PipeInit /\ CoordinatorInit
    /\ CompactionInit /\ ThoughtsInit /\ StreamInit /\ MemoryInit
    /\ RoutingInit /\ PageInit /\ HooksInit /\ HistoryInit /\ SkillsInit
    /\ FileInit /\ EditorInit /\ BridgeInit /\ CostsInit /\ RequestsInit
    /\ part # "calls" => provider = "opencode"
    /\ part # "keys" => env = NoKeys /\ \A s \in Chats : cfg[s].model = "claude"
    /\ part # "hooks" => \A n \in HookNames : coming[n] = Hook(n, "core", 0, "merge")
    /\ part = "hooks" =>   \* two hooks that come before the scanner, and one behind it
          LET names == SetToSeq(HookNames) IN
          \A i \in DOMAIN names : coming[names[i]].priority = IF i = Len(names) THEN 0 ELSE -100
    /\ part # "pages" => stored = <<>> /\ matching = {}
    /\ part # "skills" => paths = <<"local">>
    /\ part # "files" => file = FileText(<<1, 1>>, Newlines(2))

\* All services but p stand still.
OthersRest(p) ==
    /\ part = p /\ UNCHANGED part
    /\ IF p = "pushes" THEN TRUE ELSE UNCHANGED connectionVars
    /\ IF p = "servers" THEN TRUE ELSE UNCHANGED mcpVars
    /\ IF p = "pipe" THEN TRUE ELSE UNCHANGED pipeVars
    /\ IF p = "board" THEN TRUE ELSE UNCHANGED coordinatorVars
    /\ IF p = "history" THEN TRUE ELSE UNCHANGED compactionVars
    /\ IF p = "thoughts" THEN TRUE ELSE UNCHANGED thoughtVars
    /\ IF p = "calls" THEN TRUE ELSE UNCHANGED streamVars
    /\ IF p = "memories" THEN TRUE ELSE UNCHANGED memoryVars
    /\ IF p = "keys" THEN TRUE ELSE UNCHANGED routingVars
    /\ IF p = "page" THEN TRUE ELSE UNCHANGED pageVars
    /\ IF p = "hooks" THEN TRUE ELSE UNCHANGED hookVars
    /\ IF p = "pages" THEN TRUE ELSE UNCHANGED historyVars
    /\ IF p = "skills" THEN TRUE ELSE UNCHANGED skillVars
    /\ IF p = "files" THEN TRUE ELSE UNCHANGED fileVars
    /\ IF p = "agents" THEN TRUE ELSE UNCHANGED agentVars
    /\ IF p = "bridge" THEN TRUE ELSE UNCHANGED bridgeVars
    /\ IF p = "costs" THEN TRUE ELSE UNCHANGED costVars
    /\ IF p = "requests" THEN TRUE ELSE UNCHANGED requestVars

Pushes         == OthersRest("pushes"  ) /\ ConnectionsNext
Servers        == OthersRest("servers" ) /\ McpNext
Pipe           == OthersRest("pipe"    ) /\ PipeNext
Board          == OthersRest("board"   ) /\ CoordinatorNext
History        == OthersRest("history" ) /\ CompactionNext
Thoughts       == OthersRest("thoughts") /\ ThoughtsNext
Calls          == OthersRest("calls"   ) /\ StreamNext
Memories       == OthersRest("memories") /\ MemoryNext
KeysAndRoutes  == OthersRest("keys"    ) /\ RoutingNext
ChatPages      == OthersRest("page"    ) /\ PageNext
LifecycleHooks == OthersRest("hooks"   ) /\ HooksNext
Pages          == OthersRest("pages"   ) /\ HistoryNext
SkillChoices   == OthersRest("skills"  ) /\ SkillsNext
FilesEdited    == OthersRest("files"   ) /\ FileNext
AgentsEdited   == OthersRest("agents"  ) /\ EditorNext
BridgeUsed     == OthersRest("bridge"  ) /\ BridgeNext
CostsKept      == OthersRest("costs"   ) /\ CostsNext
RequestsMade   == OthersRest("requests") /\ RequestsNext

ServicesNext == Pushes \/ Servers \/ Pipe \/ Board \/ History \/ Thoughts \/
                Calls \/ Memories \/ KeysAndRoutes \/ ChatPages \/
                LifecycleHooks \/ Pages \/ SkillChoices \/ FilesEdited \/
                AgentsEdited \/ BridgeUsed \/ CostsKept \/ RequestsMade

ServicesSpec == ServicesInit /\ [][ServicesNext]_serviceVars

=============================================================================
