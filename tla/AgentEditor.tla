----------------------------- MODULE AgentEditor ------------------------------
(***************************************************************************)
(* The agent definitions: agents/registry.py, services/custom_agent_store. *)
(* py, the endpoints of api/agents_api.py, and AgentEditorScreen.tsx, the  *)
(* page that edits them.                                                   *)
(*                                                                         *)
(* A change is made twice, in the registry and in a file; a write may fail *)
(* half way, as may a deletion; the server may restart between the steps   *)
(* of the page; and other clients use the same endpoints.                  *)
(*                                                                         *)
(* agents_api.py names AgentDefinition, the body of two of its endpoints,  *)
(* only where types are checked (19-20): the model takes the framework to  *)
(* bind it all the same, as the page's calls expect.                       *)
(***************************************************************************)
EXTENDS Naturals

CONSTANTS
    Builtin,        \* the names in _BUILTIN_NAMES
    Custom,         \* slugs of agents that users make
    Capitalised,    \* names that are not a slug
    SlugOf,         \* the slug of each of them
    MaxAgentCalls   \* bound on the calls that change an agent, and on the page's own

ASSUME AgentAssumption ==
    /\ Builtin \cap Custom = {} /\ (Builtin \cup Custom) \cap Capitalised = {}
    /\ SlugOf \in [Capitalised -> Custom] /\ MaxAgentCalls \in Nat

VARIABLES
    definitions,  \* AgentRegistry._agents: a function from lower-case names to definitions
    agentFiles,   \* .tenderclaw/agents: a function from names to what the file holds
    spoiled,      \* ghost: the names whose last write or deletion failed
    editor,       \* the state of AgentEditorScreen
    agentCalls,   \* its calls in flight
    changed       \* the number of calls made so far

agentVars == <<definitions, agentFiles, spoiled, editor, agentCalls, changed>>

-----------------------------------------------------------------------------
AgentNames == Builtin \cup Custom \cup Capitalised

\* name.lower()
Key(name) == IF name \in Capitalised THEN SlugOf[name] ELSE name

\* A definition: its name, its system prompt (a field that may be patched on any agent) and the
\* rest (fields that may not be patched on a built-in one). Texts carry who they were typed for.
Definition(name, prompt, rest) == [name |-> name, prompt |-> prompt, rest |-> rest]

Shipped(name) == Definition(name, "shipped", "shipped")
Blank == Definition("", "blank", "blank")
NoAgent == Definition("", "", "")
Torn == Definition("", "torn", "torn")

\* register_builtin_agents and then _load_custom_agents: files that cannot be parsed are skipped,
\* and of two with the same key the later in the order of file names stands.
Started(files) ==
    LET Readable == {name \in DOMAIN files : files[name] # Torn}
        OfKey(key) == {name \in Readable : Key(name) = key}
    IN  [key \in Builtin \cup {Key(name) : name \in Readable} |->
            IF OfKey(key) = {} THEN Shipped(key)
            ELSE IF key \in OfKey(key) THEN files[key]
            ELSE files[CHOOSE name \in OfKey(key) : TRUE]]

Put(f, x, v) == [y \in DOMAIN f \cup {x} |-> IF y = x THEN v ELSE f[y]]
Without(f, x) == [y \in DOMAIN f \ {x} |-> f[y]]

\* agent_registry.register and, for a custom agent, custom_agent_store.save. A write that fails
\* leaves a file cut short, a registry that is changed already, and a failed call.
Recorded(d, persist, wrote) ==
    /\ definitions' = Put(definitions, Key(d.name), d)
    /\ agentFiles' = IF persist THEN Put(agentFiles, d.name, IF wrote THEN d ELSE Torn) ELSE agentFiles
    /\ spoiled' = IF ~persist THEN spoiled
                  ELSE IF wrote THEN spoiled \ {d.name} ELSE spoiled \cup {d.name}

NothingRecorded == UNCHANGED <<definitions, agentFiles, spoiled>>

-----------------------------------------------------------------------------
(* The endpoints. Each is one step: none of them awaits. ok is what it     *)
(* answers, wrote whether the file could be written.                       *)

\* An agent of that name is replaced without a word. (The body is taken to be bound: see above.)
CreateAgent(d, ok, wrote) ==
    /\ ok = (d.name \notin Builtin /\ wrote)
    /\ IF d.name \in Builtin THEN NothingRecorded ELSE Recorded(d, TRUE, wrote)

UpdateAgent(name, d, ok, wrote) ==
    LET refused == name \in Builtin \/ Key(d.name) # Key(name)
    IN  /\ ok = (~refused /\ wrote)
        /\ IF refused THEN NothingRecorded ELSE Recorded(d, TRUE, wrote)

\* fields: what the patch has; a built-in agent takes only some, and only until the restart.
PatchAgent(name, d, fields, ok, wrote) ==
    LET key == Key(name)
        refused == key \notin DOMAIN definitions \/ (key \in Builtin /\ "rest" \in fields)
        new == [f \in {"name", "prompt", "rest"} |->
                  IF f \in fields THEN d[f] ELSE definitions[key][f]]
    IN  /\ ok = (~refused /\ (key \in Builtin \/ wrote))
        /\ IF refused THEN NothingRecorded ELSE Recorded(new, key \notin Builtin, wrote)

\* The agent goes first, then the file whose name is in lower case: when that cannot be removed
\* the call fails, and the file is there for the next start.
DeleteAgent(name, ok, wrote) ==
    LET key == Key(name)
        refused == key \in Builtin \/ key \notin DOMAIN definitions
        gone == wrote \/ key \notin DOMAIN agentFiles
    IN  /\ ok = (~refused /\ gone)
        /\ IF refused THEN NothingRecorded
           ELSE /\ definitions' = Without(definitions, key)
                /\ agentFiles' = IF gone THEN Without(agentFiles, key) ELSE agentFiles
                /\ spoiled' = IF gone THEN spoiled \ {key} ELSE spoiled \cup {key}

\* Another client: any of them, with any definition.
OtherClient ==
    /\ changed < MaxAgentCalls
    /\ changed' = changed + 1
    /\ \E name \in AgentNames, wrote \in BOOLEAN, ok \in BOOLEAN :
         LET d == Definition(name, Key(name), "other") IN
         \/ CreateAgent(d, ok, wrote)
         \/ UpdateAgent(Key(name), d, ok, wrote)
         \/ \E fields \in {{"prompt"}, {"prompt", "rest"}} : PatchAgent(name, d, fields, ok, wrote)
         \/ DeleteAgent(name, ok, wrote)
    /\ UNCHANGED <<editor, agentCalls>>

-----------------------------------------------------------------------------
(* The page.                                                               *)

Call(op, name, body) == [op |-> op, name |-> name, body |-> body, stage |-> "sent",
                         answer |-> NoAgent, list |-> {}]

ReloadCall == Call("list", "", NoAgent)

\* The page is open and shows what the server had when it was.
EditorInit ==
    /\ definitions = Started(<<>>)
    /\ agentFiles = <<>> /\ spoiled = {}
    /\ editor = [agents |-> {Shipped(name) : name \in Builtin}, selected |-> NoAgent, form |-> Blank,
                 isNew |-> FALSE, saving |-> FALSE]
    /\ agentCalls = {}
    /\ changed = 0

SendCall(call) ==
    /\ changed < MaxAgentCalls
    /\ changed' = changed + 1
    /\ call \notin agentCalls
    /\ agentCalls' = agentCalls \cup {call}

Server == UNCHANGED <<definitions, agentFiles, spoiled>>
PageOnly == UNCHANGED <<agentCalls, changed>> /\ Server

Selecting(state, d) == [state EXCEPT !.isNew = FALSE, !.selected = d, !.form = d]

\* Mutant: what was typed for another agent stays in the form.
SelectingInPlace(d) ==
    /\ d \in editor.agents
    /\ editor' = [editor EXCEPT !.isNew = FALSE, !.selected = d, !.form = [@ EXCEPT !.name = d.name]]

SelectAgent(d) ==
    /\ d \in editor.agents
    /\ editor' = Selecting(editor, d)

NewAgent == editor' = [editor EXCEPT !.isNew = TRUE, !.selected = NoAgent, !.form = Blank]

\* Only a new agent's name is typed, and it is made a slug.
TypeName(name) ==
    /\ editor.isNew
    /\ editor' = [editor EXCEPT !.form.name = name]

\* Texts are typed into the form; but for the prompt, a built-in agent is locked.
TypeTexts ==
    LET typed == IF editor.isNew THEN "new" ELSE Key(editor.selected.name)
        locked == ~editor.isNew /\ Key(editor.selected.name) \in Builtin
    IN  /\ editor.isNew \/ editor.selected # NoAgent
        /\ editor' = [editor EXCEPT !.form.prompt = typed, !.form.rest = IF locked THEN @ ELSE typed]

\* handleSave, up to its first await. Built-in agents are patched.
ClickSave ==
    /\ (editor.isNew \/ editor.selected # NoAgent) /\ ~editor.saving /\ editor.form.name # ""
    /\ editor' = [editor EXCEPT !.saving = TRUE]
    /\ SendCall(Call(IF editor.isNew THEN "create"
                 ELSE IF Key(editor.selected.name) \in Builtin THEN "patch" ELSE "update",
                 editor.form.name, editor.form))
    /\ Server

ClickDelete ==
    /\ editor.selected # NoAgent /\ Key(editor.selected.name) \notin Builtin
    /\ SendCall(Call("delete", editor.selected.name, NoAgent))
    /\ UNCHANGED editor /\ Server

Reload ==
    /\ ~\E c \in agentCalls : c.op = "list"
    /\ SendCall([ReloadCall EXCEPT !.stage = "answered"])
    /\ UNCHANGED editor /\ Server

\* The server handles a call of the page.
Served(c, wrote) ==
    /\ c.stage = "sent"
    /\ \E ok \in BOOLEAN :
         /\ CASE c.op = "create" -> CreateAgent(c.body, ok, wrote)
              [] c.op = "update" -> UpdateAgent(c.name, c.body, ok, wrote)
              [] c.op = "patch"  -> PatchAgent(c.name, c.body, {"prompt"}, ok, wrote)
              [] c.op = "delete" -> DeleteAgent(c.name, ok, wrote)
         /\ agentCalls' = (agentCalls \ {c}) \cup
              {[c EXCEPT !.stage = IF ok THEN "answered" ELSE "failed",
                         !.answer = IF ok /\ c.op # "delete" THEN definitions'[Key(c.name)] ELSE NoAgent]}
    /\ UNCHANGED <<editor, changed>>

\* The page gets a refusal, or nothing at all because the server has restarted.
Refused(c) ==
    /\ c.stage = "failed"
    /\ agentCalls' = agentCalls \ {c}
    /\ editor' = [editor EXCEPT !.saving = @ /\ c.op = "delete"]
    /\ UNCHANGED changed /\ Server

\* The answer has come: a deletion clears the selection, whatever it is by now; and the list is
\* asked for again.
Continued(c) ==
    /\ c.stage = "answered"
    /\ editor' = IF c.op = "delete" THEN [editor EXCEPT !.selected = NoAgent, !.isNew = FALSE] ELSE editor
    /\ agentCalls' = (agentCalls \ {c}) \cup {[c EXCEPT !.stage = "listing"]}
    /\ UNCHANGED changed /\ Server

ListAgents(c) ==
    /\ c.stage = "listing"
    /\ agentCalls' = (agentCalls \ {c}) \cup
         {[c EXCEPT !.stage = "listed", !.list = {definitions[key] : key \in DOMAIN definitions}]}
    /\ UNCHANGED <<editor, changed>> /\ Server

\* The list has come, or has not; a saved agent is selected, whatever is by now.
Listed(c) ==
    LET seen == IF c.list = {} THEN editor ELSE [editor EXCEPT !.agents = c.list]
    IN  /\ c.stage \in {"listed", "lost"}
        /\ agentCalls' = agentCalls \ {c}
        /\ editor' = IF c.op \in {"list", "delete"} THEN seen
                     ELSE [Selecting(seen, c.answer) EXCEPT !.saving = FALSE]
        /\ UNCHANGED changed /\ Server

-----------------------------------------------------------------------------
\* The server stops and starts again: calls that were under way fail, and a failed list is only
\* reported.
ServerRestarts ==
    /\ definitions' = Started(agentFiles)
    /\ agentCalls' = {IF c.stage = "sent" THEN [c EXCEPT !.stage = "failed"]
                    ELSE IF c.stage = "listing" THEN [c EXCEPT !.stage = "lost"] ELSE c : c \in agentCalls}
    /\ UNCHANGED <<agentFiles, spoiled, editor, changed>>

EditorNext ==
    \/ OtherClient
    \/ (\E d \in editor.agents : SelectAgent(d)) /\ PageOnly
    \/ NewAgent /\ PageOnly
    \/ (\E name \in Builtin \cup Custom : TypeName(name)) /\ PageOnly
    \/ TypeTexts /\ PageOnly
    \/ ClickSave
    \/ ClickDelete
    \/ Reload
    \/ \E c \in agentCalls :
         (\E wrote \in BOOLEAN : Served(c, wrote)) \/ Refused(c) \/ Continued(c) \/ ListAgents(c) \/ Listed(c)
    \/ ServerRestarts

-----------------------------------------------------------------------------
\* What an agent says was typed for it, or for a new one, or came with the program.
TextsStayTheirs ==
    \A key \in DOMAIN definitions :
        /\ definitions[key].prompt \in {key} \cup (IF key \in Builtin THEN {"shipped"} ELSE {"blank", "new"})
        /\ key \in Builtin => definitions[key].rest = "shipped"

\* No file has another spelling of this slug.
OwnFileOnly(slug, files) == \A name \in DOMAIN files : Key(name) = slug => name = slug

\* A restart changes nothing about the agents whose slug is the only spelling of their name and
\* whose last write or deletion did not fail: none is lost, none comes back, none takes the place
\* of another. Built-in ones are as shipped.
RestartsKeepAgents ==
    LET again == Started(agentFiles) IN
    /\ \A key \in Builtin : again[key] = Shipped(key)
    /\ \A slug \in Custom \ spoiled : OwnFileOnly(slug, agentFiles) =>
         /\ slug \in DOMAIN again <=> slug \in DOMAIN definitions
         /\ slug \in DOMAIN again => again[slug] = definitions[slug]

\* Whatever the page, other clients and restarts do between the steps of a call, no text lands
\* in an agent it was not typed for, and the registry stands the restart
\* (agents_api.py 76-170, AgentEditorScreen.tsx 89-160).
AgentsAreKept == TextsStayTheirs /\ RestartsKeepAgents

EditorSpec == EditorInit /\ [][EditorNext]_agentVars

=============================================================================
