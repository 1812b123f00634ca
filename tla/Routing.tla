------------------------------- MODULE Routing -------------------------------
(***************************************************************************)
(* Which provider a request goes to and with which key or address:         *)
(* services/model_router.py, services/power_levels.py, api/config.py and   *)
(* the check that begins a turn (core/conversation.py).                    *)
(*                                                                         *)
(* A key may be set for a session and for all, and is copied into the      *)
(* session's model_config when a turn begins; some clients are made anew   *)
(* for each request, others are kept.  The settings can change between the *)
(* check and each of the turn's requests.  What the local servers answer   *)
(* to the probes of detect_provider can change at any time.                *)
(***************************************************************************)
EXTENDS Naturals, FiniteSets

CONSTANTS
    Chats,        \* the sessions
    Keys,         \* the keys and addresses a user may enter
    Models,       \* the models a session may have, of those in Detect
    Selections,   \* the providers a user may select
    MaxChanges    \* bound on the changes of the settings

ASSUME RoutingAssumption == {"", "env"} \cap Keys = {} /\ MaxChanges \in Nat

VARIABLES
    cfg,      \* the sessions' model, model_config and api_keys
    saved,    \* the same in their files
    glob,     \* _global_config
    globFile, \* global_config.json
    env,      \* the keys of the environment
    clients,  \* ModelRouter._providers: the key of each client that is kept
    turn,     \* of each session's turn the provider checked for it, the keys there have been
              \* for it meanwhile, and where its last request went, with which key
    changes   \* the changes so far

routingVars == <<cfg, saved, glob, globFile, env, clients, turn, changes>>

-----------------------------------------------------------------------------
Keyed == {"opencode", "openrouter", "anthropic"}       \* those with a field for a key
Local == {"lmstudio", "llamacpp"}                      \* without one, but with an address
Fresh == {"opencode", "openrouter"} \cup Local         \* a client for each request

\* detect_provider.  Namespaced models are looked for on the local servers first.
Detect(model, onLlama, onLMStudio) ==
    CASE model = "x.gguf" -> "llamacpp"
      [] model = "meta/x" -> IF onLlama THEN "llamacpp" ELSE "openrouter"
      [] model = "opencode/x" -> IF onLlama THEN "llamacpp" ELSE "opencode"
      [] model = "any/x" -> IF onLlama THEN "llamacpp" ELSE "lmstudio"
      [] model = "big-pickle" -> "opencode"
      [] model = "claude" -> "anthropic"
      [] model = "x" -> IF onLMStudio THEN "lmstudio" ELSE "anthropic"

\* resolve_provider, with whatever the probes find.
Resolved(model, selected) ==
    IF selected # "" THEN {selected} ELSE {Detect(model, a, b) : a, b \in BOOLEAN}

Or(a, b) == IF a # "" THEN a ELSE b

\* get_session_api_key
SessionKey(c, g, p) == Or(Or(c.own[p], g.key[p]), env[p])
\* get_session_lmstudio_url
SessionUrl(c, g, p) == Or(Or(c.url[p], g.url[p]), "env")

NoKeys == [p \in Keyed |-> ""]
NoUrls == [p \in Local |-> ""]
Checked(p, keys) == [checked |-> p, keys |-> keys, to |-> "none", key |-> ""]
NoTurn == Checked("none", {})
NoSettings == [selected |-> "", key |-> NoKeys, url |-> NoUrls]

RoutingInit ==
    /\ cfg \in [Chats -> [model : Models, selected : {""}, own : {NoKeys}, kept : {NoKeys}, url : {NoUrls}]]
    /\ saved = cfg
    /\ glob = NoSettings
    /\ globFile = NoSettings
    /\ env \in {NoKeys, [p \in Keyed |-> "env"]}
    /\ clients = [p \in {"anthropic", "deepseek"} |-> "none"]
    /\ turn = [s \in Chats |-> NoTurn]
    /\ changes = 0

-----------------------------------------------------------------------------
(* power_levels.py, in thousands of tokens, for the 16 of a turn. *)

Levels == {"low", "medium", "high", "extra_high", "max"}
LeastOf(a, b) == IF a < b THEN a ELSE b

GenericMaxTokens(level) == CASE level = "low" -> 4 [] level = "medium" -> 8 [] OTHER -> 16
ThinkingBudget(level) ==
    CASE level = "low" -> 1 [] level = "medium" -> 4 [] level = "high" -> 8 [] level = "extra_high" -> 12
      [] OTHER -> 1000000

\* resolve_power_profile; extra_high and max are "high" to every other provider.
PowerProfile(p, model, level, most) ==
    IF p = "anthropic" \/ model = "claude"
    THEN [tokens |-> most, budget |-> LeastOf(ThinkingBudget(level), most - 1)]
    ELSE [tokens |-> LeastOf(most, GenericMaxTokens(level)), budget |-> 0]

-----------------------------------------------------------------------------
(* The settings *)

\* _save_global_config; a write that fails may leave nothing that can be read.
SaveGlobal(g) == /\ glob' = g
                 /\ \E f \in {g, globFile, NoSettings} : globFile' = f

\* The keys a running turn could have been given grow with the settings.
Renewed(c, g) ==
    [s \in Chats |-> IF turn[s].checked \in Keyed
                     THEN [turn[s] EXCEPT !.keys = @ \cup {SessionKey(c[s], g, turn[s].checked)}]
                     ELSE turn[s]]

\* The session's own key and the copy in its model_config.
WithKey(c, p, k) == [model |-> c.model, selected |-> c.selected, own |-> [c.own EXCEPT ![p] = k],
                     kept |-> [c.kept EXCEPT ![p] = k], url |-> c.url]

WithCopy(c, p, k) == [c EXCEPT !.kept[p] = k]
WithUrl(c, p, u) == [c EXCEPT !.url[p] = u]

\* POST /config of one field, for session s ("none" for no session): the session's is set, and
\* everybody's always.
Change(s) ==
    /\ changes < MaxChanges
    /\ changes' = changes + 1
    /\ \/ \E p \in Keyed, k \in Keys \cup {""} :
             /\ cfg' = IF s = "none" THEN cfg
                       ELSE [cfg EXCEPT ![s] = WithKey(@, p, k)]
             /\ SaveGlobal([glob EXCEPT !.key[p] = k])
       \/ \E p \in Local, u \in Keys :
             /\ cfg' = IF s = "none" THEN cfg ELSE [cfg EXCEPT ![s] = WithUrl(@, p, u)]
             /\ SaveGlobal([glob EXCEPT !.url[p] = u])
       \/ \E p \in Selections :
             /\ cfg' = IF s = "none" THEN cfg ELSE [cfg EXCEPT ![s].selected = p]
             /\ SaveGlobal([glob EXCEPT !.selected = p])
       \/ /\ s # "none"
          /\ \E m \in Models \ {cfg[s].model} : cfg' = [cfg EXCEPT ![s].model = m]
          /\ SaveGlobal(glob)
    /\ saved' = IF s = "none" THEN saved ELSE [saved EXCEPT ![s] = cfg'[s]]
    /\ turn' = Renewed(cfg', glob')
    /\ UNCHANGED <<env, clients>>

\* session_config of the socket: the model, in memory only.
ChangeModel(s) ==
    /\ changes < MaxChanges
    /\ changes' = changes + 1
    /\ \E m \in Models \ {cfg[s].model} : cfg' = [cfg EXCEPT ![s].model = m]
    /\ UNCHANGED <<saved, glob, globFile, env, clients, turn>>

-----------------------------------------------------------------------------
(* A turn *)

\* The key of an earlier turn is left.
CheckedKeyDefault(s, p) ==
    [cfg EXCEPT ![s].kept[p] = Or(@, SessionKey(cfg[s], glob, p))]

\* The key there is now, of the session, of all or of the environment, goes to the model_config.
CheckedKey(s, p) == [cfg EXCEPT ![s] = WithCopy(@, p, SessionKey(@, glob, p))]

\* _validate_api_key: here the provider selected for all counts too.
Check(s) ==
    /\ turn[s] = NoTurn
    /\ \E p \in Resolved(cfg[s].model, Or(cfg[s].selected, glob.selected)) :
          LET lookup == IF p = "deepseek" THEN "openrouter" ELSE p IN
          IF p \in Local
          THEN /\ cfg' = [cfg EXCEPT ![s] = WithUrl(@, p, Or(@.url[p], SessionUrl(@, glob, p)))]
               /\ turn' = [turn EXCEPT ![s] = Checked(p, {})]
          ELSE /\ SessionKey(cfg[s], glob, lookup) # ""
               /\ cfg' = CheckedKey(s, lookup)
               /\ turn' = [turn EXCEPT ![s] = Checked(lookup, {SessionKey(cfg[s], glob, lookup)})]
    /\ UNCHANGED <<saved, glob, globFile, env, clients, changes>>

\* _create_provider: the key or address of a new client, "" if it cannot be made.
NewClient(s, p) ==
    CASE p = "anthropic" -> env[p]
      [] p = "opencode" -> Or(Or(cfg[s].kept[p], glob.key[p]), env[p])
      [] p \in {"openrouter", "deepseek"} ->
            Or(Or(Or(cfg[s].kept["openrouter"], cfg[s].own["openrouter"]), glob.key["openrouter"]), env["openrouter"])
      [] p \in Local -> Or(cfg[s].url[p], "env")

\* _get_provider
Client(s, p) == IF p \notin Fresh /\ clients[p] # "none" THEN clients[p] ELSE NewClient(s, p)

\* stream_message, once for each iteration of the loop; the settings of the session are read anew.
Stream(s) ==
    /\ turn[s] # NoTurn
    /\ \E p \in Resolved(cfg[s].model, cfg[s].selected) :
          /\ Client(s, p) # ""
          /\ clients' = IF p \in Fresh THEN clients ELSE [clients EXCEPT ![p] = Client(s, p)]
          /\ turn' = [turn EXCEPT ![s] = [checked |-> turn[s].checked, keys |-> turn[s].keys,
                                          to |-> p, key |-> Client(s, p)]]
    /\ UNCHANGED <<cfg, saved, glob, globFile, env, changes>>

\* The turn ends, an error of the provider included: the session is written.
End(s) ==
    /\ turn[s] # NoTurn
    /\ turn' = [turn EXCEPT ![s] = NoTurn]
    /\ saved' = [saved EXCEPT ![s] = cfg[s]]
    /\ UNCHANGED <<cfg, glob, globFile, env, clients, changes>>

\* The server stops, or crashes, and starts again with what the files have.
Restart ==
    /\ cfg' = saved
    /\ glob' = globFile
    /\ clients' = [p \in {"anthropic", "deepseek"} |-> "none"]
    /\ turn' = [s \in Chats |-> NoTurn]
    /\ UNCHANGED <<saved, globFile, env, changes>>

RoutingNext ==
    \/ Restart
    \/ \E s \in Chats \cup {"none"} : Change(s)
    \/ \E s \in Chats : ChangeModel(s) \/ Check(s) \/ Stream(s) \/ End(s)

RoutingSpec == RoutingInit /\ [][RoutingNext]_routingVars

-----------------------------------------------------------------------------
\* The copy of a key is never one that was replaced before the turn began: a request to the
\* provider the turn was checked for carries a key that get_session_api_key gave then or would
\* have given since, although the copies in the model_config outlive turns, changes of the
\* settings and restarts (conversation.py:608).  And the thinking budget is below the limit of
\* the request (power_levels.py:137).
KeysAreCurrent ==
    \A s \in Chats :
        /\ turn[s].to \in {turn[s].checked} \cap {"opencode", "openrouter"} => turn[s].key \in turn[s].keys
        /\ turn[s].to # "none" => \A level \in Levels :
              LET profile == PowerProfile(turn[s].to, cfg[s].model, level, 16) IN profile.budget < profile.tokens

=============================================================================
