------------------------------ MODULE Requests --------------------------------
(***************************************************************************)
(* What a provider is sent of a session: _to_api_messages of               *)
(* core/conversation.py and the conversions of services/providers and      *)
(* services/anthropic_client.py, of the histories that turns leave.        *)
(*                                                                         *)
(* A history has the blocks of this program; the gateways want calls       *)
(* beside an assistant's text and each result in a message of its own,     *)
(* after the call.  Three providers convert, the others hand the blocks    *)
(* on; and the user may select another provider at any time.  Turns are    *)
(* serial here (SessionTurns); ids of calls may come again.                *)
(***************************************************************************)
EXTENDS Naturals, Sequences, FiniteSets, SequencesExt

CONSTANTS
    Selectable,   \* the providers a user may select
    ToolUseIds,   \* ids of tool calls
    MaxDialogue   \* bound on the messages of the session

ASSUME RequestsAssumption ==
    /\ Selectable \subseteq {"opencode", "openrouter", "lmstudio", "anthropic", "openai", "gpt4free",
                             "llamacpp", "ollama", "xai", "google"}
    /\ IsFiniteSet(ToolUseIds) /\ MaxDialogue \in Nat

VARIABLES
    dialogue,  \* session.messages: their roles and the blocks of their content, or one text
    due,       \* what comes next: the user, a request, its answer, or the tools
    nudged,    \* the turn has asked once more after an empty answer
    sent,      \* the request under way
    served     \* the provider of all requests so far, if it was one

requestVars == <<dialogue, due, nudged, sent, served>>

-----------------------------------------------------------------------------
Block(type, id) == [type |-> type, id |-> id]
Said(role, str, blocks) == [role |-> role, str |-> str, blocks |-> blocks]
Only(m, types) == FlattenSeq([k \in DOMAIN m.blocks |-> IF m.blocks[k].type \in types THEN <<m.blocks[k]>> ELSE <<>>])

\* A message of a request.
Outgoing(role, content, calls) == [role |-> role, content |-> content, calls |-> calls]

ToApiMessages(messages) ==
    [i \in DOMAIN messages |->
        [messages[i] EXCEPT !.blocks =
            [k \in DOMAIN @ |-> IF @[k].type = "image" THEN [@[k] EXCEPT !.type = "image_url"] ELSE @[k]]]]

\* A message without text has an empty one, even where it has results.
MainMessageAlways(m) ==
    <<Outgoing(m.role, Only(m, IF m.role = "assistant" THEN {"text"} ELSE {"text", "image_url"}),
               Only(m, {"tool_use"}))>>

\* The message itself, without the results it has.  An assistant's content is flattened to text.
MainMessage(m) ==
    LET content == Only(m, IF m.role = "assistant" THEN {"text"} ELSE {"text", "image_url"})
        calls == Only(m, {"tool_use"})
    IN  IF m.str \/ content # <<>> \/ calls # <<>> \/ Only(m, {"tool_result"}) = <<>>
        THEN <<Outgoing(m.role, content, calls)>>
        ELSE <<>>

Converted(m) ==
    LET results == Only(m, {"tool_result"})
    IN  MainMessage(m) \o [i \in DOMAIN results |-> Outgoing("tool", <<results[i]>>, <<>>)]

\* LM Studio's has a function of its own, with the same outcome.
ToOpenaiMessages(messages) == FlattenSeq([i \in DOMAIN messages |-> Converted(messages[i])])

HandedOn(messages) == [i \in DOMAIN messages |-> Outgoing(messages[i].role, messages[i].blocks, <<>>)]

\* What each provider sends, and whether calls in its answer reach the turn.
OpencodeStream(api)   == [messages |-> FlattenSeq([i \in DOMAIN api |-> Converted(api[i])]), reads |-> TRUE]
OpenrouterStream(api) == [messages |-> FlattenSeq([i \in DOMAIN api |-> Converted(api[i])]), reads |-> TRUE]
LmstudioStream(api)   == [messages |-> ToOpenaiMessages(api), reads |-> TRUE]
AnthropicStream(api)  == [messages |-> HandedOn(api), reads |-> TRUE]
OpenaiStream(api)     == [messages |-> HandedOn(api), reads |-> FALSE]
Gpt4freeStream(api)   == [messages |-> HandedOn(api), reads |-> FALSE]
LlamacppStream(api)   == [messages |-> HandedOn(api), reads |-> FALSE]
OllamaStream(api)     == [messages |-> HandedOn(api), reads |-> FALSE]
XaiStream(api)        == [messages |-> HandedOn(api), reads |-> FALSE]
\* Contents that are lists are left out.
GoogleStream(api)     ==
    [messages |-> FlattenSeq([i \in DOMAIN api |-> IF api[i].str THEN HandedOn(<<api[i]>>) ELSE <<>>]), reads |-> FALSE]

Converting == {"opencode", "openrouter", "lmstudio"}
RequestTo(p, api) ==
    CASE p = "opencode"   -> OpencodeStream(api)
      [] p = "openrouter" -> OpenrouterStream(api)
      [] p = "lmstudio"   -> LmstudioStream(api)
      [] p = "anthropic"  -> AnthropicStream(api)
      [] p = "openai"     -> OpenaiStream(api)
      [] p = "gpt4free"   -> Gpt4freeStream(api)
      [] p = "llamacpp"   -> LlamacppStream(api)
      [] p = "ollama"     -> OllamaStream(api)
      [] p = "xai"        -> XaiStream(api)
      [] p = "google"     -> GoogleStream(api)

NoRequest == [messages |-> <<>>, reads |-> FALSE]

-----------------------------------------------------------------------------
RequestsInit ==
    /\ dialogue = <<>>
    /\ due = "user"
    /\ nudged = FALSE
    /\ sent = NoRequest
    /\ served = "nobody"

Adds(m) ==
    /\ Len(dialogue) < MaxDialogue
    /\ dialogue' = Append(dialogue, m)

New(type) == Block(type, Len(dialogue) + 1)

\* A message is typed, with or without images; the text may be missing beside them.
UserSays ==
    /\ due = "user"
    /\ Adds(Said("user", TRUE, <<New("text")>>))
       \/ \E text \in BOOLEAN :
             Adds(Said("user", FALSE, IF text THEN <<New("text"), New("image")>> ELSE <<New("image")>>))
    /\ due' = "request" /\ nudged' = FALSE
    /\ UNCHANGED <<sent, served>>

\* The turn goes to the team, whose texts become one message, if there are any.
TeamAnswers ==
    /\ due = "request" /\ Len(dialogue) > 0 /\ Last(dialogue).role = "user"
    /\ Only(Last(dialogue), {"tool_result"}) = <<>> /\ ~nudged
    /\ Adds(Said("assistant", TRUE, <<New("text")>>))
    /\ due' = "user"
    /\ UNCHANGED <<nudged, sent, served>>

AsksModel ==
    /\ due = "request"
    /\ \E p \in Selectable :
          /\ sent' = RequestTo(p, ToApiMessages(dialogue))
          /\ served' = IF served \in {"nobody", p} THEN p ELSE "several"
    /\ due' = "answer"
    /\ UNCHANGED <<dialogue, nudged>>

\* The answer is text, calls with or without text, or nothing; an empty one is asked for again once.
ModelAnswers ==
    /\ due = "answer"
    /\ \/ /\ Adds(Said("assistant", FALSE, <<New("text")>>)) /\ due' = "user"
          /\ UNCHANGED nudged
       \/ /\ sent.reads
          /\ \E ids \in SetToAllKPermutations(ToolUseIds) \ {<<>>}, text \in BOOLEAN :
                LET calls == [i \in DOMAIN ids |-> Block("tool_use", ids[i])]
                IN  Adds(Said("assistant", FALSE, (IF text THEN <<New("text")>> ELSE <<>>) \o calls))
          /\ due' = "tools"
          /\ UNCHANGED nudged
       \/ /\ ~nudged /\ nudged' = TRUE
          /\ Adds(Said("user", TRUE, <<New("text")>>)) /\ due' = "request"
       \/ /\ nudged /\ due' = "user"
          /\ UNCHANGED <<dialogue, nudged>>
    /\ sent' = NoRequest
    /\ UNCHANGED served

\* The tools run in turn; an abort ends the batch, and then the turn, with the results so far.
ToolsRun ==
    /\ due = "tools"
    /\ LET calls == Only(Last(dialogue), {"tool_use"}) IN
       \E n \in 0..Len(calls) :
          /\ Adds(Said("user", FALSE, [i \in 1..n |-> Block("tool_result", calls[i].id)]))
          /\ due' = IF n < Len(calls) THEN "user" ELSE "request"
    /\ UNCHANGED <<nudged, sent, served>>

\* An abort, an error or a connection that breaks ends the turn where it is.
TurnStops ==
    /\ due # "user" /\ due' = "user"
    /\ sent' = NoRequest
    /\ UNCHANGED <<dialogue, nudged, served>>

RequestsNext == UserSays \/ TeamAnswers \/ AsksModel \/ ModelAnswers \/ ToolsRun \/ TurnStops
RequestsSpec == RequestsInit /\ [][RequestsNext]_requestVars

-----------------------------------------------------------------------------
\* "unexpected tool_use_id" (messages.py:294): a result comes after its call with nothing but
\* results between, and answers it once.
ResultsFollowCalls ==
    \A k \in DOMAIN sent.messages :
       sent.messages[k].role = "tool" =>
          \E j \in 1..(k - 1) :
             /\ Cardinality({i \in DOMAIN sent.messages[j].calls :
                                sent.messages[j].calls[i].id = sent.messages[k].content[1].id}) = 1
             /\ \A i \in (j + 1)..(k - 1) :
                   sent.messages[i].role = "tool" /\ sent.messages[i].content # sent.messages[k].content

\* Every block of the history is sent, once and in its place.
AllIsSent ==
    FlattenSeq([k \in DOMAIN sent.messages |-> sent.messages[k].content \o sent.messages[k].calls])
    = FlattenSeq([i \in DOMAIN dialogue |-> ToApiMessages(dialogue)[i].blocks])

\* A provider that hands blocks on in a format it does not share is sent no calls or results
\* that it cannot have made.
NoForeignBlocks ==
    \A k \in DOMAIN sent.messages : \A i \in DOMAIN sent.messages[k].content :
        sent.messages[k].content[i].type \in {"text", "image_url"}

\* Through every history a session may have, whatever turns were stopped on the way: where
\* calls may be made, results reach the gateway behind their calls and nothing is lost; a
\* session that never changes its provider never sends it what is another's.
RequestsSound ==
    due = "answer" =>
       /\ served \in Converting => ResultsFollowCalls /\ AllIsSent
       /\ served \in Selectable \ (Converting \cup {"anthropic"}) => NoForeignBlocks

=============================================================================
