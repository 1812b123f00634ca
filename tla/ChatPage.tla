------------------------------ MODULE ChatPage -------------------------------
(***************************************************************************)
(* What the chat page makes of the events of a turn: handleServerEvent of  *)
(* frontend/src/stores/sessionStore.ts with the permission dialog and the  *)
(* tool cards, against the loop that sends them (core/conversation.py,     *)
(* core/streaming.py, core/tool_runner.py).                                *)
(*                                                                         *)
(* A message is shown twice over: as it streams, and as a message once it  *)
(* ends or an error interrupts it.  Errors come in the middle of messages  *)
(* too, in answer to what another message asked for; turns are stopped,    *)
(* fail, and connections break with events on their way.                   *)
(***************************************************************************)
EXTENDS Naturals, Sequences, FiniteSets, SequencesExt

CONSTANTS
    MaxMessages,  \* bound on the assistant's messages
    MaxTexts,     \* bound on the deltas of a message
    MaxUses,      \* bound on the tool calls of a message
    MaxErrors,    \* bound on the errors that end no turn
    MaxWire       \* bound on the events on their way

ASSUME PageAssumption ==
    MaxMessages \in Nat /\ MaxTexts \in Nat /\ MaxUses \in Nat /\ MaxErrors \in Nat /\ MaxWire \in Nat \ {0}

VARIABLES
    loop,      \* the server's loop: its phase, the message, its deltas, its calls and their parts
    recorded,  \* the assistant's messages in the session, by number
    onTheWay,      \* the events on their way
    chat,      \* the fields of the session store
    lost,      \* history: messages with events that did not arrive
    broken,    \* history: messages an error came into the middle of
    errors     \* the errors so far that ended no turn

pageVars == <<loop, recorded, onTheWay, chat, lost, broken, errors>>

-----------------------------------------------------------------------------
Pieces == 2   \* the pieces of a call's input; the JSON is whole with the last
IdleLoop(m) == [phase |-> "idle", m |-> m, texts |-> 0, parts |-> <<>>, done |-> 0]

Event(type, m, n) == [type |-> type, m |-> m, n |-> n]
NoTool == [status |-> "none", buffer |-> 0]
Ids == (1..MaxMessages) \X (1..MaxUses)

PageInit ==
    /\ loop = IdleLoop(0)
    /\ recorded = <<>>
    /\ onTheWay = <<>>
    /\ chat = [streaming |-> <<>>, id |-> 0, pending |-> <<>>, messages |-> <<>>,
               tools |-> [u \in Ids |-> NoTool], queue |-> {}]
    /\ lost = {}
    /\ broken = {}
    /\ errors = 0

-----------------------------------------------------------------------------
(* The loop *)

Send(events) == Len(onTheWay) < MaxWire /\ onTheWay' = onTheWay \o events

\* A user's message, or the results of the tools: turn_start and assistant_message_start.
StartMessage ==
    /\ loop.phase \in {"idle", "again"}
    /\ loop.m < MaxMessages
    /\ loop' = [IdleLoop(loop.m + 1) EXCEPT !.phase = "streaming"]
    /\ Send(<<Event("assistant_message_start", loop.m + 1, 0)>>)
    /\ UNCHANGED <<recorded, chat, lost, broken, errors>>

Text ==
    /\ loop.phase = "streaming" /\ loop.texts < MaxTexts
    /\ loop' = [loop EXCEPT !.texts = @ + 1]
    /\ Send(<<Event("assistant_text", loop.m, loop.texts + 1)>>)
    /\ UNCHANGED <<recorded, chat, lost, broken, errors>>

ToolUseStart ==
    /\ loop.phase = "streaming" /\ Len(loop.parts) < MaxUses
    /\ loop' = [loop EXCEPT !.parts = Append(@, 0)]
    /\ Send(<<Event("tool_use_start", loop.m, Len(loop.parts) + 1)>>)
    /\ UNCHANGED <<recorded, chat, lost, broken, errors>>

\* A piece of the input of any call of the message.
InputDelta ==
    \E n \in 1..Len(loop.parts) :
        /\ loop.phase = "streaming" /\ loop.parts[n] < Pieces
        /\ loop' = [loop EXCEPT !.parts[n] = @ + 1]
        /\ Send(<<Event("input_json_delta", loop.m, n)>>)
        /\ UNCHANGED <<recorded, chat, lost, broken, errors>>

\* The message ends and is recorded; one without text and calls is not, and another follows.
MessageEnd ==
    /\ loop.phase = "streaming"
    /\ \A n \in 1..Len(loop.parts) : loop.parts[n] = Pieces
    /\ loop' = IF loop.parts # <<>> THEN [loop EXCEPT !.phase = "tools"]
               ELSE [loop EXCEPT !.phase = IF @ = "streaming" /\ loop.texts = 0 THEN "again" ELSE "idle"]
    /\ recorded' = IF loop.parts = <<>> /\ loop.texts = 0 THEN recorded
                   ELSE Append(recorded, [m |-> loop.m, texts |-> loop.texts, uses |-> Len(loop.parts)])
    /\ Send(<<Event("assistant_message_end", loop.m, 0)>>)
    /\ UNCHANGED <<chat, lost, broken, errors>>

\* A tool must be asked for: the request is sent and its answer waited for.
Ask ==
    /\ loop.phase = "tools"
    /\ loop' = [loop EXCEPT !.phase = "asking"]
    /\ Send(<<Event("permission_request", loop.m, loop.done + 1)>>)
    /\ UNCHANGED <<recorded, chat, lost, broken, errors>>

\* The tool has run, or is refused when the answer does not come in time.
ToolResult ==
    /\ loop.phase \in {"tools", "asking"}
    /\ loop' = [loop EXCEPT !.done = @ + 1,
                            !.phase = IF loop.done + 1 = Len(loop.parts) THEN "again" ELSE "tools"]
    /\ Send(<<Event("tool_result", loop.m, loop.done + 1)>>)
    /\ UNCHANGED <<recorded, chat, lost, broken, errors>>

\* The user stops the turn (turn_end), or it ends with an error.
Stopped ==
    /\ loop.phase # "idle"
    /\ loop' = IdleLoop(loop.m)
    /\ \/ UNCHANGED onTheWay
       \/ Send(<<Event("error", loop.m, 0)>>)
    /\ UNCHANGED <<recorded, chat, lost, broken, errors>>

\* An error that ends no turn: a second message while the session is busy, an unknown request.
StrayError ==
    /\ errors < MaxErrors
    /\ errors' = errors + 1
    /\ Send(<<Event("error", 0, 0)>>)
    /\ broken' = IF loop.phase = "streaming" THEN broken \cup {loop.m} ELSE broken
    /\ UNCHANGED <<loop, recorded, chat, lost>>

\* The connection breaks: what is on its way is lost and the turn is cancelled.
ConnectionBreaks ==
    /\ onTheWay # <<>>
    /\ onTheWay' = <<>>
    /\ lost' = lost \cup {onTheWay[i].m : i \in 1..Len(onTheWay)}
    /\ loop' = IdleLoop(loop.m)
    /\ UNCHANGED <<recorded, chat, broken, errors>>

-----------------------------------------------------------------------------
(* The page *)

\* A message in the list: the text if there is any, and the blocks.
Blocks(c) == [id |-> c.id, texts |-> c.streaming, blocks |-> c.pending]
Cleared(c) == [c EXCEPT !.streaming = <<>>, !.id = 0, !.pending = <<>>]
Anything(c) == c.streaming # <<>> \/ c.pending # <<>>

MessageStarts(c, e) == [Cleared(c) EXCEPT !.id = e.m]

\* The text goes on streaming after its message is shown.
MessageEndsKeeping(c, e) ==
    IF Anything(c) THEN [c EXCEPT !.messages = Append(@, [Blocks(c) EXCEPT !.id = e.m]), !.pending = <<>>]
    ELSE c

MessageEnds(c, e) ==
    IF Anything(c) THEN [Cleared(c) EXCEPT !.messages = Append(@, [Blocks(c) EXCEPT !.id = e.m])]
    ELSE c

ToolStarts(c, e) ==
    [c EXCEPT !.tools[<<e.m, e.n>>] = [status |-> "running", buffer |-> 0],
              !.pending = Append(@, [type |-> "tool_use", use |-> <<e.m, e.n>>, input |-> 0])]

\* The input is {} until all of it can be parsed.
InputArrives(c, e) ==
    LET u == <<e.m, e.n>>
        buffer == c.tools[u].buffer + 1
    IN  [c EXCEPT !.tools[u] = [status |-> "running", buffer |-> buffer],
                  !.pending = [i \in 1..Len(@) |->
                      IF @[i].type = "tool_use" /\ @[i].use = u
                      THEN [@[i] EXCEPT !.input = IF buffer = Pieces THEN Pieces ELSE 0] ELSE @[i]]]

\* The input that was collected is not kept.
ResultArrives(c, e) ==
    [c EXCEPT !.tools[<<e.m, e.n>>] = [status |-> "completed", buffer |-> 0],
              !.pending = Append(@, [type |-> "tool_result", use |-> <<e.m, e.n>>, input |-> 0])]

\* What has streamed so far becomes a message, before the error.  The one error that empties
\* the page instead, session_not_found, ends the page's session and is in FrontendSocket.
ErrorArrives(c) ==
    IF Anything(c) THEN [Cleared(c) EXCEPT !.messages = Append(@, Blocks(c))] ELSE Cleared(c)

Handled(c, e) ==
    CASE e.type = "assistant_message_start" -> MessageStarts(c, e)
      [] e.type = "assistant_text" -> [c EXCEPT !.streaming = Append(@, <<e.m, e.n>>)]
      [] e.type = "assistant_message_end" -> MessageEnds(c, e)
      [] e.type = "tool_use_start" -> ToolStarts(c, e)
      [] e.type = "input_json_delta" -> InputArrives(c, e)
      [] e.type = "tool_result" -> ResultArrives(c, e)
      [] e.type = "permission_request" -> [c EXCEPT !.queue = @ \cup {<<e.m, e.n>>}]
      [] e.type = "error" -> ErrorArrives(c)

HandleServerEvent ==
    /\ onTheWay # <<>>
    /\ chat' = Handled(chat, Head(onTheWay))
    /\ onTheWay' = Tail(onTheWay)
    /\ UNCHANGED <<loop, recorded, lost, broken, errors>>

\* handleDecision: the answer may come too late.
Decide ==
    /\ \E u \in chat.queue :
          /\ chat' = [chat EXCEPT !.queue = @ \ {u}]
          /\ loop' = IF loop.phase = "asking" /\ u = <<loop.m, loop.done + 1>>
                     THEN [loop EXCEPT !.phase = "tools"] ELSE loop
    /\ UNCHANGED <<recorded, onTheWay, lost, broken, errors>>

PageNext ==
    \/ StartMessage \/ Text \/ ToolUseStart \/ InputDelta \/ MessageEnd \/ Ask \/ ToolResult
    \/ Stopped \/ StrayError \/ ConnectionBreaks \/ HandleServerEvent \/ Decide

PageSpec == PageInit /\ [][PageNext]_pageVars

-----------------------------------------------------------------------------
\* What the page shows: its messages, and last what streams.  A place is one of these and a
\* delta, or a block, in it.
OnPage(c) == Append(c.messages, Blocks(c))
TextAt(c, p) == OnPage(c)[p[1]].texts[p[2]]
BlockAt(c, p) == OnPage(c)[p[1]].blocks[p[2]]
TextPlaces(c, m) ==
    {p \in UNION {{i} \X (1..Len(OnPage(c)[i].texts)) : i \in 1..Len(OnPage(c))} : TextAt(c, p)[1] = m}
UsePlaces(c, u) ==
    {p \in UNION {{i} \X (1..Len(OnPage(c)[i].blocks)) : i \in 1..Len(OnPage(c))} :
        BlockAt(c, p).type = "tool_use" /\ BlockAt(c, p).use = u}
Above(p, q) == p[1] < q[1] \/ (p[1] = q[1] /\ p[2] < q[2])

\* Once a recorded message has arrived, the page shows all of its text, once and in order, and
\* each of its calls once and with its input, whatever errors came into the middle of it and
\* however the turns around it ended (sessionStore.ts:205-227, 418-449).  A call an error came
\* between loses its input to the error alone.
ShowsWhatWasRecorded ==
    \A i \in 1..Len(recorded) :
        LET r == recorded[i] IN
        (r.m \notin lost /\ Event("assistant_message_end", r.m, 0) \notin {onTheWay[k] : k \in 1..Len(onTheWay)}) =>
            /\ \A k \in 1..r.texts : \E p \in TextPlaces(chat, r.m) : TextAt(chat, p) = <<r.m, k>>
            /\ \A p, q \in TextPlaces(chat, r.m) : Above(p, q) => TextAt(chat, p)[2] < TextAt(chat, q)[2]
            /\ \A p \in TextPlaces(chat, r.m) : TextAt(chat, p)[2] \in 1..r.texts
            /\ \A n \in 1..r.uses : \E p \in UsePlaces(chat, <<r.m, n>>) :
                  /\ UsePlaces(chat, <<r.m, n>>) = {p}
                  /\ r.m \notin broken => BlockAt(chat, p).input = Pieces

=============================================================================
