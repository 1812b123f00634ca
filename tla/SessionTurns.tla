----------------------------- MODULE SessionTurns -----------------------------
(***************************************************************************)
(* The conversation turns of one session of the backend.                   *)
(*                                                                         *)
(* A session (SessionData) is shared by every websocket connected to it    *)
(* and by the REST callers that push a turn into it (relay, skills).  Each *)
(* websocket handler runs its turns in an asyncio task of its own          *)
(* (api/ws.py); the turn itself is run_conversation_turn and the agentic   *)
(* loop (core/conversation.py), its tool calls and the permission gate are *)
(* core/tool_runner.py.                                                    *)
(*                                                                         *)
(* The code is asyncio: what runs between two awaits is atomic.  A value   *)
(* of pc names the await a turn is suspended at, and an action is the code *)
(* from one await to the next.  Consecutive awaits with no access to the   *)
(* shared session between them are one value of pc.  Task.cancel() only    *)
(* requests the cancellation: CancelledError is raised inside the turn the *)
(* next time the turn is scheduled.                                        *)
(***************************************************************************)
EXTENDS Naturals, Sequences

CONSTANTS
    Conns,        \* websocket connections (browser tabs) of the session
    WsTurns,      \* turns started by a user_message: bounds how many there are
    RestTurns,    \* turns pushed by POST /relay or POST /skills/.../execute
    NoTurn,       \* a handler whose turn_task is None
    ToolIds,      \* tool_use ids, chosen by the provider and possibly reused
    NoTool,       \* no tool call is being processed
    Modes,        \* the permission modes a client may send
    MaxTurns,     \* MAX_TURNS, the safety limit of the agentic loop
    MaxUses,      \* bound on the tool calls of one assistant message
    WaitForKeeps  \* asyncio.wait_for of Python 3.11: a cancellation that finds the wait
                  \* already over is dropped and the result kept (3.12 raises it)

Turns == WsTurns \cup RestTurns

ASSUME TurnsAssumption ==
    /\ NoTurn \notin Turns
    /\ NoTool \notin ToolIds
    /\ WsTurns \cap RestTurns = {}
    /\ Modes \subseteq {"default", "auto", "plan", "trust", "invalid"}
    /\ MaxTurns \in Nat \ {0}
    /\ MaxUses \in Nat \ {0}
    /\ WaitForKeeps \in BOOLEAN

VARIABLES
    status,       \* session.status
    shouldAbort,  \* session.should_abort
    mode,         \* session.model_config["permission_mode"]
    perm,         \* session._permission_events
    history,      \* session.messages
    conn,         \* where each websocket handler is
    owned,        \* the handler's turn_task
    pc,           \* the await each turn is suspended at
    cancelled,    \* Task.cancel() was called on the turn
    loop,         \* the locals of the turn's agentic loop
    call          \* the locals of the turn's current tool call

sessionVars == <<status, shouldAbort, mode, perm, history>>
connVars == <<conn, owned>>
taskVars == <<pc, cancelled>>
localVars == <<loop, call>>
vars == <<sessionVars, connVars, taskVars, localVars>>

-----------------------------------------------------------------------------
(* Types *)

NoEntry == [turn |-> NoTurn, decision |-> "none"]
Entries == [turn : Turns \cup {NoTurn}, decision : {"none", "approve", "deny"}]

\* The collections of tool calls one assistant message may hold.
Batches == {b \in UNION {[1..n -> ToolIds] : n \in 1..MaxUses} :
              \A i, j \in DOMAIN b : b[i] = b[j] => i = j}

Messages == [kind : {"user", "nudge", "assistant", "tools", "results"},
             turn : Turns,
             ids  : Seq(ToolIds)]

\* n is turn_number, retried is empty_response_retries >= 1, uses is
\* collector.tool_uses and answered the number of them that have a result.
Iteration(n, retried) == [n |-> n, retried |-> retried, uses |-> <<>>, answered |-> 0]
NoLoop == Iteration(0, FALSE)
Loops == [n : 0..MaxTurns, retried : BOOLEAN, uses : Seq(ToolIds), answered : Nat]

\* id is the tool call being processed, verdict what check_permission said of it,
\* signalled the state of the asyncio.Event waited on; answers is a ghost, the
\* decisions a client sent for this call while it was being asked about.
ToolCall(u, v) == [id |-> u, verdict |-> v, signalled |-> FALSE, answers |-> {}]
NoCall == ToolCall(NoTool, "none")
Calls == [id        : ToolIds \cup {NoTool},
          verdict   : {"none", "allow", "ask"},
          signalled : BOOLEAN,
          answers   : SUBSET {"approve", "deny"}]

\* Not started; in SESSION_START or waiting to be scheduled; in _validate_api_key;
\* in the hooks and the classification before the loop.
BeforeLoop == {"none", "created", "validating", "routing"}
\* From TURN_START to the end of the stream; after the assistant message and between
\* tool calls; sending permission_request; event.wait(); TOOL_BEFORE, execute_tool and
\* TOOL_AFTER; the last sends before the finally.
InLoop == {"streaming", "calling", "prompting", "asking", "running", "closing"}
\* AGENT_DELEGATE_BEFORE, outside the try; the pipeline, inside it.
InTeam == {"delegating", "team"}
\* SESSION_END after the finally; the task is done.
AfterLoop == {"ending", "done"}

-----------------------------------------------------------------------------
(* Helpers *)

\* The task exists and is not done().
Alive(t) == pc[t] \notin {"none", "done"}

\* The next step of the turn is a step of its own code, not a CancelledError.
Active(t) == Alive(t) /\ ~cancelled[t]

\* A turn that still has its status = IDLE to perform.
Working(t) == Active(t) /\ pc[t] # "ending"

OwnTurnRuns(c) == owned[c] # NoTurn /\ Alive(owned[c])

At(t, l) == pc[t] = l /\ ~cancelled[t]

Goto(t, l) == pc' = [pc EXCEPT ![t] = l]

\* The turn leaves its agentic loop, and its locals, for l.
Leave(t, l) ==
    /\ Goto(t, l)
    /\ loop' = [loop EXCEPT ![t] = NoLoop]
    /\ call' = [call EXCEPT ![t] = NoCall]

Message(k, t, ids) == [kind |-> k, turn |-> t, ids |-> ids]

\* check_permission: the decisions a mode allows, over every risk level and
\* read-only flag the called tool may have.
Decisions(m) ==
    CASE m = "default" -> {"allow", "ask"}
      [] m = "plan"    -> {"allow", "deny"}
      [] OTHER         -> {"allow"}

\* The handler cancels its own turn, if it has one that is not done.
CancelOwn(c) ==
    cancelled' = IF OwnTurnRuns(c) THEN [cancelled EXCEPT ![owned[c]] = TRUE]
                 ELSE cancelled

-----------------------------------------------------------------------------
Init ==
    /\ status = "idle"
    /\ shouldAbort = FALSE
    /\ mode = "default"
    /\ perm = [u \in ToolIds |-> NoEntry]
    /\ history = <<>>
    /\ conn = [c \in Conns |-> "closed"]
    /\ owned = [c \in Conns |-> NoTurn]
    /\ pc = [t \in Turns |-> "none"]
    /\ cancelled = [t \in Turns |-> FALSE]
    /\ loop = [t \in Turns |-> NoLoop]
    /\ call = [t \in Turns |-> NoCall]

-----------------------------------------------------------------------------
(* The websocket handler: websocket_endpoint of api/ws.py.  One action per
   message type and per way the handler ends. *)

\* websocket_endpoint accepts the connection; turn_task is a new local.
Connect(c) ==
    /\ conn[c] = "closed"
    /\ conn' = [conn EXCEPT ![c] = "open"]
    /\ owned' = [owned EXCEPT ![c] = NoTurn]
    /\ UNCHANGED <<sessionVars, taskVars, localVars>>

\* Mutant: a message is accepted whatever runs, as a pushed turn is.
MayStartTurnUnchecked(c) == conn[c] = "open"

\* The busy check of a user_message: the session's status, then the own task.
MayStartTurn(c) == status # "busy" /\ ~OwnTurnRuns(c)

\* status = BUSY and create_task(run_turn_background(...)).
StartTurn(c) ==
    \E t \in WsTurns :
        /\ pc[t] = "none"
        /\ status' = "busy"
        /\ owned' = [owned EXCEPT ![c] = t]
        /\ Goto(t, "created")

\* A user_message without images: no await between the check and the start.
UserMessage(c) ==
    /\ conn[c] = "open"
    /\ MayStartTurn(c)
    /\ StartTurn(c)
    /\ UNCHANGED <<shouldAbort, mode, perm, history, conn, cancelled, localVars>>

\* A user_message with images: the handler awaits resolve_provider after the check.
ImageMessage(c) ==
    /\ conn[c] = "open"
    /\ MayStartTurn(c)
    /\ conn' = [conn EXCEPT ![c] = "imaging"]
    /\ UNCHANGED <<sessionVars, owned, taskVars, localVars>>

\* The provider is known: the model has no vision and the message is dropped, or
\* the turn starts, without a second look at the status.
ImageResolved(c) ==
    /\ conn[c] = "imaging"
    /\ conn' = [conn EXCEPT ![c] = "open"]
    /\ \/ UNCHANGED <<status, owned, pc>>
       \/ StartTurn(c)
    /\ UNCHANGED <<shouldAbort, mode, perm, history, cancelled, localVars>>

\* abort: the status is IDLE at once, whatever the cancelled task does next.
Abort(c) ==
    /\ conn[c] = "open"
    /\ shouldAbort' = TRUE
    /\ status' = "idle"
    /\ CancelOwn(c)
    /\ UNCHANGED <<mode, perm, history, connVars, pc, localVars>>

IsAsking(t) == pc[t] \in {"prompting", "asking"}

\* The call of t after a client decided d for tool_use u: the ghost notes the decision
\* if t is asking about u; the event of the registered turn is set, which comes too late
\* for a turn already cancelled.
Heard(t, u, d) ==
    [id        |-> call[t].id,
     verdict   |-> call[t].verdict,
     signalled |-> \/ call[t].signalled
                   \/ perm[u].turn = t /\ IsAsking(t) /\ ~cancelled[t],
     answers   |-> IF IsAsking(t) /\ call[t].id = u THEN call[t].answers \cup {d}
                   ELSE call[t].answers]

\* A duplicated, late or unknown tool_use_id is allowed: resolve_permission looks the
\* entry up, overwrites its decision and sets its event.
PermissionResponse(c, u, d) ==
    /\ conn[c] = "open"
    /\ perm' = [perm EXCEPT ![u].decision = IF perm[u] = NoEntry THEN @ ELSE d]
    /\ call' = [t \in Turns |-> Heard(t, u, d)]
    /\ UNCHANGED <<status, shouldAbort, mode, history, connVars, taskVars, loop>>

\* session_config: the mode is stored unvalidated and read at the next tool call.
SessionConfig(c, m) ==
    /\ conn[c] = "open"
    /\ mode' = m
    /\ UNCHANGED <<status, shouldAbort, perm, history, connVars, taskVars, localVars>>

\* Mutant: the turn survives its connection.
DisconnectKeepsTurn(c) ==
    /\ conn[c] = "open"
    /\ status' = "idle"
    /\ conn' = [conn EXCEPT ![c] = "closed"]
    /\ UNCHANGED <<shouldAbort, mode, perm, history, owned, taskVars, localVars>>

\* WebSocketDisconnect, of a receive or of a send: the handler cancels its turn and
\* awaits its end ...
Disconnect(c) ==
    /\ conn[c] \in {"open", "imaging"}
    /\ CancelOwn(c)
    /\ \/ /\ OwnTurnRuns(c)
          /\ shouldAbort' = TRUE
          /\ conn' = [conn EXCEPT ![c] = "draining"]
          /\ UNCHANGED status
       \/ /\ ~OwnTurnRuns(c)
          /\ status' = "idle"
          /\ conn' = [conn EXCEPT ![c] = "closed"]
          /\ UNCHANGED shouldAbort
    /\ UNCHANGED <<mode, perm, history, owned, pc, localVars>>

\* Mutant: the handler trusts the turn's finally to have made the session idle.
DrainedStaysBusy(c) ==
    /\ conn[c] = "draining"
    /\ ~OwnTurnRuns(c)
    /\ conn' = [conn EXCEPT ![c] = "closed"]
    /\ UNCHANGED <<sessionVars, owned, taskVars, localVars>>

\* ... and then makes the session idle, whoever made it busy.
Drained(c) ==
    /\ conn[c] = "draining"
    /\ ~OwnTurnRuns(c)
    /\ status' = "idle"
    /\ conn' = [conn EXCEPT ![c] = "closed"]
    /\ UNCHANGED <<shouldAbort, mode, perm, history, owned, taskVars, localVars>>

\* Mutant: the generic exception path only raises the abort flag.
HandlerErrorKeepsTurn(c) ==
    /\ conn[c] = "open"
    /\ shouldAbort' = (shouldAbort \/ OwnTurnRuns(c))
    /\ status' = "idle"
    /\ conn' = [conn EXCEPT ![c] = "closed"]
    /\ UNCHANGED <<mode, perm, history, owned, taskVars, localVars>>

\* Any other exception of the receive loop (a malformed message, a dead socket, no provider):
\* the turn is cancelled and not awaited.
HandlerError(c) ==
    /\ conn[c] \in {"open", "imaging"}
    /\ CancelOwn(c)
    /\ shouldAbort' = (shouldAbort \/ OwnTurnRuns(c))
    /\ status' = "idle"
    /\ conn' = [conn EXCEPT ![c] = "closed"]
    /\ UNCHANGED <<mode, perm, history, owned, pc, localVars>>

\* push_task and execute_skill: a turn without a busy check, in a task nobody keeps.
RestTurn(t) ==
    /\ t \in RestTurns
    /\ pc[t] = "none"
    /\ Goto(t, "created")
    /\ UNCHANGED <<sessionVars, connVars, cancelled, localVars>>

-----------------------------------------------------------------------------
(* A turn up to the agentic loop: _run_conversation_turn_impl. *)

\* After SESSION_START: the session is claimed and a pending abort forgotten.
Begin(t) ==
    /\ At(t, "created")
    /\ status' = "busy"
    /\ shouldAbort' = FALSE
    /\ Goto(t, "validating")
    /\ UNCHANGED <<mode, perm, history, connVars, cancelled, localVars>>

\* _validate_api_key found no key (or its error message could not be sent, which
\* run_turn_background turns into the same end): no finally, no SESSION_END.
KeyMissing(t) ==
    /\ At(t, "validating")
    /\ status' = "idle"
    /\ Goto(t, "done")
    /\ UNCHANGED <<shouldAbort, mode, perm, history, connVars, cancelled, localVars>>

\* The key is there: the user's message joins the history.
AcceptMessage(t) ==
    /\ At(t, "validating")
    /\ history' = Append(history, Message("user", t, <<>>))
    /\ Goto(t, "routing")
    /\ UNCHANGED <<status, shouldAbort, mode, perm, connVars, cancelled, localVars>>

\* "/team", or a long implementation request to an Anthropic model.
RouteToTeam(t) ==
    /\ At(t, "routing")
    /\ status' = "busy"
    /\ Goto(t, "delegating")
    /\ UNCHANGED <<shouldAbort, mode, perm, history, connVars, cancelled, localVars>>

EnterTeam(t) ==
    /\ At(t, "delegating")
    /\ Goto(t, "team")
    /\ UNCHANGED <<sessionVars, connVars, cancelled, localVars>>

\* The pipeline ends, with text, without, or with an exception: then the finally.
TeamEnds(t) ==
    /\ At(t, "team")
    /\ status' = "idle"
    /\ \/ UNCHANGED history
       \/ history' = Append(history, Message("assistant", t, <<>>))
    /\ Goto(t, "ending")
    /\ UNCHANGED <<shouldAbort, mode, perm, connVars, cancelled, localVars>>

-----------------------------------------------------------------------------
(* The agentic loop: _agentic_loop_impl. *)

\* The head of the next iteration: the safety limit, the abort check, TURN_START.
NextIteration(t, retried) ==
    LET n == loop[t].n + 1 IN
    \/ /\ n > MaxTurns
       /\ Leave(t, "closing")
       /\ UNCHANGED shouldAbort
    \/ /\ n <= MaxTurns
       /\ shouldAbort
       /\ shouldAbort' = FALSE
       /\ Leave(t, "closing")
    \/ /\ n <= MaxTurns
       /\ ~shouldAbort
       /\ loop' = [loop EXCEPT ![t] = Iteration(n, retried)]
       /\ Goto(t, "streaming")
       /\ UNCHANGED <<shouldAbort, call>>

EnterLoop(t) ==
    /\ At(t, "routing")
    /\ NextIteration(t, FALSE)
    /\ UNCHANGED <<status, mode, perm, history, connVars, cancelled>>

\* An event arrives after an abort: the flag is consumed and the turn stops.
StreamAborted(t) ==
    /\ At(t, "streaming")
    /\ shouldAbort
    /\ shouldAbort' = FALSE
    /\ Leave(t, "closing")
    /\ UNCHANGED <<status, mode, perm, history, connVars, cancelled>>

\* The stream ends without text and without a tool call: one nudge, then give up.
StreamEmpty(t) ==
    /\ At(t, "streaming")
    /\ \/ /\ ~loop[t].retried
          /\ history' = Append(history, Message("nudge", t, <<>>))
          /\ NextIteration(t, TRUE)
       \/ /\ loop[t].retried
          /\ Leave(t, "closing")
          /\ UNCHANGED <<shouldAbort, history>>
    /\ UNCHANGED <<status, mode, perm, connVars, cancelled>>

\* A final answer: the assistant message, then turn_end.
StreamAnswer(t) ==
    /\ At(t, "streaming")
    /\ history' = Append(history, Message("assistant", t, <<>>))
    /\ Leave(t, "closing")
    /\ UNCHANGED <<status, shouldAbort, mode, perm, connVars, cancelled>>

\* The assistant asks for tools: the message joins the history before they run.
StreamTools(t, b) ==
    /\ At(t, "streaming")
    /\ history' = Append(history, Message("tools", t, b))
    /\ loop' = [loop EXCEPT ![t].uses = b]
    /\ Goto(t, "calling")
    /\ UNCHANGED <<status, shouldAbort, mode, perm, connVars, cancelled, call>>

\* The stream breaks, a hook or send raises, the mode is no PermissionMode, or a tool is
\* not registered: the turn goes to its finally and leaves the history and the permission
\* entries as they are.
TurnFails(t) ==
    /\ \E l \in InLoop \ {"asking", "closing"} : At(t, l)
    /\ Leave(t, "closing")
    /\ UNCHANGED <<sessionVars, connVars, cancelled>>

\* The finally of the loop: idle, persisted and archived.
Finally(t) ==
    /\ At(t, "closing")
    /\ status' = "idle"
    /\ Goto(t, "ending")
    /\ UNCHANGED <<shouldAbort, mode, perm, history, connVars, cancelled, localVars>>

\* SESSION_END has been dispatched.
End(t) ==
    /\ At(t, "ending")
    /\ Goto(t, "done")
    /\ UNCHANGED <<sessionVars, connVars, cancelled, localVars>>

-----------------------------------------------------------------------------
(* The tool calls of an assistant message: run_tool_uses, one call at a time. *)

\* Every call has its result, or an abort was seen: the results join the history and
\* the loop goes on with the next iteration.
BatchEnds(t) ==
    /\ At(t, "calling")
    /\ shouldAbort \/ loop[t].answered = Len(loop[t].uses)
    /\ history' = Append(history,
                         Message("results", t, SubSeq(loop[t].uses, 1, loop[t].answered)))
    /\ NextIteration(t, loop[t].retried)
    /\ UNCHANGED <<status, mode, perm, connVars, cancelled>>

\* check_permission denies: an error result.
CallDenied(t) ==
    /\ "deny" \in Decisions(mode)
    /\ loop' = [loop EXCEPT ![t].answered = @ + 1]
    /\ UNCHANGED <<perm, pc, call>>

\* check_permission allows: TOOL_BEFORE and execute_tool.
CallAllowed(t, u) ==
    /\ "allow" \in Decisions(mode)
    /\ call' = [call EXCEPT ![t] = ToolCall(u, "allow")]
    /\ Goto(t, "running")
    /\ UNCHANGED <<perm, loop>>

\* Mutant: register_permission_request keeps the entry an earlier call of this id left,
\* as dict.setdefault would.
CallAskedKeepsEntry(t, u) ==
    /\ "ask" \in Decisions(mode)
    /\ call' = [call EXCEPT ![t] = [ToolCall(u, "ask") EXCEPT
                                   !.signalled = perm[u].decision # "none"]]
    /\ perm' = [perm EXCEPT ![u].turn = t]
    /\ Goto(t, "prompting")
    /\ UNCHANGED loop

\* check_permission asks: register_permission_request replaces an entry of the same id
\* by a new event without a decision, and permission_request is about to be sent.
CallAsked(t, u) ==
    /\ "ask" \in Decisions(mode)
    /\ call' = [call EXCEPT ![t] = ToolCall(u, "ask")]
    /\ perm' = [perm EXCEPT ![u] = [turn |-> t, decision |-> "none"]]
    /\ Goto(t, "prompting")
    /\ UNCHANGED loop

\* The next tool call: check_permission with the mode the session has now.
CallTool(t) ==
    LET u == loop[t].uses[loop[t].answered + 1] IN
    /\ At(t, "calling")
    /\ ~shouldAbort
    /\ loop[t].answered < Len(loop[t].uses)
    /\ mode # "invalid"
    /\ CallDenied(t) \/ CallAllowed(t, u) \/ CallAsked(t, u)
    /\ UNCHANGED <<status, shouldAbort, mode, history, connVars, cancelled>>

\* permission_request has been sent.
Prompted(t) ==
    /\ At(t, "prompting")
    /\ Goto(t, "asking")
    /\ UNCHANGED <<sessionVars, connVars, cancelled, localVars>>

\* The call has its result and the turn goes on to the next one.
GiveResult(t) ==
    /\ loop' = [loop EXCEPT ![t].answered = @ + 1]
    /\ call' = [call EXCEPT ![t] = NoCall]
    /\ Goto(t, "calling")

\* The wait is over: the decision is looked up by tool_use_id and the entry removed.
Decide(t) ==
    /\ perm' = [perm EXCEPT ![call[t].id] = NoEntry]
    /\ \/ /\ perm[call[t].id].decision = "approve"
          /\ Goto(t, "running")
          /\ UNCHANGED localVars
       \/ /\ perm[call[t].id].decision # "approve"
          /\ GiveResult(t)

Answered(t) ==
    /\ At(t, "asking")
    /\ call[t].signalled
    /\ Decide(t)
    /\ UNCHANGED <<status, shouldAbort, mode, history, connVars, cancelled>>

\* Python 3.11: the turn was cancelled after its event was set, and wait_for returns.
CancelDropped(t) ==
    /\ WaitForKeeps
    /\ pc[t] = "asking"
    /\ cancelled[t]
    /\ call[t].signalled
    /\ cancelled' = [cancelled EXCEPT ![t] = FALSE]
    /\ Decide(t)
    /\ UNCHANGED <<status, shouldAbort, mode, history, connVars>>

\* Mutant: event.wait() without a timeout.
AskNeverTimesOut(t) == FALSE

\* PERMISSION_TIMEOUT_SECS passed: the call is denied, even if an answer arrived
\* between the timeout and the turn being scheduled.
AskTimesOut(t) ==
    /\ At(t, "asking")
    /\ perm' = [perm EXCEPT ![call[t].id] = NoEntry]
    /\ GiveResult(t)
    /\ UNCHANGED <<status, shouldAbort, mode, history, connVars, cancelled>>

\* execute_tool returned: a result, or the error it makes of any exception.
ToolDone(t) ==
    /\ At(t, "running")
    /\ GiveResult(t)
    /\ UNCHANGED <<sessionVars, connVars, cancelled>>

\* CancelledError is raised at the await the turn is suspended at.  The finally of the
\* loop and of the pipeline run; nothing else does, and a permission entry stays.
CancelDelivered(t) ==
    /\ Alive(t)
    /\ cancelled[t]
    /\ status' = IF pc[t] \in InLoop \cup {"team"} THEN "idle" ELSE status
    /\ cancelled' = [cancelled EXCEPT ![t] = FALSE]
    /\ Leave(t, "done")
    /\ UNCHANGED <<shouldAbort, mode, perm, history, connVars>>

-----------------------------------------------------------------------------
TurnStep(t) ==
    \/ Begin(t) \/ KeyMissing(t) \/ AcceptMessage(t)
    \/ RouteToTeam(t) \/ EnterTeam(t) \/ TeamEnds(t)
    \/ EnterLoop(t) \/ StreamAborted(t)
    \/ StreamEmpty(t) \/ StreamAnswer(t) \/ (\E b \in Batches : StreamTools(t, b))
    \/ BatchEnds(t) \/ CallTool(t) \/ Prompted(t) \/ Answered(t) \/ AskTimesOut(t)
    \/ ToolDone(t) \/ TurnFails(t) \/ Finally(t) \/ End(t)
    \/ CancelDropped(t) \/ CancelDelivered(t)

HandlerStep(c) ==
    \/ Connect(c) \/ UserMessage(c) \/ ImageMessage(c) \/ ImageResolved(c)
    \/ Abort(c)
    \/ \E u \in ToolIds, d \in {"approve", "deny"} : PermissionResponse(c, u, d)
    \/ \E m \in Modes : SessionConfig(c, m)
    \/ Disconnect(c) \/ Drained(c) \/ HandlerError(c)

Next ==
    \/ \E c \in Conns : HandlerStep(c)
    \/ \E t \in RestTurns : RestTurn(t)
    \/ \E t \in Turns : TurnStep(t)

Spec == Init /\ [][Next]_vars

\* The event loop runs every ready task: a turn always takes its next step, and a
\* handler that waits for its cancelled turn goes on once the turn is done.  Streams and
\* tools end (their clients and subprocesses have timeouts); no client has to answer a
\* question, abort or disconnect.
Fairness ==
    /\ \A t \in Turns : WF_vars(TurnStep(t))
    /\ \A c \in Conns : WF_vars(Drained(c))

FairSpec == Spec /\ Fairness

-----------------------------------------------------------------------------
TypeOK ==
    /\ status \in {"idle", "busy"}
    /\ shouldAbort \in BOOLEAN
    /\ mode \in Modes \cup {"default"}
    /\ perm \in [ToolIds -> Entries]
    /\ history \in Seq(Messages)
    /\ conn \in [Conns -> {"closed", "open", "imaging", "draining"}]
    /\ owned \in [Conns -> WsTurns \cup {NoTurn}]
    /\ pc \in [Turns -> BeforeLoop \cup InLoop \cup InTeam \cup AfterLoop]
    /\ cancelled \in [Turns -> BOOLEAN]
    /\ loop \in [Turns -> Loops]
    /\ call \in [Turns -> Calls]

\* A tool runs only if the rules or the user allow it: check_permission allowed this call,
\* or it asked and some client approved this tool_use id while this very call was being
\* asked about.  An entry left by an earlier call of the same id, answered or not, must
\* never stand for it (register_permission_request and clear_permission, _ask_user).
PermissionRespected ==
    \A t \in Turns : pc[t] = "running" =>
        \/ call[t].verdict = "allow"
        \/ call[t].verdict = "ask" /\ "approve" \in call[t].answers

\* A busy session has somebody who will make it idle: a turn with its own idle still to
\* come, or a handler that is waiting for its cancelled turn.  Otherwise the session
\* refuses every message with session_busy for ever.
BusyHasOwner ==
    status = "busy" => \/ \E t \in Turns : Working(t)
                       \/ \E c \in Conns : conn[c] = "draining"

\* Every turn a client started and nobody cancelled is the turn_task of an open handler,
\* which can abort it; no sequence of disconnects, errors and reconnects leaves a turn
\* running (and spending) that no handler holds.
NoOrphanTurn ==
    \A t \in WsTurns : Active(t) => \E c \in Conns : conn[c] = "open" /\ owned[c] = t

\* The provider accepts a conversation only if tool calls and their results pair up.
\* Results directly follow the calls of the same turn they answer, in their order; calls
\* are followed by their results, except those being executed, which end the conversation,
\* and those a turn was stopped at: a turn leaves calls without results once at most, and
\* they are the last it ever writes.
ResultsAnswer(i) ==
    history[i].kind = "results" =>
        /\ i > 1
        /\ history[i - 1].kind = "tools"
        /\ history[i - 1].turn = history[i].turn
        /\ \E n \in 0..Len(history[i - 1].ids) : history[i].ids = SubSeq(history[i - 1].ids, 1, n)

CallsAnswered(i) ==
    history[i].kind = "tools" =>
        LET t == history[i].turn IN
        \/ i < Len(history) /\ history[i + 1].kind = "results"
        \/ i = Len(history) /\ Active(t) /\ loop[t].uses = history[i].ids
        \/ /\ ~Active(t) \/ pc[t] \in {"closing", "ending"}
           /\ \A j \in i + 1..Len(history) : history[j].turn # t

ToolsPaired == \A i \in DOMAIN history : ResultsAnswer(i) /\ CallsAnswered(i)

\* With a single client, whose connection may break and come back at any time, the
\* session is the serial conversation of TurnLog: the writer is the turn that is alive and
\* not cancelled, and a cancelled or finished turn has stopped.
WriterOf(h) == [i \in DOMAIN h |-> h[i].turn]
CurrentTurn == IF \E t \in Turns : Active(t) THEN CHOOSE t \in Turns : Active(t) ELSE NoTurn
StoppedTurns == {t \in Turns : cancelled[t] \/ pc[t] = "done"}

Log == INSTANCE TurnLog WITH
    log <- WriterOf(history), writer <- CurrentTurn, stopped <- StoppedTurns

SerialTurns == Log!Spec

\* Every turn ends, although the user may never answer a permission_request.
TurnEnds == \A t \in Turns : (pc[t] = "created") ~> (pc[t] = "done")

\* "User aborts the current operation": should_abort is only ever withdrawn by stopping
\* the turns that were in their loop when it was withdrawn.
AbortHeeded ==
    [][shouldAbort /\ ~shouldAbort' =>
        \A t \in Turns : Active(t) /\ pc[t] \in InLoop => pc'[t] = "closing" \/ ~Active(t)']_vars

-----------------------------------------------------------------------------
(* What the invariants above need besides themselves to be inductive. *)

\* A batch starts without results, never has more of them than calls, and fewer while a
\* call is being processed.
BatchProgress ==
    \A t \in Turns :
        /\ loop[t].answered <= Len(loop[t].uses)
        /\ pc[t] \in {"prompting", "asking", "running"} =>
               loop[t].answered < Len(loop[t].uses)
        /\ pc[t] = "streaming" => loop[t].answered = 0

\* cancel() is only called on a task that is not done, and is forgotten with it.
CancelledAlive == \A t \in Turns : cancelled[t] => Alive(t)

\* A turn_task has been started, and a handler that resolves an image has none running.
HandlersOwn ==
    \A c \in Conns :
        /\ owned[c] # NoTurn => pc[owned[c]] # "none"
        /\ conn[c] = "imaging" => ~OwnTurnRuns(c)

\* A decision stored for the call being asked about was made while it was asked about.
DecisionFresh ==
    \A t \in Turns : IsAsking(t) =>
        /\ call[t].id \in ToolIds
        /\ call[t].verdict = "ask"
        /\ perm[call[t].id].decision = "approve" => "approve" \in call[t].answers

=============================================================================
