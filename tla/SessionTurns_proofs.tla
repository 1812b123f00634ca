------------------------- MODULE SessionTurns_proofs -------------------------
(* Proofs about SessionTurns, for every number of connections, turns and tool calls. *)
EXTENDS SessionTurns, SequenceTheorems, TLAPS

-----------------------------------------------------------------------------
(* Lemmas about the operators of the module. *)

\* A batch of tool calls is a sequence of tool ids.
LEMMA BatchType == \A b \in Batches : b \in Seq(ToolIds)
  BY TurnsAssumption DEF Batches

\* Leaving the loop keeps the types of the task and of its locals.
LEMMA LeaveType ==
    ASSUME TypeOK, NEW t \in Turns, NEW l \in {"closing", "done"}, Leave(t, l)
    PROVE  /\ pc' \in [Turns -> BeforeLoop \cup InLoop \cup InTeam \cup AfterLoop]
           /\ loop' \in [Turns -> Loops]
           /\ call' \in [Turns -> Calls]
  <1>1. NoLoop \in Loops /\ NoCall \in Calls
    BY TurnsAssumption DEF NoLoop, Iteration, Loops, NoCall, ToolCall, Calls
  <1> QED  BY <1>1 DEF TypeOK, Leave, Goto, InLoop, AfterLoop

\* So does the head of an iteration, which changes should_abort besides.
LEMMA NextIterationType ==
    ASSUME TypeOK, NEW t \in Turns, NEW r \in BOOLEAN, NextIteration(t, r)
    PROVE  /\ pc' \in [Turns -> BeforeLoop \cup InLoop \cup InTeam \cup AfterLoop]
           /\ loop' \in [Turns -> Loops]
           /\ call' \in [Turns -> Calls]
           /\ shouldAbort' \in BOOLEAN
  <1>1. CASE Leave(t, "closing") /\ shouldAbort' \in BOOLEAN
    BY <1>1, LeaveType
  <1>2. CASE /\ loop[t].n + 1 <= MaxTurns
             /\ loop' = [loop EXCEPT ![t] =
                           Iteration(loop[t].n + 1, r)]
             /\ Goto(t, "streaming")
             /\ UNCHANGED <<shouldAbort, call>>
    <2>1. loop[t].n + 1 \in 0..MaxTurns
      BY <1>2, TurnsAssumption DEF TypeOK, Loops
    <2>2. Iteration(loop[t].n + 1, r) \in Loops
      BY <2>1 DEF Iteration, Loops
    <2> QED  BY <1>2, <2>2 DEF TypeOK, Goto, InLoop
  <1> QED  BY <1>1, <1>2 DEF NextIteration, TypeOK

-----------------------------------------------------------------------------
(* Type correctness.  TypeOK alone is not inductive: the results of a batch are a
   prefix of its calls only because BatchProgress bounds their number. *)

\* The types and the progress of batches hold initially.
LEMMA TypeInit == Init => TypeOK /\ BatchProgress
  <1>1. NoLoop \in Loops /\ NoCall \in Calls /\ NoEntry \in Entries
    BY TurnsAssumption DEF NoLoop, Iteration, Loops, NoCall, ToolCall, Calls, NoEntry, Entries
  <1>2. <<>> \in Seq(Messages)
    OBVIOUS
  <1>3. ASSUME Init PROVE TypeOK
    BY <1>1, <1>2, <1>3 DEF Init, TypeOK, BeforeLoop
  <1>4. ASSUME Init PROVE BatchProgress
    BY <1>4 DEF Init, BatchProgress, NoLoop, Iteration
  <1> QED  BY <1>3, <1>4

\* They survive every step of a websocket handler.
LEMMA HandlerType ==
    ASSUME TypeOK, BatchProgress, NEW c \in Conns, HandlerStep(c)
    PROVE  TypeOK' /\ BatchProgress'
  <1> USE DEF TypeOK, BatchProgress
  <1>1. CASE Connect(c)
    BY <1>1 DEF Connect, sessionVars, taskVars, localVars
  <1>2. CASE UserMessage(c)
    BY <1>2 DEF UserMessage, StartTurn, Goto, BeforeLoop, localVars, Turns
  <1>3. CASE ImageMessage(c)
    BY <1>3 DEF ImageMessage, sessionVars, taskVars, localVars
  <1>4. CASE ImageResolved(c)
    BY <1>4 DEF ImageResolved, StartTurn, Goto, BeforeLoop, localVars, Turns
  <1>5. CASE Abort(c)
    BY <1>5 DEF Abort, CancelOwn, connVars, localVars
  <1>6. ASSUME NEW u \in ToolIds, NEW d \in {"approve", "deny"}, PermissionResponse(c, u, d)
        PROVE  TypeOK' /\ BatchProgress'
    <2>1. perm' \in [ToolIds -> Entries]
      BY <1>6, ZenonT(30) DEF PermissionResponse, Entries
    <2>2. call' \in [Turns -> Calls]
      BY <1>6 DEF PermissionResponse, Heard, Calls, IsAsking
    <2> QED  BY <1>6, <2>1, <2>2 DEF PermissionResponse, connVars, taskVars
  <1>7. ASSUME NEW m \in Modes, SessionConfig(c, m)
        PROVE  TypeOK' /\ BatchProgress'
    BY <1>7 DEF SessionConfig, connVars, taskVars, localVars
  <1>8. CASE Disconnect(c)
    BY <1>8 DEF Disconnect, CancelOwn, localVars
  <1>9. CASE Drained(c)
    BY <1>9 DEF Drained, taskVars, localVars
  <1>10. CASE HandlerError(c)
    BY <1>10 DEF HandlerError, CancelOwn, localVars
  <1> QED
    BY <1>1, <1>2, <1>3, <1>4, <1>5, <1>6, <1>7, <1>8, <1>9, <1>10 DEF HandlerStep

\* A batch entered, left or not begun keeps its progress.
LEMMA LeaveProgress ==
    ASSUME TypeOK, BatchProgress, NEW t \in Turns, NEW l \in {"closing", "done"}, Leave(t, l)
    PROVE  BatchProgress'
  BY DEF TypeOK, BatchProgress, Leave, Goto, NoLoop, Iteration, Loops

\* A new iteration starts with an empty batch, so no call of it is answered yet.
LEMMA NextIterationProgress ==
    ASSUME TypeOK, BatchProgress, NEW t \in Turns, NEW r \in BOOLEAN, NextIteration(t, r)
    PROVE  BatchProgress'
  <1>1. CASE Leave(t, "closing")
    BY <1>1, LeaveProgress
  <1>2. CASE /\ loop' = [loop EXCEPT ![t] = Iteration(loop[t].n + 1, r)]
             /\ Goto(t, "streaming")
    BY <1>2 DEF TypeOK, BatchProgress, Goto, Iteration, Loops
  <1> QED  BY <1>1, <1>2 DEF NextIteration

\* A result given keeps them too.
LEMMA GiveResultType ==
    ASSUME TypeOK, BatchProgress, NEW t \in Turns, GiveResult(t),
           pc[t] \in {"prompting", "asking", "running"}
    PROVE  /\ pc' \in [Turns -> BeforeLoop \cup InLoop \cup InTeam \cup AfterLoop]
           /\ loop' \in [Turns -> Loops]
           /\ call' \in [Turns -> Calls]
           /\ BatchProgress'
  <1>1. NoCall \in Calls
    BY TurnsAssumption DEF NoCall, ToolCall, Calls
  <1>2. pc' \in [Turns -> BeforeLoop \cup InLoop \cup InTeam \cup AfterLoop]
    BY DEF TypeOK, GiveResult, Goto, InLoop
  <1>4. loop' \in [Turns -> Loops]
    <2>1. loop[t].answered + 1 \in Nat /\ loop[t] \in Loops
      BY DEF TypeOK, Loops
    <2>2. [loop[t] EXCEPT !.answered = loop[t].answered + 1] \in Loops
      BY <2>1 DEF Loops
    <2> QED  BY <2>2 DEF TypeOK, GiveResult
  <1>5. call' \in [Turns -> Calls]
    BY <1>1 DEF TypeOK, GiveResult
  <1>3. BatchProgress'
    BY DEF TypeOK, BatchProgress, GiveResult, Goto, Loops
  <1> QED  BY <1>2, <1>3, <1>4, <1>5

\* The decision taken when the wait for an answer is over.
LEMMA DecideType ==
    ASSUME TypeOK, BatchProgress, NEW t \in Turns, Decide(t), pc[t] = "asking"
    PROVE  /\ perm' \in [ToolIds -> Entries]
           /\ pc' \in [Turns -> BeforeLoop \cup InLoop \cup InTeam \cup AfterLoop]
           /\ loop' \in [Turns -> Loops]
           /\ call' \in [Turns -> Calls]
           /\ BatchProgress'
  <1>1. NoEntry \in Entries
    BY DEF NoEntry, Entries
  <1>2. perm' \in [ToolIds -> Entries]
    BY <1>1 DEF TypeOK, Decide
  <1>3. CASE GiveResult(t)
    BY <1>2, <1>3, GiveResultType
  <1>4. CASE Goto(t, "running") /\ UNCHANGED localVars
    BY <1>2, <1>4 DEF TypeOK, BatchProgress, Goto, InLoop, localVars
  <1> QED  BY <1>3, <1>4 DEF Decide

\* A message of the turn joins the history.
LEMMA AppendType ==
    ASSUME TypeOK, NEW t \in Turns,
           NEW k \in {"user", "nudge", "assistant", "tools", "results"},
           NEW ids \in Seq(ToolIds), history' = Append(history, Message(k, t, ids))
    PROVE  history' \in Seq(Messages)
  BY DEF TypeOK, Message, Messages

\* No calls at all is a sequence of calls.
LEMMA EmptyIds == <<>> \in Seq(ToolIds)
  OBVIOUS

\* The next tool call of a batch is one of its ids.
LEMMA CallToolType ==
    ASSUME TypeOK, BatchProgress, NEW t \in Turns, CallTool(t)
    PROVE  TypeOK' /\ BatchProgress'
  <1> DEFINE u == loop[t].uses[loop[t].answered + 1]
  <1>1. /\ loop[t].uses \in Seq(ToolIds)
        /\ loop[t].answered \in Nat
        /\ loop[t].answered < Len(loop[t].uses)
        /\ pc[t] = "calling"
    BY DEF TypeOK, Loops, CallTool, At
  <1>2. u \in ToolIds
    BY <1>1
  <1>3. CASE CallDenied(t)
    <2>1. loop[t].answered + 1 \in Nat /\ loop[t] \in Loops
      BY <1>1 DEF TypeOK
    <2>4. [loop[t] EXCEPT !.answered = loop[t].answered + 1] \in Loops
      BY <2>1 DEF Loops
    <2>2. loop' \in [Turns -> Loops]
      BY <1>3, <2>4 DEF TypeOK, CallDenied
    <2>3. BatchProgress'
      BY <1>1, <1>3 DEF TypeOK, Loops, BatchProgress, CallDenied
    <2> QED
      BY <1>3, <2>2, <2>3 DEF TypeOK, CallTool, CallDenied, connVars
  <1>4. CASE CallAllowed(t, u)
    <2>1. call' \in [Turns -> Calls]
      BY <1>2, <1>4 DEF TypeOK, CallAllowed, ToolCall, Calls
    <2>2. BatchProgress'
      BY <1>1, <1>4 DEF TypeOK, Loops, BatchProgress, CallAllowed, Goto
    <2> QED
      BY <1>4, <2>1, <2>2 DEF TypeOK, CallTool, CallAllowed, Goto, InLoop, connVars
  <1>5. CASE CallAsked(t, u)
    <2>1. call' \in [Turns -> Calls]
      BY <1>2, <1>5 DEF TypeOK, CallAsked, ToolCall, Calls
    <2>2. perm' \in [ToolIds -> Entries]
      BY <1>5 DEF TypeOK, CallAsked, Entries
    <2>3. BatchProgress'
      BY <1>1, <1>5 DEF TypeOK, Loops, BatchProgress, CallAsked, Goto
    <2> QED
      BY <1>5, <2>1, <2>2, <2>3 DEF TypeOK, CallTool, CallAsked, Goto, InLoop, connVars
  <1> QED  BY <1>3, <1>4, <1>5 DEF CallTool

\* The types survive every step of a turn.
LEMMA TurnType ==
    ASSUME TypeOK, BatchProgress, NEW t \in Turns, TurnStep(t)
    PROVE  TypeOK' /\ BatchProgress'
  <1>1. CASE Begin(t)
    BY <1>1 DEF TypeOK, BatchProgress, Begin, Goto, BeforeLoop, connVars, localVars
  <1>2. CASE KeyMissing(t)
    BY <1>2 DEF TypeOK, BatchProgress, KeyMissing, Goto, AfterLoop, connVars, localVars
  <1>3. CASE AcceptMessage(t)
    <2>1. history' \in Seq(Messages)
      BY <1>3, AppendType, EmptyIds DEF AcceptMessage
    <2> QED
      BY <1>3, <2>1 DEF TypeOK, BatchProgress, AcceptMessage, Goto, BeforeLoop, connVars, localVars
  <1>4. CASE RouteToTeam(t)
    BY <1>4 DEF TypeOK, BatchProgress, RouteToTeam, Goto, InTeam, connVars, localVars
  <1>5. CASE EnterTeam(t)
    BY <1>5 DEF TypeOK, BatchProgress, EnterTeam, Goto, InTeam, sessionVars, connVars, localVars
  <1>6. CASE TeamEnds(t)
    <2>1. history' \in Seq(Messages)
      BY <1>6, AppendType, EmptyIds DEF TeamEnds, TypeOK
    <2> QED
      BY <1>6, <2>1 DEF TypeOK, BatchProgress, TeamEnds, Goto, AfterLoop, connVars, localVars
  <1>7. CASE EnterLoop(t)
    BY <1>7, NextIterationType, NextIterationProgress DEF EnterLoop, TypeOK, connVars
  <1>8. CASE StreamAborted(t)
    BY <1>8, LeaveType, LeaveProgress DEF StreamAborted, TypeOK, connVars
  <1>9. CASE StreamEmpty(t)
    <2>1. history' \in Seq(Messages)
      BY <1>9, AppendType, EmptyIds DEF StreamEmpty, TypeOK
    <2>2. CASE Leave(t, "closing") /\ UNCHANGED shouldAbort
      BY <1>9, <2>1, <2>2, LeaveType, LeaveProgress DEF StreamEmpty, TypeOK, connVars
    <2>3. CASE NextIteration(t, TRUE)
      BY <1>9, <2>1, <2>3, NextIterationType, NextIterationProgress
      DEF StreamEmpty, TypeOK, connVars
    <2> QED  BY <1>9, <2>2, <2>3 DEF StreamEmpty
  <1>10. CASE StreamAnswer(t)
    <2>1. history' \in Seq(Messages)
      BY <1>10, AppendType, EmptyIds DEF StreamAnswer
    <2> QED
      BY <1>10, <2>1, LeaveType, LeaveProgress DEF StreamAnswer, TypeOK, connVars
  <1>11. ASSUME NEW b \in Batches, StreamTools(t, b)
         PROVE  TypeOK' /\ BatchProgress'
    <2>1. b \in Seq(ToolIds)
      BY BatchType
    <2>2. history' \in Seq(Messages)
      BY <1>11, <2>1, AppendType DEF StreamTools
    <2>3. /\ [loop[t] EXCEPT !.uses = b] \in Loops
          /\ pc[t] = "streaming"
      BY <1>11, <2>1 DEF StreamTools, At, TypeOK, Loops
    <2>4. loop' \in [Turns -> Loops]
      BY <1>11, <2>3 DEF StreamTools, TypeOK
    <2>5. BatchProgress'
      BY <1>11, <2>1, <2>3 DEF StreamTools, TypeOK, Loops, BatchProgress, Goto
    <2> QED
      BY <1>11, <2>2, <2>4, <2>5 DEF StreamTools, TypeOK, Goto, InLoop, connVars
  <1>12. CASE BatchEnds(t)
    <2>1. /\ loop[t].uses \in Seq(ToolIds)
          /\ loop[t].answered \in Nat
          /\ loop[t].answered <= Len(loop[t].uses)
          /\ loop[t].retried \in BOOLEAN
      BY DEF TypeOK, Loops, BatchProgress
    <2>2. SubSeq(loop[t].uses, 1, loop[t].answered) \in Seq(ToolIds)
      BY <2>1
    <2>3. history' \in Seq(Messages)
      BY <1>12, <2>2, AppendType DEF BatchEnds
    <2> QED
      BY <1>12, <2>1, <2>3, NextIterationType, NextIterationProgress
      DEF BatchEnds, TypeOK, connVars
  <1>13. CASE CallTool(t)
    BY <1>13, CallToolType
  <1>14. CASE Prompted(t)
    BY <1>14
    DEF TypeOK, BatchProgress, Prompted, At, Goto, InLoop, sessionVars, connVars, localVars
  <1>15. CASE Answered(t)
    BY <1>15, DecideType DEF TypeOK, Answered, At, connVars
  <1>16. CASE AskTimesOut(t)
    <2>1. perm' \in [ToolIds -> Entries]
      BY <1>16 DEF AskTimesOut, TypeOK, NoEntry, Entries
    <2> QED
      BY <1>16, <2>1, GiveResultType DEF TypeOK, AskTimesOut, At, connVars
  <1>17. CASE ToolDone(t)
    BY <1>17, GiveResultType DEF TypeOK, ToolDone, At, sessionVars, connVars
  <1>18. CASE TurnFails(t)
    BY <1>18, LeaveType, LeaveProgress DEF TypeOK, TurnFails, sessionVars, connVars
  <1>19. CASE Finally(t)
    BY <1>19 DEF TypeOK, BatchProgress, Finally, Goto, AfterLoop, connVars, localVars
  <1>20. CASE End(t)
    BY <1>20 DEF TypeOK, BatchProgress, End, Goto, AfterLoop, sessionVars, connVars, localVars
  <1>21. CASE CancelDropped(t)
    BY <1>21, DecideType DEF TypeOK, CancelDropped, connVars
  <1>22. CASE CancelDelivered(t)
    BY <1>22, LeaveType, LeaveProgress DEF TypeOK, CancelDelivered, connVars
  <1> QED
    BY <1>1, <1>2, <1>3, <1>4, <1>5, <1>6, <1>7, <1>8, <1>9, <1>10, <1>11, <1>12, <1>13,
       <1>14, <1>15, <1>16, <1>17, <1>18, <1>19, <1>20, <1>21, <1>22
    DEF TurnStep

\* So they survive every step.
LEMMA TypeStep ==
    ASSUME TypeOK, BatchProgress, [Next]_vars
    PROVE  TypeOK' /\ BatchProgress'
  <1>1. ASSUME NEW t \in RestTurns, RestTurn(t)
        PROVE  TypeOK' /\ BatchProgress'
    BY <1>1 DEF TypeOK, BatchProgress, RestTurn, Goto, BeforeLoop, Turns,
                sessionVars, connVars, localVars
  <1>2. CASE UNCHANGED vars
    BY <1>2 DEF TypeOK, BatchProgress, vars, sessionVars, connVars, taskVars, localVars
  <1> QED
    BY <1>1, <1>2, HandlerType, TurnType DEF Next

\* Every variable keeps its type, whatever the numbers of connections, turns and calls.
THEOREM TypeCorrect == Spec => [](TypeOK /\ BatchProgress)
  BY TypeInit, TypeStep, PTL DEF Spec

-----------------------------------------------------------------------------
(* The permission gate.  DecisionFresh ties the decision stored under a tool_use id to
   the call being asked about: the registration of a call forgets the decision of every
   earlier one, and a response changes the stored decision and the ghost together. *)

PermissionInv == TypeOK /\ BatchProgress /\ DecisionFresh /\ PermissionRespected

\* A step that leaves the entries and the calls alone and puts no turn at a tool call.
LEMMA PermissionFrame ==
    ASSUME DecisionFresh, PermissionRespected, UNCHANGED <<perm, call>>,
           \A t \in Turns : pc'[t] \in {"prompting", "asking", "running"} => pc'[t] = pc[t]
    PROVE  DecisionFresh' /\ PermissionRespected'
  BY DEF DecisionFresh, PermissionRespected, IsAsking

\* A step of turn t that leaves it between tool calls or outside the loop.
LEMMA PermissionExit ==
    ASSUME TypeOK, DecisionFresh, PermissionRespected, NEW t \in Turns,
           pc'[t] \notin {"prompting", "asking", "running"},
           \A s \in Turns \ {t} : pc'[s] = pc[s] /\ call'[s] = call[s],
           perm' = perm \/ \E u : perm' = [perm EXCEPT ![u] = NoEntry]
    PROVE  DecisionFresh' /\ PermissionRespected'
  <1>1. \A u \in ToolIds : perm'[u].decision = "approve" => perm'[u] = perm[u]
    BY DEF TypeOK, NoEntry
  <1>2. DecisionFresh'
    BY <1>1 DEF DecisionFresh, IsAsking
  <1>3. PermissionRespected'
    BY DEF PermissionRespected
  <1> QED  BY <1>2, <1>3

\* A handler's answer to a permission prompt lets only the tool run that was asked about.
LEMMA HandlerPermission ==
    ASSUME PermissionInv, NEW c \in Conns, HandlerStep(c)
    PROVE  DecisionFresh' /\ PermissionRespected'
  <1>1. ASSUME NEW u \in ToolIds, NEW d \in {"approve", "deny"}, PermissionResponse(c, u, d)
        PROVE  DecisionFresh' /\ PermissionRespected'
    <2>1. ASSUME NEW t \in Turns
          PROVE  /\ call'[t].id = call[t].id
                 /\ call'[t].verdict = call[t].verdict
                 /\ call[t].answers \subseteq call'[t].answers
                 /\ IsAsking(t) /\ call[t].id = u => d \in call'[t].answers
                 /\ pc'[t] = pc[t]
      BY <1>1 DEF PermissionResponse, Heard, taskVars
    <2>2. \A v \in ToolIds : perm'[v].decision = "approve" =>
              perm[v].decision = "approve" \/ (v = u /\ d = "approve")
      BY <1>1 DEF PermissionInv, TypeOK, Entries, PermissionResponse
    <2>3. DecisionFresh'
      BY <2>1, <2>2 DEF PermissionInv, DecisionFresh, IsAsking
    <2>4. PermissionRespected'
      BY <2>1 DEF PermissionInv, PermissionRespected
    <2> QED  BY <2>3, <2>4
  <1>2. ASSUME UNCHANGED <<perm, call>>,
               UNCHANGED pc \/ \E t \in WsTurns : Goto(t, "created")
        PROVE  DecisionFresh' /\ PermissionRespected'
    <2>1. \A t \in Turns : pc'[t] \in {"prompting", "asking", "running"} => pc'[t] = pc[t]
      BY <1>2 DEF PermissionInv, TypeOK, Goto, Turns
    <2> QED  BY <1>2, <2>1, PermissionFrame DEF PermissionInv
  <1> QED
    BY <1>1, <1>2
    DEF HandlerStep, Connect, UserMessage, ImageMessage, ImageResolved, StartTurn, Abort,
        SessionConfig, Disconnect, Drained, HandlerError, sessionVars, taskVars, localVars

\* A turn that goes on to its next iteration runs no tool.
LEMMA NextIterationPermission ==
    ASSUME PermissionInv, NEW t \in Turns, NEW r \in BOOLEAN, NextIteration(t, r), perm' = perm
    PROVE  DecisionFresh' /\ PermissionRespected'
  <1>1. /\ pc'[t] \notin {"prompting", "asking", "running"}
        /\ \A s \in Turns \ {t} : pc'[s] = pc[s] /\ call'[s] = call[s]
    BY DEF PermissionInv, TypeOK, NextIteration, Leave, Goto
  <1> QED  BY <1>1, PermissionExit DEF PermissionInv

\* A prompted call runs only if the decision it reads was given to this prompt.
LEMMA DecidePermission ==
    ASSUME PermissionInv, NEW t \in Turns, Decide(t), pc[t] = "asking"
    PROVE  DecisionFresh' /\ PermissionRespected'
  <1>1. CASE GiveResult(t)
    <2>1. /\ pc'[t] \notin {"prompting", "asking", "running"}
          /\ \A s \in Turns \ {t} : pc'[s] = pc[s] /\ call'[s] = call[s]
      BY <1>1 DEF PermissionInv, TypeOK, GiveResult, Goto
    <2> QED  BY <2>1, PermissionExit DEF PermissionInv, Decide
  <1>2. CASE /\ perm[call[t].id].decision = "approve"
             /\ Goto(t, "running")
             /\ UNCHANGED localVars
    <2>1. /\ call[t].verdict = "ask" /\ "approve" \in call[t].answers
      BY <1>2 DEF PermissionInv, DecisionFresh, IsAsking
    <2>2. \A s \in Turns \ {t} : pc'[s] = pc[s]
      BY <1>2 DEF Goto, PermissionInv, TypeOK
    <2>3. \A u \in ToolIds : perm'[u].decision = "approve" => perm'[u] = perm[u]
      BY DEF PermissionInv, TypeOK, NoEntry, Decide
    <2>4. pc'[t] = "running" /\ call' = call
      BY <1>2 DEF Goto, PermissionInv, TypeOK, localVars
    <2>5. DecisionFresh'
      BY <2>2, <2>3, <2>4 DEF PermissionInv, DecisionFresh, IsAsking
    <2>6. PermissionRespected'
      BY <2>1, <2>2, <2>4 DEF PermissionInv, PermissionRespected
    <2> QED  BY <2>5, <2>6
  <1> QED  BY <1>1, <1>2 DEF Decide

\* A call runs unasked only if the rules allow it.
LEMMA CallToolPermission ==
    ASSUME PermissionInv, NEW t \in Turns, CallTool(t)
    PROVE  DecisionFresh' /\ PermissionRespected'
  <1> DEFINE u == loop[t].uses[loop[t].answered + 1]
  <1>1. u \in ToolIds
    BY DEF PermissionInv, TypeOK, Loops, CallTool
  <1>2. CASE CallDenied(t)
    BY <1>2, PermissionFrame DEF PermissionInv, CallDenied
  <1>3. CASE CallAllowed(t, u)
    <2>1. /\ pc'[t] = "running" /\ call'[t].verdict = "allow"
          /\ \A s \in Turns \ {t} : pc'[s] = pc[s] /\ call'[s] = call[s]
          /\ perm' = perm
      BY <1>3 DEF PermissionInv, TypeOK, CallAllowed, Goto, ToolCall
    <2> QED  BY <2>1 DEF PermissionInv, DecisionFresh, PermissionRespected, IsAsking
  <1>4. CASE CallAsked(t, u)
    <2>1. /\ pc'[t] = "prompting" /\ call'[t].verdict = "ask" /\ call'[t].id = u
          /\ \A s \in Turns \ {t} : pc'[s] = pc[s] /\ call'[s] = call[s]
      BY <1>4 DEF PermissionInv, TypeOK, CallAsked, Goto, ToolCall
    <2>2. /\ perm'[u].decision = "none"
          /\ \A v \in ToolIds \ {u} : perm'[v] = perm[v]
      BY <1>1, <1>4 DEF PermissionInv, TypeOK, CallAsked
    <2> QED
      BY <1>1, <2>1, <2>2 DEF PermissionInv, DecisionFresh, PermissionRespected, IsAsking
  <1> QED  BY <1>2, <1>3, <1>4 DEF CallTool

\* No step of a turn makes an unpermitted tool run.
LEMMA TurnPermission ==
    ASSUME PermissionInv, NEW t \in Turns, TurnStep(t)
    PROVE  DecisionFresh' /\ PermissionRespected'
  <1>1. ASSUME NEW l, Goto(t, l), l \notin {"prompting", "asking", "running"}, perm' = perm,
               call' = call \/ call' = [call EXCEPT ![t] = NoCall]
        PROVE  DecisionFresh' /\ PermissionRespected'
    <2>1. /\ pc'[t] \notin {"prompting", "asking", "running"}
          /\ \A s \in Turns \ {t} : pc'[s] = pc[s] /\ call'[s] = call[s]
      BY <1>1 DEF PermissionInv, TypeOK, Goto
    <2> QED  BY <1>1, <2>1, PermissionExit DEF PermissionInv
  <1>2. CASE \/ Begin(t) \/ KeyMissing(t) \/ AcceptMessage(t) \/ RouteToTeam(t)
             \/ EnterTeam(t) \/ TeamEnds(t) \/ Finally(t) \/ End(t)
    BY <1>1, <1>2 DEF Begin, KeyMissing, AcceptMessage, RouteToTeam, EnterTeam, TeamEnds,
                      Finally, End, sessionVars, localVars
  <1>3. CASE \/ StreamAborted(t) \/ StreamAnswer(t) \/ TurnFails(t) \/ CancelDelivered(t)
    BY <1>1, <1>3 DEF StreamAborted, StreamAnswer, TurnFails, CancelDelivered, Leave, sessionVars
  <1>4. CASE EnterLoop(t) \/ StreamEmpty(t) \/ BatchEnds(t)
    <2>1. loop[t].retried \in BOOLEAN /\ perm' = perm
      BY <1>4 DEF PermissionInv, TypeOK, Loops, EnterLoop, StreamEmpty, BatchEnds
    <2>2. CASE \E r \in BOOLEAN : NextIteration(t, r)
      BY <2>1, <2>2, NextIterationPermission
    <2>3. CASE Leave(t, "closing")
      BY <1>1, <2>1, <2>3 DEF Leave
    <2> QED  BY <1>4, <2>1, <2>2, <2>3 DEF EnterLoop, StreamEmpty, BatchEnds
  <1>5. ASSUME NEW b \in Batches, StreamTools(t, b)
        PROVE  DecisionFresh' /\ PermissionRespected'
    BY <1>1, <1>5 DEF StreamTools
  <1>6. CASE CallTool(t)
    BY <1>6, CallToolPermission
  <1>7. CASE Prompted(t)
    <2>1. /\ pc[t] = "prompting" /\ pc'[t] = "asking"
          /\ \A s \in Turns \ {t} : pc'[s] = pc[s]
          /\ UNCHANGED <<perm, call>>
      BY <1>7 DEF PermissionInv, TypeOK, Prompted, At, Goto, sessionVars, localVars
    <2> QED  BY <2>1 DEF PermissionInv, DecisionFresh, PermissionRespected, IsAsking
  <1>8. CASE Answered(t) \/ CancelDropped(t)
    BY <1>8, DecidePermission DEF Answered, CancelDropped, At
  <1>9. CASE AskTimesOut(t) \/ ToolDone(t)
    <2>1. /\ pc'[t] \notin {"prompting", "asking", "running"}
          /\ \A s \in Turns \ {t} : pc'[s] = pc[s] /\ call'[s] = call[s]
          /\ perm' = perm \/ \E u : perm' = [perm EXCEPT ![u] = NoEntry]
      BY <1>9 DEF PermissionInv, TypeOK, AskTimesOut, ToolDone, GiveResult, Goto, sessionVars
    <2> QED  BY <2>1, PermissionExit DEF PermissionInv
  <1> QED
    BY <1>2, <1>3, <1>4, <1>5, <1>6, <1>7, <1>8, <1>9 DEF TurnStep

\* No tool ever runs without the rules or the user allowing that very call, however calls,
\* answers, timeouts, aborts, reused ids and concurrent turns interleave.
THEOREM PermissionSafe == Spec => []PermissionRespected
  <1>1. Init => PermissionInv
    BY TypeInit DEF Init, PermissionInv, DecisionFresh, PermissionRespected, IsAsking
  <1>2. PermissionInv /\ [Next]_vars => PermissionInv'
    <2> SUFFICES ASSUME PermissionInv, [Next]_vars PROVE PermissionInv'
      OBVIOUS
    <2>1. TypeOK' /\ BatchProgress'
      BY TypeStep DEF PermissionInv
    <2>2. ASSUME NEW t \in RestTurns, RestTurn(t)
          PROVE  DecisionFresh' /\ PermissionRespected'
      <3>1. /\ UNCHANGED <<perm, call>>
            /\ \A s \in Turns :
                 pc'[s] \in {"prompting", "asking", "running"} => pc'[s] = pc[s]
        BY <2>2 DEF PermissionInv, TypeOK, RestTurn, Goto, sessionVars, localVars
      <3> QED  BY <3>1, PermissionFrame DEF PermissionInv
    <2>3. ASSUME UNCHANGED vars
          PROVE  DecisionFresh' /\ PermissionRespected'
      BY <2>3, PermissionFrame
      DEF PermissionInv, vars, sessionVars, taskVars, localVars
    <2>4. DecisionFresh' /\ PermissionRespected'
      BY <2>2, <2>3, HandlerPermission, TurnPermission DEF Next
    <2> QED  BY <2>1, <2>4 DEF PermissionInv
  <1>3. PermissionInv => PermissionRespected
    BY DEF PermissionInv
  <1> QED  BY <1>1, <1>2, <1>3, PTL DEF Spec

-----------------------------------------------------------------------------
(* Who owns a busy session, and who owns a turn. *)

OwnershipInv == TypeOK /\ BatchProgress /\ CancelledAlive /\ HandlersOwn /\ BusyHasOwner

\* What a step of turn t does to the tasks and to the status.
LEMMA TurnEffect ==
    ASSUME OwnershipInv, NEW t \in Turns, TurnStep(t)
    PROVE  /\ Alive(t)
           /\ UNCHANGED connVars
           /\ \A s \in Turns \ {t} : pc'[s] = pc[s] /\ cancelled'[s] = cancelled[s]
           /\ pc'[t] # "none"
           /\ cancelled'[t] => cancelled[t] /\ Alive(t)'
           /\ Active(t) => ~cancelled'[t]
           /\ status' = "busy" => status = "busy" \/ Working(t)'
           /\ Working(t) /\ ~Working(t)' => status' = "idle"
           /\ Active(t)' => Active(t) \/ WaitForKeeps
  <1> USE DEF OwnershipInv, TypeOK, Alive, Active, Working, Goto, Leave, At
  <1>1. CASE \/ Begin(t) \/ KeyMissing(t) \/ AcceptMessage(t) \/ RouteToTeam(t)
             \/ EnterTeam(t) \/ TeamEnds(t) \/ Finally(t) \/ End(t)
    BY <1>1 DEF Begin, KeyMissing, AcceptMessage, RouteToTeam, EnterTeam, TeamEnds,
                Finally, End, sessionVars, connVars
  <1>2. CASE \/ EnterLoop(t) \/ StreamAborted(t) \/ StreamEmpty(t) \/ StreamAnswer(t)
             \/ BatchEnds(t)
    BY <1>2 DEF EnterLoop, StreamAborted, StreamEmpty, StreamAnswer, BatchEnds,
                NextIteration, connVars
  <1>3. CASE \E b \in Batches : StreamTools(t, b)
    BY <1>3 DEF StreamTools, connVars
  <1>4. CASE CallTool(t) \/ Prompted(t) \/ Answered(t) \/ AskTimesOut(t) \/ ToolDone(t)
    BY <1>4 DEF CallTool, CallDenied, CallAllowed, CallAsked, Prompted, Answered,
                AskTimesOut, ToolDone, Decide, GiveResult, sessionVars, connVars
  <1>5. CASE TurnFails(t)
    BY <1>5 DEF TurnFails, InLoop, sessionVars, connVars
  <1>6. CASE CancelDropped(t)
    BY <1>6 DEF CancelDropped, Decide, GiveResult, connVars
  <1>7. CASE CancelDelivered(t)
    BY <1>7 DEF CancelDelivered, connVars
  <1> QED  BY <1>1, <1>2, <1>3, <1>4, <1>5, <1>6, <1>7 DEF TurnStep

\* A turn that ends leaves the session idle or to another owner.
LEMMA TurnOwnership ==
    ASSUME OwnershipInv, NEW t \in Turns, TurnStep(t)
    PROVE  CancelledAlive' /\ HandlersOwn' /\ BusyHasOwner'
  <1> USE TurnEffect, TurnsAssumption
  <1>1. CancelledAlive'
    BY DEF OwnershipInv, CancelledAlive, Alive
  <1>2. HandlersOwn'
    BY DEF OwnershipInv, TypeOK, HandlersOwn, OwnTurnRuns, Alive, connVars, Turns
  <1>3. BusyHasOwner'
    BY DEF OwnershipInv, TypeOK, BusyHasOwner, Working, Active, Alive, connVars
  <1> QED  BY <1>1, <1>2, <1>3

\* A handler that starts a turn.
LEMMA StartOwnership ==
    ASSUME OwnershipInv, NEW c \in Conns, StartTurn(c), cancelled' = cancelled,
           conn'[c] = "open", \A d \in Conns \ {c} : conn'[d] = conn[d]
    PROVE  CancelledAlive' /\ HandlersOwn' /\ BusyHasOwner'
  <1> USE DEF OwnershipInv, TypeOK
  <1>1. PICK t \in WsTurns : /\ pc[t] = "none"
                             /\ owned' = [owned EXCEPT ![c] = t]
                             /\ Goto(t, "created")
    BY DEF StartTurn
  <1>2. /\ pc'[t] = "created"
        /\ \A s \in Turns \ {t} : pc'[s] = pc[s]
        /\ t \in Turns
        /\ ~cancelled'[t]
    BY <1>1 DEF Goto, Turns, CancelledAlive, Alive
  <1>3. CancelledAlive'
    BY <1>2 DEF CancelledAlive, Alive
  <1>4. HandlersOwn'
    <2>1. /\ owned'[c] = t
          /\ \A d \in Conns \ {c} : owned'[d] = owned[d] /\ owned[d] # t
      BY <1>1, TurnsAssumption DEF HandlersOwn, Turns
    <2> QED
      BY <1>2, <2>1 DEF HandlersOwn, OwnTurnRuns, Alive, Turns
  <1>5. BusyHasOwner'
    BY <1>2 DEF BusyHasOwner, Working, Active, Alive
  <1> QED  BY <1>3, <1>4, <1>5

\* A handler that cancels its turn: the others keep their cancellations.
LEMMA CancelOwnEffect ==
    ASSUME OwnershipInv, NEW c \in Conns, CancelOwn(c), pc' = pc
    PROVE  /\ CancelledAlive'
           /\ \A s \in Turns : cancelled'[s] => cancelled[s] \/ s = owned[c]
           /\ OwnTurnRuns(c) => cancelled'[owned[c]]
           /\ \A s \in Turns : Active(s)' => Active(s)
  BY TurnsAssumption
  DEF OwnershipInv, TypeOK, CancelOwn, CancelledAlive, OwnTurnRuns, Alive, Active, Turns

\* So does a handler that starts, cancels or abandons a turn.
LEMMA HandlerOwnership ==
    ASSUME OwnershipInv, NEW c \in Conns, HandlerStep(c)
    PROVE  CancelledAlive' /\ HandlersOwn' /\ BusyHasOwner'
  <1>1. CASE UserMessage(c)
    BY <1>1, StartOwnership DEF UserMessage, OwnershipInv, TypeOK
  <1>2. CASE ImageResolved(c) /\ StartTurn(c)
    BY <1>2, StartOwnership DEF ImageResolved, OwnershipInv, TypeOK
  <1>3. CASE \/ Connect(c) \/ ImageMessage(c)
             \/ (ImageResolved(c) /\ UNCHANGED <<status, owned, pc>>)
             \/ (\E u \in ToolIds, d \in {"approve", "deny"} : PermissionResponse(c, u, d))
             \/ (\E m \in Modes : SessionConfig(c, m))
    <2>1. /\ UNCHANGED <<status, pc, cancelled>>
          /\ \A d \in Conns \ {c} : conn'[d] = conn[d] /\ owned'[d] = owned[d]
          /\ owned'[c] \in {owned[c], NoTurn}
          /\ conn[c] = "draining" => conn'[c] = "draining"
          /\ conn'[c] = "imaging" => conn[c] = "imaging" \/ ~OwnTurnRuns(c)
      BY <1>3 DEF OwnershipInv, TypeOK, Connect, ImageMessage, MayStartTurn, ImageResolved,
                  PermissionResponse, SessionConfig, sessionVars, connVars, taskVars
    <2>2. CancelledAlive'
      BY <2>1 DEF OwnershipInv, CancelledAlive, Alive
    <2>3. HandlersOwn'
      BY <2>1 DEF OwnershipInv, HandlersOwn, OwnTurnRuns, Alive
    <2>4. BusyHasOwner'
      BY <2>1 DEF OwnershipInv, BusyHasOwner, Working, Active, Alive
    <2> QED  BY <2>2, <2>3, <2>4
  <1>4. CASE Abort(c) \/ Disconnect(c) \/ HandlerError(c)
    <2>1. /\ CancelOwn(c)
          /\ UNCHANGED <<pc, owned>>
          /\ status' = "idle" \/ conn'[c] = "draining"
          /\ \A d \in Conns : conn'[d] = "imaging" => conn[d] = "imaging"
      BY <1>4 DEF OwnershipInv, TypeOK, Abort, Disconnect, HandlerError, connVars
    <2>2. CancelledAlive'
      BY <2>1, CancelOwnEffect
    <2>3. HandlersOwn'
      BY <2>1 DEF OwnershipInv, HandlersOwn, OwnTurnRuns, Alive
    <2>4. BusyHasOwner'
      BY <2>1 DEF BusyHasOwner
    <2> QED  BY <2>2, <2>3, <2>4
  <1>5. CASE Drained(c)
    <2>1. /\ UNCHANGED <<pc, cancelled, owned>>
          /\ status' = "idle"
          /\ \A d \in Conns : conn'[d] = "imaging" => conn[d] = "imaging"
      BY <1>5 DEF OwnershipInv, TypeOK, Drained, taskVars
    <2>2. CancelledAlive' /\ HandlersOwn'
      BY <2>1 DEF OwnershipInv, CancelledAlive, HandlersOwn, OwnTurnRuns, Alive
    <2>3. BusyHasOwner'
      BY <2>1 DEF BusyHasOwner
    <2> QED  BY <2>2, <2>3
  <1>6. ImageResolved(c) => StartTurn(c) \/ UNCHANGED <<status, owned, pc>>
    BY DEF ImageResolved
  <1> QED
    BY <1>1, <1>2, <1>3, <1>4, <1>5, <1>6 DEF HandlerStep

\* Nobody owns the idle session of the initial state.
LEMMA OwnershipInit == Init => OwnershipInv
  BY TypeInit DEF Init, OwnershipInv, CancelledAlive, HandlersOwn, BusyHasOwner, OwnTurnRuns

\* A busy session keeps an owner over every step.
LEMMA OwnershipStep ==
    ASSUME OwnershipInv, [Next]_vars
    PROVE  OwnershipInv'
  <1>1. TypeOK' /\ BatchProgress'
    BY TypeStep DEF OwnershipInv
  <1>2. ASSUME NEW t \in RestTurns, RestTurn(t)
        PROVE  CancelledAlive' /\ HandlersOwn' /\ BusyHasOwner'
    <2>1. /\ pc[t] = "none" /\ pc'[t] = "created"
          /\ \A s \in Turns \ {t} : pc'[s] = pc[s]
          /\ UNCHANGED <<status, cancelled, conn, owned>>
          /\ t \in Turns /\ t \notin WsTurns
      BY <1>2, TurnsAssumption
      DEF OwnershipInv, TypeOK, RestTurn, Goto, Turns, sessionVars, connVars
    <2>2. CancelledAlive'
      BY <2>1 DEF OwnershipInv, CancelledAlive, Alive
    <2>3. HandlersOwn'
      BY <2>1, TurnsAssumption DEF OwnershipInv, TypeOK, HandlersOwn, OwnTurnRuns, Alive, Turns
    <2>4. BusyHasOwner'
      BY <2>1 DEF OwnershipInv, BusyHasOwner, Working, Active, Alive
    <2> QED  BY <2>2, <2>3, <2>4
  <1>3. ASSUME UNCHANGED vars
        PROVE  CancelledAlive' /\ HandlersOwn' /\ BusyHasOwner'
    BY <1>3 DEF OwnershipInv, CancelledAlive, HandlersOwn, BusyHasOwner, OwnTurnRuns, Working,
                Active, Alive, vars, sessionVars, connVars, taskVars
  <1> QED
    BY <1>1, <1>2, <1>3, HandlerOwnership, TurnOwnership DEF Next, OwnershipInv

\* A busy session always has a turn or a handler that will make it idle.
THEOREM BusyOwned == Spec => []BusyHasOwner
  <1>1. OwnershipInv => BusyHasOwner
    BY DEF OwnershipInv
  <1> QED  BY <1>1, OwnershipInit, OwnershipStep, PTL DEF Spec


-----------------------------------------------------------------------------
(* No orphans.  Here the cancellation of a task must take effect, as it does from
   Python 3.12 on: one that wait_for drops leaves a turn running without a handler. *)

OrphanInv == OwnershipInv /\ NoOrphanTurn

\* A handler leaves only with its turn cancelled or over.
LEMMA HandlerOrphan ==
    ASSUME OrphanInv, NEW c \in Conns, HandlerStep(c)
    PROVE  NoOrphanTurn'
  <1>1. CASE StartTurn(c) /\ conn'[c] = "open" /\ cancelled' = cancelled
             /\ (\A d \in Conns \ {c} : conn'[d] = conn[d])
             /\ (conn[c] = "open" => ~OwnTurnRuns(c))
    <2>1. PICK t \in WsTurns : /\ pc[t] = "none"
                               /\ owned' = [owned EXCEPT ![c] = t]
                               /\ Goto(t, "created")
      BY <1>1 DEF StartTurn
    <2>2. /\ owned'[c] = t
          /\ \A d \in Conns \ {c} : owned'[d] = owned[d]
          /\ \A s \in Turns \ {t} : Active(s)' => Active(s)
      BY <1>1, <2>1 DEF OrphanInv, OwnershipInv, TypeOK, Goto, Active, Alive, Turns
    <2>3. ASSUME NEW s \in WsTurns \ {t}, Active(s)
          PROVE  \E d \in Conns \ {c} : conn[d] = "open" /\ owned[d] = s
      <3>1. PICK d \in Conns : conn[d] = "open" /\ owned[d] = s
        BY <2>3 DEF OrphanInv, NoOrphanTurn
      <3>2. d # c
        BY <1>1, <2>3, <3>1, TurnsAssumption DEF OwnTurnRuns, Active, Turns
      <3> QED  BY <3>1, <3>2
    <2> QED
      BY <1>1, <2>2, <2>3 DEF NoOrphanTurn, Turns
  <1>2. CASE Connect(c) \/ Drained(c)
    <2>1. /\ UNCHANGED <<pc, cancelled>>
          /\ \A d \in Conns \ {c} : conn'[d] = conn[d] /\ owned'[d] = owned[d]
          /\ conn[c] # "open"
      BY <1>2 DEF OrphanInv, OwnershipInv, TypeOK, Connect, Drained, taskVars
    <2> QED  BY <2>1 DEF OrphanInv, NoOrphanTurn, Active, Alive
  <1>3. CASE ImageMessage(c)
    <2>1. /\ UNCHANGED <<pc, cancelled, owned>>
          /\ \A d \in Conns \ {c} : conn'[d] = conn[d]
          /\ ~OwnTurnRuns(c)
      BY <1>3 DEF OrphanInv, OwnershipInv, TypeOK, ImageMessage, MayStartTurn, taskVars
    <2> QED
      BY <2>1, TurnsAssumption DEF OrphanInv, NoOrphanTurn, OwnTurnRuns, Active, Alive, Turns
  <1>4. CASE \/ ImageResolved(c) /\ UNCHANGED <<status, owned, pc>>
             \/ (\E u \in ToolIds, d \in {"approve", "deny"} : PermissionResponse(c, u, d))
             \/ (\E m \in Modes : SessionConfig(c, m))
    <2>1. /\ UNCHANGED <<pc, cancelled, owned>>
          /\ \A d \in Conns : conn[d] = "open" => conn'[d] = "open"
      BY <1>4 DEF OrphanInv, OwnershipInv, TypeOK, ImageResolved, PermissionResponse,
                  SessionConfig, connVars, taskVars
    <2> QED  BY <2>1 DEF OrphanInv, NoOrphanTurn, Active, Alive
  <1>5. CASE Abort(c) \/ Disconnect(c) \/ HandlerError(c)
    <2>1. /\ CancelOwn(c)
          /\ UNCHANGED <<pc, owned>>
          /\ \A d \in Conns \ {c} : conn'[d] = conn[d]
      BY <1>5 DEF OrphanInv, OwnershipInv, TypeOK, Abort, Disconnect, HandlerError, connVars
    <2>2. /\ \A s \in Turns : Active(s)' => Active(s)
          /\ OwnTurnRuns(c) => cancelled'[owned[c]]
      BY <2>1, CancelOwnEffect DEF OrphanInv
    <2>3. ASSUME NEW s \in WsTurns, Active(s)'
          PROVE  \E d \in Conns \ {c} : conn[d] = "open" /\ owned[d] = s
      <3>1. PICK d \in Conns : conn[d] = "open" /\ owned[d] = s
        BY <2>2, <2>3 DEF OrphanInv, NoOrphanTurn, Turns
      <3>2. d # c
        BY <2>1, <2>2, <2>3, <3>1, TurnsAssumption DEF OwnTurnRuns, Active, Alive, Turns
      <3> QED  BY <3>1, <3>2
    <2> QED  BY <2>1, <2>3 DEF NoOrphanTurn
  <1> QED
    BY <1>1, <1>2, <1>3, <1>4, <1>5
    DEF HandlerStep, UserMessage, ImageResolved, MayStartTurn, OrphanInv, OwnershipInv, TypeOK

\* No step orphans a turn.
LEMMA OrphanStep ==
    ASSUME ~WaitForKeeps, OrphanInv, [Next]_vars
    PROVE  OrphanInv'
  <1>1. ASSUME NEW t \in RestTurns, RestTurn(t)
        PROVE  NoOrphanTurn'
    <2>1. /\ t \notin WsTurns
          /\ \A s \in WsTurns : pc'[s] = pc[s]
          /\ UNCHANGED <<cancelled, conn, owned>>
      BY <1>1, TurnsAssumption
      DEF OrphanInv, OwnershipInv, TypeOK, RestTurn, Goto, Turns, connVars
    <2> QED  BY <2>1 DEF OrphanInv, NoOrphanTurn, Active, Alive
  <1>2. ASSUME NEW t \in Turns, TurnStep(t)
        PROVE  NoOrphanTurn'
    <2>1. \A s \in Turns : Active(s)' => Active(s)
      BY <1>2, TurnEffect DEF OrphanInv, Active, Alive
    <2>2. UNCHANGED <<conn, owned>>
      BY <1>2, TurnEffect DEF OrphanInv, connVars
    <2> QED  BY <2>1, <2>2 DEF OrphanInv, NoOrphanTurn, Turns
  <1>3. ASSUME UNCHANGED vars
        PROVE  NoOrphanTurn'
    BY <1>3 DEF OrphanInv, NoOrphanTurn, Active, Alive, vars, connVars, taskVars
  <1>4. OwnershipInv'
    BY OwnershipStep DEF OrphanInv
  <1> QED
    BY <1>1, <1>2, <1>3, <1>4, HandlerOrphan DEF Next, OrphanInv

\* With any number of clients, a turn that was not cancelled is held by an open handler.
THEOREM TurnsOwned == ASSUME ~WaitForKeeps PROVE Spec => []NoOrphanTurn
  <1>1. Init => OrphanInv
    BY OwnershipInit DEF OrphanInv, NoOrphanTurn, Init, Active, Alive, Turns
  <1>2. OrphanInv /\ [Next]_vars => OrphanInv'
    BY OrphanStep
  <1>3. OrphanInv => NoOrphanTurn
    BY DEF OrphanInv
  <1> QED  BY <1>1, <1>2, <1>3, PTL DEF Spec


-----------------------------------------------------------------------------
(* One client: the session implements TurnLog. *)

\* The writers of a conversation are a sequence of turns as long as it.
LEMMA WriterOfType ==
    ASSUME NEW h \in Seq(Messages)
    PROVE  /\ WriterOf(h) \in Seq(Turns)
           /\ Len(WriterOf(h)) = Len(h)
           /\ \A i \in 1..Len(h) : WriterOf(h)[i] = h[i].turn
  <1>1. DOMAIN h = 1..Len(h) /\ Len(h) \in Nat
    OBVIOUS
  <1>2. \A i \in 1..Len(h) : h[i].turn \in Turns
    <2>1. \A i \in 1..Len(h) : h[i] \in Messages
      OBVIOUS
    <2>2. \A m \in Messages : m.turn \in Turns
      BY DEF Messages
    <2> QED  BY <2>1, <2>2
  <1>3. WriterOf(h) = [i \in 1..Len(h) |-> h[i].turn]
    BY <1>1 DEF WriterOf
  <1>4. WriterOf(h) \in [1..Len(h) -> Turns]
    BY <1>2, <1>3
  <1>5. WriterOf(h) \in Seq(Turns) /\ Len(WriterOf(h)) = Len(h)
    BY <1>1, <1>4
  <1> QED  BY <1>3, <1>5

\* The writers of a conversation that a message joins.
LEMMA WriterOfAppend ==
    ASSUME NEW h \in Seq(Messages), NEW m \in Messages
    PROVE  WriterOf(Append(h, m)) = Append(WriterOf(h), m.turn)
  <1>1. /\ Append(h, m) \in Seq(Messages)
        /\ Len(Append(h, m)) = Len(h) + 1
        /\ \A i \in 1..Len(h) : Append(h, m)[i] = h[i]
        /\ Append(h, m)[Len(h) + 1] = m
    OBVIOUS
  <1>2. /\ WriterOf(h) \in Seq(Turns)
        /\ Len(WriterOf(h)) = Len(h)
        /\ \A i \in 1..Len(h) : WriterOf(h)[i] = h[i].turn
    BY WriterOfType
  <1>3. m.turn \in Turns
    BY DEF Messages
  <1>4. /\ Append(WriterOf(h), m.turn) \in Seq(Turns)
        /\ Len(Append(WriterOf(h), m.turn)) = Len(h) + 1
        /\ \A i \in 1..Len(h) : Append(WriterOf(h), m.turn)[i] = h[i].turn
        /\ Append(WriterOf(h), m.turn)[Len(h) + 1] = m.turn
    BY <1>2, <1>3
  <1>5. /\ WriterOf(Append(h, m)) \in Seq(Turns)
        /\ Len(WriterOf(Append(h, m))) = Len(h) + 1
        /\ \A i \in 1..Len(h) + 1 : WriterOf(Append(h, m))[i] = Append(h, m)[i].turn
    BY <1>1, WriterOfType
  <1>6. \A i \in 1..Len(h) + 1 : WriterOf(Append(h, m))[i] = Append(WriterOf(h), m.turn)[i]
    BY <1>1, <1>4, <1>5
  <1> QED  BY <1>4, <1>5, <1>6, SeqEqual

\* With one client, at most one turn is active, before and after a step.
LEMMA OneActive ==
    ASSUME NEW c, Conns = {c}, RestTurns = {}, OrphanInv, OrphanInv'
    PROVE  /\ \A t \in Turns : Active(t) => CurrentTurn = t
           /\ (~\E t \in Turns : Active(t)) => CurrentTurn = NoTurn
           /\ \A t \in Turns : Active(t)' => CurrentTurn' = t
           /\ (~\E t \in Turns : Active(t)') => CurrentTurn' = NoTurn
  <1>1. \A s, t \in Turns : Active(s) /\ Active(t) => s = t
    BY DEF OrphanInv, NoOrphanTurn, Turns
  <1>2. \A s, t \in Turns : Active(s)' /\ Active(t)' => s = t
    BY DEF OrphanInv, NoOrphanTurn, Turns
  <1> QED  BY <1>1, <1>2 DEF CurrentTurn

\* What a step of turn t does to the conversation.
LEMMA TurnWrites ==
    ASSUME ~WaitForKeeps, OrphanInv, NEW t \in Turns, TurnStep(t)
    PROVE  \/ /\ Active(t) /\ Active(t)'
              /\ \E m \in Messages : m.turn = t /\ history' = Append(history, m)
           \/ /\ Active(t) /\ Active(t)'
              /\ UNCHANGED history
           \/ /\ Active(t) /\ pc'[t] = "done"
              /\ UNCHANGED history
           \/ /\ cancelled[t] /\ pc'[t] = "done"
              /\ UNCHANGED history
  <1> USE DEF OrphanInv, OwnershipInv, TypeOK, Active, Alive, At, Goto, Leave
  <1>1. \A k \in {"user", "nudge", "assistant", "tools", "results"}, ids \in Seq(ToolIds) :
            Message(k, t, ids) \in Messages /\ Message(k, t, ids).turn = t
    BY DEF Message, Messages
  <1>2. CASE Begin(t) \/ RouteToTeam(t) \/ EnterTeam(t) \/ Finally(t)
    BY <1>2 DEF Begin, RouteToTeam, EnterTeam, Finally, sessionVars
  <1>3. CASE KeyMissing(t) \/ End(t)
    BY <1>3 DEF KeyMissing, End, sessionVars
  <1>4. CASE AcceptMessage(t) \/ TeamEnds(t) \/ StreamAnswer(t)
    <2>1. /\ Active(t) /\ Active(t)'
          /\ \/ \E k \in {"user", "assistant"} :
                  history' = Append(history, Message(k, t, <<>>))
             \/ UNCHANGED history
      BY <1>4 DEF AcceptMessage, TeamEnds, StreamAnswer
    <2> QED  BY <1>1, <2>1, EmptyIds
  <1>5. CASE EnterLoop(t) \/ StreamAborted(t) \/ TurnFails(t)
    BY <1>5 DEF EnterLoop, StreamAborted, TurnFails, NextIteration, InLoop, sessionVars
  <1>6. CASE StreamEmpty(t)
    <2>1. /\ Active(t) /\ Active(t)'
          /\ UNCHANGED history \/ history' = Append(history, Message("nudge", t, <<>>))
      BY <1>6 DEF StreamEmpty, NextIteration
    <2> QED  BY <1>1, <2>1, EmptyIds
  <1>7. ASSUME NEW b \in Batches, StreamTools(t, b)
        PROVE  /\ Active(t) /\ Active(t)'
               /\ \E m \in Messages : m.turn = t /\ history' = Append(history, m)
    <2>1. /\ Active(t) /\ Active(t)'
          /\ history' = Append(history, Message("tools", t, b))
      BY <1>7 DEF StreamTools
    <2> QED  BY <1>1, <2>1, BatchType
  <1>8. CASE BatchEnds(t)
    <2>1. SubSeq(loop[t].uses, 1, loop[t].answered) \in Seq(ToolIds)
      <3>1. /\ loop[t].uses \in Seq(ToolIds) /\ loop[t].answered \in Nat
            /\ loop[t].answered <= Len(loop[t].uses)
        BY DEF Loops, BatchProgress
      <3> QED  BY <3>1
    <2>2. /\ Active(t) /\ Active(t)'
          /\ history' = Append(history, Message("results", t,
                                 SubSeq(loop[t].uses, 1, loop[t].answered)))
      BY <1>8 DEF BatchEnds, NextIteration
    <2> QED  BY <1>1, <2>1, <2>2
  <1>9. CASE CallTool(t) \/ Prompted(t) \/ Answered(t) \/ AskTimesOut(t) \/ ToolDone(t)
    BY <1>9 DEF CallTool, CallDenied, CallAllowed, CallAsked, Prompted, Answered,
                AskTimesOut, ToolDone, Decide, GiveResult, sessionVars
  <1>10. CASE CancelDropped(t)
    BY <1>10 DEF CancelDropped
  <1>11. CASE CancelDelivered(t)
    BY <1>11 DEF CancelDelivered
  <1> QED
    BY <1>2, <1>3, <1>4, <1>5, <1>6, <1>7, <1>8, <1>9, <1>10, <1>11 DEF TurnStep

\* A step that changes neither the conversation nor who may write to it.
LEMMA LogStutter ==
    ASSUME NEW c, Conns = {c}, RestTurns = {}, OrphanInv, OrphanInv', UNCHANGED history,
           \A t \in Turns : /\ Active(t)' <=> Active(t)
                            /\ t \in StoppedTurns' <=> t \in StoppedTurns
    PROVE  UNCHANGED Log!vars
  <1>1. CurrentTurn' = CurrentTurn
    BY OneActive
  <1>2. StoppedTurns' = StoppedTurns
    BY DEF StoppedTurns
  <1>3. WriterOf(history)' = WriterOf(history)
    BY DEF WriterOf
  <1> QED  BY <1>1, <1>2, <1>3 DEF Log!vars

\* A turn that may write no more.
LEMMA LogStop ==
    ASSUME NEW c, Conns = {c}, RestTurns = {}, OrphanInv, OrphanInv', UNCHANGED history,
           NEW t \in Turns, Active(t), ~Active(t)', t \in StoppedTurns',
           \A s \in Turns \ {t} : /\ Active(s)' <=> Active(s)
                                  /\ s \in StoppedTurns' <=> s \in StoppedTurns
    PROVE  Log!Next
  <1>1. CurrentTurn = t /\ CurrentTurn' = NoTurn
    BY OneActive
  <1>2. StoppedTurns' = StoppedTurns \cup {t}
    BY DEF StoppedTurns
  <1>3. WriterOf(history)' = WriterOf(history)
    BY DEF WriterOf
  <1> QED  BY <1>1, <1>2, <1>3 DEF Log!Next, Log!Stop

\* A step of the only running turn is a step of the serial conversation, or none.
LEMMA TurnImplements ==
    ASSUME NEW c, Conns = {c}, RestTurns = {}, ~WaitForKeeps, OrphanInv, OrphanInv',
           NEW t \in Turns, TurnStep(t)
    PROVE  Log!Next \/ UNCHANGED Log!vars
  <1>1. /\ \A s \in Turns \ {t} : pc'[s] = pc[s] /\ cancelled'[s] = cancelled[s]
        /\ Active(t) => ~cancelled'[t]
        /\ Alive(t)
    BY TurnEffect DEF OrphanInv
  <1>2. \A s \in Turns \ {t} : /\ Active(s)' <=> Active(s)
                               /\ s \in StoppedTurns' <=> s \in StoppedTurns
    BY <1>1 DEF Active, Alive, StoppedTurns
  <1>3. CASE /\ Active(t) /\ Active(t)'
             /\ \E m \in Messages : m.turn = t /\ history' = Append(history, m)
    <2>1. PICK m \in Messages : m.turn = t /\ history' = Append(history, m)
      BY <1>3
    <2>2. WriterOf(history)' = Append(WriterOf(history), t)
      <3>1. history \in Seq(Messages)
        BY DEF OrphanInv, OwnershipInv, TypeOK
      <3>2. WriterOf(history)' = WriterOf(Append(history, m))
        BY <2>1 DEF WriterOf
      <3> QED  BY <2>1, <3>1, <3>2, WriterOfAppend
    <2>3. CurrentTurn = t /\ CurrentTurn' = t
      BY <1>3, OneActive
    <2>4. StoppedTurns' = StoppedTurns
      BY <1>2, <1>3 DEF StoppedTurns, Active, Alive
    <2> QED  BY <2>2, <2>3, <2>4 DEF Log!Next, Log!Write
  <1>4. CASE Active(t) /\ Active(t)' /\ UNCHANGED history
    BY <1>2, <1>4, LogStutter DEF StoppedTurns, Active, Alive
  <1>5. CASE Active(t) /\ pc'[t] = "done" /\ UNCHANGED history
    <2>1. ~Active(t)' /\ t \in StoppedTurns'
      BY <1>5 DEF Active, Alive, StoppedTurns
    <2> QED  BY <1>2, <1>5, <2>1, LogStop
  <1>6. CASE cancelled[t] /\ pc'[t] = "done" /\ UNCHANGED history
    <2>1. /\ Active(t)' <=> Active(t)
          /\ t \in StoppedTurns' <=> t \in StoppedTurns
      BY <1>6 DEF Active, Alive, StoppedTurns
    <2> QED  BY <1>2, <1>6, <2>1, LogStutter
  <1> QED  BY <1>3, <1>4, <1>5, <1>6, TurnWrites

\* The single client starts a turn when none is active.
LEMMA StartImplements ==
    ASSUME NEW c, Conns = {c}, RestTurns = {}, OrphanInv, OrphanInv', StartTurn(c),
           UNCHANGED <<history, cancelled>>, conn[c] = "open" => ~OwnTurnRuns(c)
    PROVE  Log!Next
  <1>1. PICK t \in WsTurns : pc[t] = "none" /\ Goto(t, "created")
    BY DEF StartTurn
  <1>2. ~\E s \in Turns : Active(s)
    BY TurnsAssumption DEF OrphanInv, NoOrphanTurn, OwnTurnRuns, Active, Turns
  <1>3. /\ t \in Turns
        /\ ~cancelled[t]
        /\ pc'[t] = "created"
        /\ \A s \in Turns \ {t} : pc'[s] = pc[s]
    BY <1>1 DEF OrphanInv, OwnershipInv, TypeOK, CancelledAlive, Goto, Alive, Turns
  <1>4. CurrentTurn = NoTurn /\ CurrentTurn' = t
    BY <1>2, <1>3, OneActive DEF Active, Alive
  <1>5. StoppedTurns' = StoppedTurns /\ t \notin StoppedTurns
    BY <1>1, <1>3 DEF StoppedTurns
  <1>6. WriterOf(history)' = WriterOf(history)
    BY DEF WriterOf
  <1> QED  BY <1>3, <1>4, <1>5, <1>6 DEF Log!Next, Log!Start

\* So is a step of the only handler.
LEMMA HandlerImplements ==
    ASSUME NEW c, Conns = {c}, RestTurns = {}, OrphanInv, OrphanInv', HandlerStep(c)
    PROVE  Log!Next \/ UNCHANGED Log!vars
  <1>1. CASE UserMessage(c) \/ (ImageResolved(c) /\ StartTurn(c))
    BY <1>1, StartImplements DEF UserMessage, ImageResolved, MayStartTurn
  <1>2. CASE UNCHANGED <<history, pc, cancelled>>
    BY <1>2, LogStutter DEF Active, Alive, StoppedTurns
  <1>3. CASE Abort(c) \/ Disconnect(c) \/ HandlerError(c)
    <2>1. CancelOwn(c) /\ UNCHANGED <<history, pc>>
      BY <1>3 DEF Abort, Disconnect, HandlerError
    <2>2. CASE ~OwnTurnRuns(c)
      BY <1>2, <2>1, <2>2 DEF CancelOwn
    <2>3. CASE OwnTurnRuns(c)
      <3>1. PICK t \in Turns : /\ Alive(t) /\ cancelled'[t]
                               /\ \A s \in Turns \ {t} : cancelled'[s] = cancelled[s]
        BY <2>1, <2>3 DEF OrphanInv, OwnershipInv, TypeOK, CancelOwn, OwnTurnRuns, Turns
      <3>2. /\ ~Active(t)' /\ t \in StoppedTurns'
            /\ \A s \in Turns \ {t} : /\ Active(s)' <=> Active(s)
                                      /\ s \in StoppedTurns' <=> s \in StoppedTurns
        BY <2>1, <3>1 DEF Active, Alive, StoppedTurns
      <3>3. CASE Active(t)
        BY <2>1, <3>1, <3>2, <3>3, LogStop
      <3>4. CASE ~Active(t)
        <4>1. t \in StoppedTurns
          BY <3>1, <3>4 DEF Active, StoppedTurns
        <4> QED  BY <2>1, <3>1, <3>2, <3>4, <4>1, LogStutter
      <3> QED  BY <3>3, <3>4
    <2> QED  BY <2>2, <2>3
  <1>4. ImageResolved(c) => StartTurn(c) \/ UNCHANGED pc
    BY DEF ImageResolved
  <1> QED
    BY <1>1, <1>2, <1>3, <1>4
    DEF HandlerStep, Connect, ImageMessage, ImageResolved, PermissionResponse, SessionConfig,
        Drained, sessionVars, taskVars

\* With a single client, which may disconnect, fail and come back at any time, the session
\* is the serial conversation of TurnLog.
THEOREM SingleClientSerial ==
    ASSUME NEW c, Conns = {c}, RestTurns = {}, ~WaitForKeeps
    PROVE  Spec => SerialTurns
  <1>1. Init => OrphanInv
    BY OwnershipInit DEF OrphanInv, NoOrphanTurn, Init, Active, Alive, Turns
  <1>2. OrphanInv /\ [Next]_vars => OrphanInv'
    BY OrphanStep
  <1>3. Init => Log!Init
    <2> SUFFICES ASSUME Init PROVE Log!Init
      OBVIOUS
    <2>1. CurrentTurn = NoTurn /\ StoppedTurns = {}
      BY DEF Init, CurrentTurn, StoppedTurns, Active, Alive
    <2>2. WriterOf(history) = <<>>
      BY DEF Init, WriterOf
    <2> QED  BY <2>1, <2>2 DEF Log!Init
  <1>4. OrphanInv /\ OrphanInv' /\ [Next]_vars => [Log!Next]_(Log!vars)
    <2> SUFFICES ASSUME OrphanInv, OrphanInv', [Next]_vars
                 PROVE  Log!Next \/ UNCHANGED Log!vars
      OBVIOUS
    <2>1. CASE UNCHANGED vars
      BY <2>1, LogStutter
      DEF Active, Alive, StoppedTurns, vars, sessionVars, taskVars
    <2> QED  BY <2>1, TurnImplements, HandlerImplements DEF Next
  <1> QED  BY <1>1, <1>2, <1>3, <1>4, PTL DEF Spec, SerialTurns, Log!Spec

-----------------------------------------------------------------------------
(* One client: tool calls and their results pair up. *)

\* The turn has an assistant message whose calls it is working through.
InBatch(t) == Active(t) /\ pc[t] \in {"calling", "prompting", "asking", "running"}

Over(t) == ~Active(t) \/ pc[t] \in {"closing", "ending"}

\* The calls being worked through end the conversation.
BatchLast ==
    \A t \in Turns : InBatch(t) =>
        /\ Len(history) > 0
        /\ history[Len(history)] = Message("tools", t, loop[t].uses)

\* Who wrote to the conversation has been started, so it never starts again.
WritersStarted == \A i \in 1..Len(history) : pc[history[i].turn] # "none"

WroteLast(i) == \A j \in i + 1..Len(history) : history[j].turn # history[i].turn

\* CallsAnswered, with the place of the turn that works through the calls.
Pending(i) ==
    history[i].kind = "tools" =>
        \/ i < Len(history) /\ history[i + 1].kind = "results"
        \/ i = Len(history) /\ InBatch(history[i].turn)
        \/ Over(history[i].turn) /\ WroteLast(i)

PairInv == /\ BatchLast /\ WritersStarted
           /\ \A i \in 1..Len(history) : ResultsAnswer(i) /\ Pending(i)

\* What a step of turn t does to the conversation and to its place in a batch.
LEMMA BatchEffect ==
    ASSUME ~WaitForKeeps, OrphanInv, NEW t \in Turns, TurnStep(t)
    PROVE  /\ \A s \in Turns \ {t} : loop'[s] = loop[s]
           /\ \/ /\ Active(t) /\ ~InBatch(t) /\ ~Over(t) /\ ~InBatch(t)'
                 /\ \E k \in {"user", "nudge", "assistant"} :
                       history' = Append(history, Message(k, t, <<>>))
              \/ /\ Active(t) /\ ~InBatch(t) /\ ~Over(t) /\ InBatch(t)'
                 /\ loop'[t].uses \in Seq(ToolIds)
                 /\ history' = Append(history, Message("tools", t, loop'[t].uses))
              \/ /\ InBatch(t) /\ ~InBatch(t)'
                 /\ history' = Append(history, Message("results", t,
                                          SubSeq(loop[t].uses, 1, loop[t].answered)))
              \/ /\ UNCHANGED history
                 /\ ~InBatch(t) /\ ~InBatch(t)' /\ (Over(t) => Over(t)')
              \/ /\ UNCHANGED history
                 /\ InBatch(t) /\ Over(t)'
              \/ /\ UNCHANGED history
                 /\ InBatch(t) /\ InBatch(t)' /\ loop'[t].uses = loop[t].uses
  <1> USE DEF OrphanInv, OwnershipInv, TypeOK, Active, Alive, At, Goto, Leave, InBatch, Over
  <1>1. CASE \/ Begin(t) \/ RouteToTeam(t) \/ EnterTeam(t) \/ Finally(t) \/ KeyMissing(t) \/ End(t)
    BY <1>1 DEF Begin, RouteToTeam, EnterTeam, Finally, KeyMissing, End, sessionVars, localVars
  <1>2. CASE AcceptMessage(t) \/ TeamEnds(t) \/ StreamAnswer(t)
    BY <1>2 DEF AcceptMessage, TeamEnds, StreamAnswer, localVars
  <1>3. CASE EnterLoop(t) \/ StreamAborted(t)
    BY <1>3 DEF EnterLoop, StreamAborted, NextIteration, InLoop, sessionVars
  <1>4. CASE TurnFails(t)
    BY <1>4 DEF TurnFails, InLoop, sessionVars
  <1>5. CASE StreamEmpty(t)
    BY <1>5 DEF StreamEmpty, NextIteration
  <1>6. ASSUME NEW b \in Batches, StreamTools(t, b)
        PROVE  /\ \A s \in Turns \ {t} : loop'[s] = loop[s]
               /\ Active(t) /\ ~InBatch(t) /\ ~Over(t) /\ InBatch(t)'
               /\ loop'[t].uses \in Seq(ToolIds)
               /\ history' = Append(history, Message("tools", t, loop'[t].uses))
    <2>1. loop'[t].uses = b /\ b \in Seq(ToolIds)
      BY <1>6, BatchType DEF StreamTools, Loops
    <2> QED  BY <1>6, <2>1 DEF StreamTools
  <1>7. CASE BatchEnds(t)
    BY <1>7 DEF BatchEnds, NextIteration
  <1>8. CASE CallTool(t)
    BY <1>8 DEF CallTool, CallDenied, CallAllowed, CallAsked, Loops
  <1>9. CASE Prompted(t)
    BY <1>9 DEF Prompted, sessionVars, localVars
  <1>10. CASE Answered(t) \/ AskTimesOut(t) \/ ToolDone(t)
    BY <1>10 DEF Answered, AskTimesOut, ToolDone, Decide, GiveResult, sessionVars, localVars, Loops
  <1>11. CASE CancelDropped(t)
    BY <1>11 DEF CancelDropped
  <1>12. CASE CancelDelivered(t)
    BY <1>12 DEF CancelDelivered
  <1> QED
    BY <1>1, <1>2, <1>3, <1>4, <1>5, <1>6, <1>7, <1>8, <1>9, <1>10, <1>11, <1>12 DEF TurnStep

\* The messages of a conversation are typed, also after one more.
LEMMA HistoryType ==
    ASSUME TypeOK
    PROVE  /\ history \in Seq(Messages)
           /\ Len(history) \in Nat
           /\ \A i \in 1..Len(history) : history[i] \in Messages /\ history[i].turn \in Turns
           /\ \A m \in Messages :
                 /\ Len(Append(history, m)) = Len(history) + 1
                 /\ \A i \in 1..Len(history) : Append(history, m)[i] = history[i]
                 /\ Append(history, m)[Len(history) + 1] = m
  <1>1. history \in Seq(Messages)
    BY DEF TypeOK
  <1>2. \A m \in Messages : m.turn \in Turns
    BY DEF Messages
  <1> QED  BY <1>1, <1>2

\* A step that adds nothing to the conversation, and takes no turn into a batch or back from
\* where it was over.
LEMMA PairQuiet ==
    ASSUME OrphanInv, PairInv, UNCHANGED history,
           \A s \in Turns : /\ pc[s] # "none" => pc'[s] # "none"
                            /\ InBatch(s)' => InBatch(s) /\ loop'[s].uses = loop[s].uses
                            /\ InBatch(s) => InBatch(s)' \/ Over(s)'
                            /\ pc[s] # "none" /\ Over(s) => Over(s)'
    PROVE  PairInv'
  <1>1. \A i \in 1..Len(history) : history[i].turn \in Turns
    BY HistoryType DEF OrphanInv, OwnershipInv
  <1>2. BatchLast'
    BY DEF PairInv, BatchLast
  <1>3. WritersStarted'
    BY <1>1 DEF PairInv, WritersStarted
  <1>4. \A i \in 1..Len(history) : ResultsAnswer(i)'
    BY DEF PairInv, ResultsAnswer
  <1>5. \A i \in 1..Len(history) : Pending(i)'
    BY <1>1 DEF PairInv, Pending, WritersStarted, WroteLast
  <1> QED  BY <1>2, <1>3, <1>4, <1>5 DEF PairInv

\* The one active turn adds message m: the results of its batch if it is in one, its calls if
\* it enters one.
LEMMA PairAppend ==
    ASSUME NEW c, Conns = {c}, RestTurns = {}, OrphanInv, OrphanInv', PairInv,
           NEW t \in Turns, Active(t), ~Over(t), pc'[t] # "none",
           \A s \in Turns \ {t} : /\ pc'[s] = pc[s] /\ cancelled'[s] = cancelled[s]
                                  /\ loop'[s] = loop[s],
           NEW m \in Messages, m.turn = t, history' = Append(history, m),
           m.kind = "results" <=> InBatch(t),
           m.kind = "results" => \E n \in 0..Len(loop[t].uses) : m.ids = SubSeq(loop[t].uses, 1, n),
           m.kind = "tools" => InBatch(t)',
           InBatch(t)' => m = Message("tools", t, loop'[t].uses)
    PROVE  PairInv'
  <1>1. /\ history \in Seq(Messages)
        /\ Len(history) \in Nat
        /\ Len(history') = Len(history) + 1
        /\ \A i \in 1..Len(history) : history'[i] = history[i] /\ history[i].turn \in Turns
        /\ history'[Len(history) + 1] = m
    BY HistoryType DEF OrphanInv, OwnershipInv
  <1>2. \A s \in Turns \ {t} : /\ InBatch(s)' <=> InBatch(s)
                               /\ Over(s)' <=> Over(s)
                               /\ ~InBatch(s)
    BY OneActive DEF InBatch, Over, Active, Alive
  <1>3. BatchLast'
    BY <1>1, <1>2 DEF BatchLast
  <1>4. WritersStarted'
    BY <1>1 DEF PairInv, WritersStarted
  <1>5. ASSUME NEW i, i = Len(history) + 1
        PROVE  ResultsAnswer(i)'
    <2>1. ASSUME m.kind = "results"
          PROVE  /\ Len(history) > 0
                 /\ history[Len(history)] = Message("tools", t, loop[t].uses)
      BY <2>1 DEF PairInv, BatchLast
    <2>2. /\ Message("tools", t, loop[t].uses).kind = "tools"
          /\ Message("tools", t, loop[t].uses).turn = t
          /\ Message("tools", t, loop[t].uses).ids = loop[t].uses
      BY DEF Message
    <2> QED  BY <1>1, <1>5, <2>1, <2>2 DEF ResultsAnswer
  <1>6. ASSUME NEW i, i = Len(history) + 1
        PROVE  Pending(i)'
    BY <1>1, <1>6 DEF Pending
  <1>7. ASSUME NEW i \in 1..Len(history)
        PROVE  ResultsAnswer(i)'
    BY <1>1 DEF PairInv, ResultsAnswer
  <1>8. ASSUME NEW i \in 1..Len(history)
        PROVE  Pending(i)'
    <2>1. CASE history[i].kind = "tools" /\ i < Len(history) /\ history[i + 1].kind = "results"
      BY <1>1, <2>1 DEF Pending
    <2>2. CASE history[i].kind = "tools" /\ i = Len(history) /\ InBatch(history[i].turn)
      <3>1. history[i].turn = t
        BY <1>1, <1>2, <2>2
      <3> QED  BY <1>1, <2>2, <3>1 DEF Pending
    <2>3. CASE history[i].kind = "tools" /\ Over(history[i].turn) /\ WroteLast(i)
      <3>1. history[i].turn # t
        BY <2>3
      <3>2. history'[i] = history[i] /\ history[i].turn \in Turns \ {t}
        BY <1>1, <3>1
      <3>3. ASSUME NEW j \in i + 1..Len(history')
            PROVE  history'[j].turn # history'[i].turn
        <4>1. CASE j = Len(history) + 1
          BY <1>1, <3>1, <3>2, <4>1
        <4>2. CASE j \in i + 1..Len(history)
          BY <1>1, <2>3, <3>2, <4>2 DEF WroteLast
        <4> QED  BY <1>1, <4>1, <4>2
      <3>4. WroteLast(i)'
        BY <3>3 DEF WroteLast
      <3> QED  BY <1>1, <1>2, <2>3, <3>1, <3>4 DEF Pending
    <2>4. CASE history[i].kind # "tools"
      BY <1>1, <2>4 DEF Pending
    <2> QED  BY <2>1, <2>2, <2>3, <2>4 DEF PairInv, Pending
  <1>9. \A i \in 1..Len(history') : i = Len(history) + 1 \/ i \in 1..Len(history)
    BY <1>1
  <1> QED
    BY <1>3, <1>4, <1>5, <1>6, <1>7, <1>8, <1>9 DEF PairInv

\* A step of the only running turn.
LEMMA TurnPairs ==
    ASSUME NEW c, Conns = {c}, RestTurns = {}, ~WaitForKeeps, OrphanInv, OrphanInv', PairInv,
           NEW t \in Turns, TurnStep(t)
    PROVE  PairInv'
  <1>1. /\ Alive(t)
        /\ \A s \in Turns \ {t} : /\ pc'[s] = pc[s] /\ cancelled'[s] = cancelled[s]
                                  /\ loop'[s] = loop[s]
        /\ pc'[t] # "none"
    BY TurnEffect, BatchEffect DEF OrphanInv
  <1>2. \A k \in {"user", "nudge", "assistant", "tools", "results"}, ids \in Seq(ToolIds) :
            /\ Message(k, t, ids) \in Messages
            /\ Message(k, t, ids).turn = t
            /\ Message(k, t, ids).kind = k
            /\ Message(k, t, ids).ids = ids
    BY DEF Message, Messages
  <1>3. \A s \in Turns \ {t} : /\ InBatch(s)' <=> InBatch(s)
                               /\ Over(s)' <=> Over(s)
    BY <1>1 DEF InBatch, Over, Active, Alive
  <1>4. CASE /\ Active(t) /\ ~InBatch(t) /\ ~Over(t) /\ ~InBatch(t)'
             /\ \E k \in {"user", "nudge", "assistant"} :
                   history' = Append(history, Message(k, t, <<>>))
    <2>1. PICK k \in {"user", "nudge", "assistant"}, ids \in Seq(ToolIds) :
                   history' = Append(history, Message(k, t, ids))
      BY <1>4, EmptyIds
    <2> DEFINE m == Message(k, t, ids)
    <2>2. m \in Messages /\ m.turn = t /\ m.kind = k
      BY <1>2
    <2> HIDE DEF m
    <2> QED  BY <1>1, <1>4, <2>1, <2>2, PairAppend DEF m
  <1>5. CASE /\ Active(t) /\ ~InBatch(t) /\ ~Over(t) /\ InBatch(t)'
             /\ loop'[t].uses \in Seq(ToolIds)
             /\ history' = Append(history, Message("tools", t, loop'[t].uses))
    <2> DEFINE m == Message("tools", t, loop'[t].uses)
    <2>1. m \in Messages /\ m.turn = t /\ m.kind = "tools"
      BY <1>2, <1>5
    <2>2. history' = Append(history, m)
      BY <1>5
    <2>3. InBatch(t)' => m = Message("tools", t, loop'[t].uses)
      OBVIOUS
    <2> HIDE DEF m
    <2> QED  BY <1>1, <1>5, <2>1, <2>2, <2>3, PairAppend
  <1>6. CASE /\ InBatch(t) /\ ~InBatch(t)'
             /\ history' = Append(history, Message("results", t,
                                      SubSeq(loop[t].uses, 1, loop[t].answered)))
    <2> DEFINE ids == SubSeq(loop[t].uses, 1, loop[t].answered)
               m == Message("results", t, ids)
    <2>1. /\ loop[t].uses \in Seq(ToolIds) /\ loop[t].answered \in Nat
          /\ loop[t].answered <= Len(loop[t].uses)
      BY DEF OrphanInv, OwnershipInv, TypeOK, Loops, BatchProgress
    <2>2. ids \in Seq(ToolIds) /\ loop[t].answered \in 0..Len(loop[t].uses)
      BY <2>1
    <2>3. /\ m \in Messages /\ m.turn = t /\ m.kind = "results" /\ m.ids = ids
          /\ history' = Append(history, m)
      BY <1>2, <1>6, <2>2
    <2>4. Active(t) /\ ~Over(t)
      BY <1>6 DEF InBatch, Over
    <2>5. \E n \in 0..Len(loop[t].uses) : m.ids = SubSeq(loop[t].uses, 1, n)
      BY <2>2, <2>3
    <2> HIDE DEF m, ids
    <2> QED  BY <1>1, <1>6, <2>3, <2>4, <2>5, PairAppend
  <1>7. CASE /\ UNCHANGED history
             /\ \/ ~InBatch(t) /\ ~InBatch(t)' /\ (Over(t) => Over(t)')
                \/ InBatch(t) /\ Over(t)'
                \/ InBatch(t) /\ InBatch(t)' /\ loop'[t].uses = loop[t].uses
    <2>1. /\ InBatch(t)' => ~Over(t)'
          /\ InBatch(t) => ~Over(t)
      BY DEF InBatch, Over
    <2> QED  BY <1>1, <1>3, <1>7, <2>1, PairQuiet
  <1> QED
    BY <1>4, <1>5, <1>6, <1>7, BatchEffect

\* A handler writes nothing, starts turns that have not written, and cancels.
LEMMA HandlerPairs ==
    ASSUME NEW c \in Conns, OrphanInv, PairInv, HandlerStep(c)
    PROVE  PairInv'
  <1>1. /\ UNCHANGED history
        /\ \A s \in Turns : /\ loop'[s] = loop[s]
                            /\ cancelled[s] => cancelled'[s]
                            /\ pc'[s] = pc[s] \/ (pc[s] = "none" /\ pc'[s] = "created")
    <2> USE DEF OrphanInv, OwnershipInv, TypeOK
    <2>1. CASE UserMessage(c) \/ ImageResolved(c)
      BY <2>1 DEF UserMessage, ImageResolved, StartTurn, Goto, Turns, localVars
    <2>2. CASE Abort(c) \/ Disconnect(c) \/ HandlerError(c)
      BY <2>2 DEF Abort, Disconnect, HandlerError, CancelOwn, localVars
    <2> QED
      BY <2>1, <2>2 DEF HandlerStep, Connect, ImageMessage, PermissionResponse, SessionConfig,
                        Drained, sessionVars, taskVars, localVars
  <1>2. \A s \in Turns : /\ pc[s] # "none" => pc'[s] # "none"
                         /\ InBatch(s)' => InBatch(s) /\ loop'[s].uses = loop[s].uses
                         /\ InBatch(s) => InBatch(s)' \/ Over(s)'
                         /\ pc[s] # "none" /\ Over(s) => Over(s)'
    BY <1>1 DEF InBatch, Over, Active, Alive
  <1> QED  BY <1>1, <1>2, PairQuiet

\* With a single client, which may disconnect, fail and come back at any time, every result
\* in the conversation directly follows the calls it answers, and calls without results are
\* those being worked through or the last a turn wrote before it was stopped: a turn leaves
\* one message of calls without results at most.
THEOREM CallsPairUp ==
    ASSUME NEW c, Conns = {c}, RestTurns = {}, ~WaitForKeeps
    PROVE  Spec => []ToolsPaired
  <1>1. Init => OrphanInv
    BY OwnershipInit DEF OrphanInv, NoOrphanTurn, Init, Active, Alive, Turns
  <1>2. OrphanInv /\ [Next]_vars => OrphanInv'
    BY OrphanStep
  <1>3. Init => PairInv
    BY DEF Init, PairInv, BatchLast, WritersStarted, InBatch
  <1>4. OrphanInv /\ OrphanInv' /\ PairInv /\ [Next]_vars => PairInv'
    <2> SUFFICES ASSUME OrphanInv, OrphanInv', PairInv, [Next]_vars
                 PROVE  PairInv'
      OBVIOUS
    <2>1. CASE UNCHANGED vars
      BY <2>1, PairQuiet
      DEF vars, sessionVars, taskVars, localVars, InBatch, Over, Active, Alive
    <2> QED  BY <2>1, TurnPairs, HandlerPairs DEF Next
  <1>5. OrphanInv /\ PairInv => ToolsPaired
    <2> SUFFICES ASSUME OrphanInv, PairInv, NEW i \in DOMAIN history
                 PROVE  ResultsAnswer(i) /\ CallsAnswered(i)
      BY DEF ToolsPaired
    <2>1. i \in 1..Len(history) /\ history[i] \in Messages
      BY HistoryType DEF OrphanInv, OwnershipInv
    <2>2. InBatch(history[i].turn) /\ i = Len(history)
             => Active(history[i].turn) /\ loop[history[i].turn].uses = history[i].ids
      BY <2>1 DEF PairInv, BatchLast, InBatch, Message, Messages
    <2> QED  BY <2>1, <2>2 DEF PairInv, Pending, CallsAnswered, Over, WroteLast
  <1> QED  BY <1>1, <1>2, <1>3, <1>4, <1>5, PTL DEF Spec


=============================================================================
