----------------------------- MODULE TeamPipeline -----------------------------
(***************************************************************************)
(* The team pipelines of one session and the plans they persist.           *)
(*                                                                         *)
(* TeamPipeline.run_implement_pipeline (orchestration/pipeline.py) drives  *)
(* six agents in turn: oracle, metis, sisyphus, then momus and fixer until *)
(* the verification passes or the attempts run out, then sentinel.  It     *)
(* keeps a plan in the PlanStore (orchestration/plan_store.py): a          *)
(* dictionary whose every change is written to a JSON file, which is what  *)
(* a restarted backend loads.  An agent is AgentHandler.execute_agent_turn *)
(* (agents/handler.py): up to MAX_AGENT_TURNS calls of the model.          *)
(*                                                                         *)
(* A pipeline runs inside a turn of the session, so it may be cancelled at *)
(* any await; should_abort is shared by the pipelines of the session and   *)
(* is reset by the turn of each.  An action is the code from one await     *)
(* that another task could use to the next.                                *)
(***************************************************************************)
EXTENDS Naturals

CONSTANTS
    Pipelines,       \* the runs of run_implement_pipeline
    MaxFixAttempts,  \* MAX_FIX_ATTEMPTS
    MaxAgentTurns,   \* MAX_AGENT_TURNS
    MaxIssues        \* bound on the issues one verification reports

ASSUME PipelineAssumption ==
    /\ MaxFixAttempts \in Nat \ {0}
    /\ MaxAgentTurns \in Nat \ {0}
    /\ MaxIssues \in Nat

VARIABLES
    shouldAbort,  \* session.should_abort
    pc,           \* what each pipeline is waiting for
    turn,         \* the model calls its current agent has made
    worked,       \* the agents it has run, each of which may have changed files
    attempt,      \* the verification it is at
    latest,       \* len(issues), what that verification found
    found,        \* len(all_issues), what every verification found
    plan,         \* its plan in PlanStore._plans
    disk          \* its plan's file

localVars == <<turn, worked, attempt, latest, found>>
vars == <<shouldAbort, pc, localVars, plan, disk>>

-----------------------------------------------------------------------------
Agents == {"oracle", "metis", "sisyphus", "momus", "fixer", "sentinel"}

\* Between two agents: the plan is active and announced; sisyphus is announced as
\* completed; the last attempt has found issues; the verification is over.
Pauses == {"planned", "executed", "exhausted", "verified"}

\* Completed; stopped at an abort check; stopped by Task.cancel(); by an exception; by
\* the end of the process.
Ends == {"complete", "aborted", "cancelled", "raised", "killed"}

Statuses == {"none", "draft", "active", "executing", "verifying",
             "completed", "failed", "abandoned"}

\* A plan: its status, fix_attempts, len(issues) and ten times its success_score.
Plans == [status : Statuses, attempts : 0..MaxFixAttempts, issues : Nat, score : 0..10]
NoPlan == [status |-> "none", attempts |-> 0, issues |-> 0, score |-> 0]

Running(r) == pc[r] \in Agents \cup Pauses

Goto(r, l) == pc' = [pc EXCEPT ![r] = l]

\* The pipeline hands over to an agent, which has every tool (no agent of the pipeline is
\* registered with a list of tools, and none asks for permission).
Hire(r, a) ==
    /\ Goto(r, a)
    /\ turn' = [turn EXCEPT ![r] = 1]
    /\ worked' = [worked EXCEPT ![r] = @ \cup {a}]

-----------------------------------------------------------------------------
(* The PlanStore. *)

WithStatus(p, s) == [p EXCEPT !.status = s]

\* record_fix_attempt
WithAttempt(p, n) ==
    [status |-> p.status, attempts |-> p.attempts + 1, issues |-> p.issues + n, score |-> p.score]

\* update_status(FAILED, issues=issues) lists the issues of the last attempt once more.
GivenUp(p, n) ==
    [status |-> "failed", attempts |-> p.attempts, issues |-> p.issues + n, score |-> p.score]

\* complete
Completed(p, s) ==
    [status |-> "completed", attempts |-> p.attempts, issues |-> p.issues, score |-> s]

\* The plan changes in memory and then in its file ...
Save(r, p) ==
    /\ plan' = [plan EXCEPT ![r] = p]
    /\ disk' = [disk EXCEPT ![r] = p]

\* ... but opening or writing the file may fail: it still holds the plan q, or is cut off
\* and will not load, and the OSError ends the pipeline.
SaveRaises(r, p, q) ==
    /\ plan' = [plan EXCEPT ![r] = p]
    /\ \E f \in {q, NoPlan} : disk' = [disk EXCEPT ![r] = f]
    /\ Goto(r, "raised")
    /\ UNCHANGED localVars

\* The score of a completed plan, from all issues every verification found.
Score(n) == IF n >= 7 THEN 3 ELSE 10 - n

-----------------------------------------------------------------------------
Init ==
    /\ shouldAbort = FALSE
    /\ pc = [r \in Pipelines |-> "none"]
    /\ turn = [r \in Pipelines |-> 0]
    /\ worked = [r \in Pipelines |-> {}]
    /\ attempt = [r \in Pipelines |-> 0]
    /\ latest = [r \in Pipelines |-> 0]
    /\ found = [r \in Pipelines |-> 0]
    /\ plan = [r \in Pipelines |-> NoPlan]
    /\ disk = [r \in Pipelines |-> NoPlan]

\* A turn of the session begins, withdrawing a pending abort, and enters the pipeline.
Start(r) ==
    /\ pc[r] = "none"
    /\ shouldAbort' = FALSE
    /\ Hire(r, "oracle")
    /\ UNCHANGED <<attempt, latest, found, plan, disk>>

\* A user aborts from a connection that does not own the turn: only the flag is raised.
RaiseAbort ==
    /\ shouldAbort' = TRUE
    /\ UNCHANGED <<pc, localVars, plan, disk>>

\* A user aborts, or disconnects, the turn of the pipeline: its task is cancelled.
Cancel(r) ==
    /\ Running(r)
    /\ shouldAbort' = TRUE
    /\ Goto(r, "cancelled")
    /\ UNCHANGED <<localVars, plan, disk>>

\* The backend is killed and restarted: the plans are those of the files.
Restart ==
    /\ \E r \in Pipelines : Running(r)
    /\ shouldAbort' = FALSE
    /\ pc' = [r \in Pipelines |-> IF Running(r) THEN "killed" ELSE pc[r]]
    /\ plan' = disk
    /\ UNCHANGED <<localVars, disk>>

\* A send, a prompt that cannot be built, or the verifier's JSON being no object.
Raises(r) ==
    /\ Running(r)
    /\ Goto(r, "raised")
    /\ UNCHANGED <<shouldAbort, localVars, plan, disk>>

\* Mutant: a tool call starts the count of the agent's model calls again.
AgentTurnRestarts(r) ==
    /\ pc[r] \in Agents
    /\ turn' = [turn EXCEPT ![r] = IF @ = MaxAgentTurns THEN 1 ELSE @ + 1]
    /\ UNCHANGED <<shouldAbort, pc, worked, attempt, latest, found, plan, disk>>

\* The agent called tools and its loop goes on.
AgentTurn(r) ==
    /\ pc[r] \in Agents
    /\ turn[r] < MaxAgentTurns
    /\ turn' = [turn EXCEPT ![r] = @ + 1]
    /\ UNCHANGED <<shouldAbort, pc, worked, attempt, latest, found, plan, disk>>

\* The abort checks before there is a plan, and those that abandon it.
StopEarly(r) ==
    /\ shouldAbort
    /\ Goto(r, "aborted")
    /\ UNCHANGED <<localVars, plan, disk>>

Abandon(r) ==
    /\ shouldAbort
    /\ \/ Save(r, WithStatus(plan[r], "abandoned")) /\ Goto(r, "aborted") /\ UNCHANGED localVars
       \/ SaveRaises(r, WithStatus(plan[r], "abandoned"), plan[r])

\* An agent ends by its own account, out of turns, or with an API error, which the
\* pipeline takes for an empty text.
OracleEnds(r) ==
    /\ pc[r] = "oracle"
    /\ \/ StopEarly(r)
       \/ /\ ~shouldAbort
          /\ Hire(r, "metis")
          /\ UNCHANGED <<attempt, latest, found, plan, disk>>
    /\ UNCHANGED shouldAbort

\* The plan is created as a draft and made active: two writes.
MetisEnds(r) ==
    LET draft == WithStatus(NoPlan, "draft")
        active == WithStatus(NoPlan, "active")
    IN
    /\ pc[r] = "metis"
    /\ \/ StopEarly(r)
       \/ ~shouldAbort /\ (SaveRaises(r, draft, NoPlan) \/ SaveRaises(r, active, draft))
       \/ /\ ~shouldAbort
          /\ Save(r, active)
          /\ Goto(r, "planned")
          /\ UNCHANGED localVars
    /\ UNCHANGED shouldAbort

\* Mutant: sisyphus starts while the plan's file still says active.
ExecuteUnsaved(r) ==
    /\ pc[r] = "planned"
    /\ plan' = [plan EXCEPT ![r].status = "executing"]
    /\ Hire(r, "sisyphus")
    /\ UNCHANGED <<shouldAbort, attempt, latest, found, disk>>

\* The plan is executing, and sisyphus begins to change the working directory.
Execute(r) ==
    LET p == WithStatus(plan[r], "executing") IN
    /\ pc[r] = "planned"
    /\ \/ Save(r, p) /\ Hire(r, "sisyphus") /\ UNCHANGED <<attempt, latest, found>>
       \/ SaveRaises(r, p, plan[r])
    /\ UNCHANGED shouldAbort

SisyphusEnds(r) ==
    /\ pc[r] = "sisyphus"
    /\ \/ Abandon(r)
       \/ ~shouldAbort /\ Goto(r, "executed") /\ UNCHANGED <<localVars, plan, disk>>
    /\ UNCHANGED shouldAbort

\* The head of the verify loop's iteration n; p is the plan as it is then, saved.
VerifyNext(r, p, n) ==
    \/ /\ shouldAbort
       /\ \/ Save(r, WithStatus(p, "abandoned")) /\ Goto(r, "aborted") /\ UNCHANGED localVars
          \/ SaveRaises(r, WithStatus(p, "abandoned"), p)
    \/ /\ ~shouldAbort
       /\ Save(r, p)
       /\ Hire(r, "momus")
       /\ attempt' = [attempt EXCEPT ![r] = n]
       /\ UNCHANGED <<latest, found>>

\* The plan is verifying and the verify loop is entered.
Verify(r) ==
    LET p == WithStatus(plan[r], "verifying") IN
    /\ pc[r] = "executed"
    /\ VerifyNext(r, p, 1) \/ SaveRaises(r, p, plan[r])
    /\ UNCHANGED shouldAbort

\* The verification reports no issue, or nothing the pipeline recognises as one.
MomusPasses(r) ==
    /\ pc[r] = "momus"
    /\ Goto(r, "verified")
    /\ UNCHANGED <<shouldAbort, localVars, plan, disk>>

\* n issues join all_issues and the plan; then the fixer, unless it was the last attempt.
MomusFinds(r, n) ==
    LET p == WithAttempt(plan[r], n) IN
    /\ pc[r] = "momus"
    /\ \/ /\ latest' = [latest EXCEPT ![r] = n]
          /\ found' = [found EXCEPT ![r] = @ + n]
          /\ Save(r, p)
          /\ \/ attempt[r] = MaxFixAttempts /\ Goto(r, "exhausted") /\ UNCHANGED <<turn, worked>>
             \/ attempt[r] < MaxFixAttempts /\ Hire(r, "fixer")
          /\ UNCHANGED attempt
       \/ SaveRaises(r, p, plan[r])
    /\ UNCHANGED shouldAbort

\* Mutant: the round after a fix begins without a look at the flag.
FixerEndsUnchecked(r) ==
    /\ pc[r] = "fixer"
    /\ Save(r, plan[r])
    /\ Hire(r, "momus")
    /\ attempt' = [attempt EXCEPT ![r] = @ + 1]
    /\ UNCHANGED <<shouldAbort, latest, found>>

\* No abort check precedes the fixer, one follows it.
FixerEnds(r) ==
    /\ pc[r] = "fixer"
    /\ VerifyNext(r, plan[r], attempt[r] + 1)
    /\ UNCHANGED shouldAbort

\* The attempts are used up: the plan has failed, and the pipeline goes on.
GiveUp(r) ==
    LET p == GivenUp(plan[r], latest[r]) IN
    /\ pc[r] = "exhausted"
    /\ \/ Save(r, p) /\ Goto(r, "verified") /\ UNCHANGED localVars
       \/ SaveRaises(r, p, plan[r])
    /\ UNCHANGED shouldAbort

\* Mutant: the check behind the loop returns without a word to the PlanStore.
AuditWithoutAbandon(r) ==
    /\ pc[r] = "verified"
    /\ \/ StopEarly(r)
       \/ ~shouldAbort /\ Hire(r, "sentinel") /\ UNCHANGED <<attempt, latest, found, plan, disk>>
    /\ UNCHANGED shouldAbort

\* The last abort check, then sentinel.
Audit(r) ==
    /\ pc[r] = "verified"
    /\ \/ Abandon(r)
       \/ ~shouldAbort /\ Hire(r, "sentinel") /\ UNCHANGED <<attempt, latest, found, plan, disk>>
    /\ UNCHANGED shouldAbort

\* After sentinel the plan is completed, whatever the abort flag and the plan's status say.
SentinelEnds(r) ==
    LET p == Completed(plan[r], Score(found[r])) IN
    /\ pc[r] = "sentinel"
    /\ \/ Save(r, p) /\ Goto(r, "complete") /\ UNCHANGED localVars
       \/ SaveRaises(r, p, plan[r])
    /\ UNCHANGED shouldAbort

-----------------------------------------------------------------------------
Step(r) ==
    \/ AgentTurn(r)
    \/ OracleEnds(r) \/ MetisEnds(r) \/ Execute(r) \/ SisyphusEnds(r) \/ Verify(r)
    \/ MomusPasses(r) \/ (\E n \in 1..MaxIssues : MomusFinds(r, n)) \/ FixerEnds(r)
    \/ GiveUp(r) \/ Audit(r) \/ SentinelEnds(r) \/ Raises(r)

Next ==
    \/ \E r \in Pipelines : Start(r) \/ Step(r) \/ Cancel(r)
    \/ RaiseAbort
    \/ Restart

Spec == Init /\ [][Next]_vars

\* Every agent's model calls end (the clients have timeouts), so a pipeline goes on.
FairSpec == Spec /\ \A r \in Pipelines : WF_vars(Step(r))

-----------------------------------------------------------------------------
TypeOK ==
    /\ shouldAbort \in BOOLEAN
    /\ pc \in [Pipelines -> {"none"} \cup Agents \cup Pauses \cup Ends]
    /\ turn \in [Pipelines -> 0..MaxAgentTurns]
    /\ worked \in [Pipelines -> SUBSET Agents]
    /\ attempt \in [Pipelines -> 0..MaxFixAttempts]
    /\ latest \in [Pipelines -> 0..MaxIssues]
    /\ found \in [Pipelines -> Nat]
    /\ plan \in [Pipelines -> Plans]
    /\ disk \in [Pipelines -> Plans]

\* What a plan p tells of the agents w that its pipeline has run: from the executor on it
\* is executing or further, and once the fixer has run it counts an attempt.
Tells(p, w) ==
    \/ w \subseteq {"oracle", "metis"}
    \/ /\ p.status \notin {"none", "draft", "active"}
       /\ "fixer" \in w => p.attempts >= 1

FileTells(r) ==
    \/ Tells(disk[r], worked[r])
    \/ pc[r] = "raised" /\ disk[r] = NoPlan

\* However a pipeline has been stopped, its plan's file tells what was done by the executor
\* and the agents after it; or a write of it failed half-way, which no pipeline survives.
\* What oracle and metis changed before there was a plan, no file tells.
ChangesAreCheckpointed == \A r \in Pipelines : FileTells(r)

\* A plan is completed with a full score exactly if no verification of it ever found an
\* issue; what the fixer repaired is not forgotten, in memory or on disk.
FullScoreIffClean ==
    \A r \in Pipelines : \A p \in {plan[r], disk[r]} :
        p.status = "completed" => (p.score = 10 <=> p.issues = 0)

\* Whichever of the abort checks stops a pipeline, its plan, if it has one, is abandoned,
\* in memory and on disk, and stays it.
AbortsAreRecorded ==
    \A r \in Pipelines : pc[r] = "aborted" =>
        /\ plan[r].status \in {"none", "abandoned"}
        /\ disk[r].status = plan[r].status

\* An abort outlasts no more than one further agent of a pipeline: once the flag is up only
\* sisyphus and the fixer are still started, which no check precedes and one follows.
AbortEndsRounds ==
    [][\A r \in Pipelines :
           shouldAbort /\ shouldAbort' /\ pc'[r] \in Agents \ {pc[r]} => pc'[r] \in {"sisyphus", "fixer"}]_vars

\* A failed plan has used up its attempts, and each of them found something.
FailedIsExhausted ==
    \A r \in Pipelines : plan[r].status = "failed" =>
        plan[r].attempts = MaxFixAttempts /\ plan[r].issues > MaxFixAttempts

\* Every pipeline ends, however often its verifier finds issues and its agents call tools.
PipelineEnds == \A r \in Pipelines : (pc[r] = "oracle") ~> (pc[r] \in Ends)

-----------------------------------------------------------------------------
(* What the invariants above need besides themselves to be inductive. *)

\* A plan as it stands in memory or on disk.
PlanSound(p) ==
    /\ p.status = "completed" => (p.score = 10 <=> p.issues = 0)
    /\ p.status = "failed" => p.attempts = MaxFixAttempts /\ p.issues > MaxFixAttempts

\* The plan of a pipeline at each of its stages, and what its locals know of it.
StageSound(r) ==
    LET p == plan[r] IN
    /\ pc[r] = "none" \/ Running(r) => disk[r] = p
    /\ pc[r] \in {"none", "oracle", "metis"} => p = NoPlan /\ found[r] = 0
    /\ pc[r] = "planned" => p = WithStatus(NoPlan, "active") /\ found[r] = 0
    /\ pc[r] \in {"sisyphus", "executed"} => p = WithStatus(NoPlan, "executing") /\ found[r] = 0
    /\ pc[r] \in {"momus", "fixer", "exhausted"} =>
           /\ p.status = "verifying"
           /\ attempt[r] >= 1
           /\ found[r] = p.issues
           /\ p.issues >= p.attempts
    /\ pc[r] = "momus" => p.attempts = attempt[r] - 1
    /\ pc[r] = "fixer" => p.attempts = attempt[r] /\ attempt[r] < MaxFixAttempts
    /\ pc[r] = "exhausted" => p.attempts = MaxFixAttempts /\ latest[r] >= 1
    /\ pc[r] \in {"verified", "sentinel"} =>
           /\ p.status \in {"verifying", "failed"}
           /\ (found[r] = 0 <=> p.issues = 0)
    /\ pc[r] = "aborted" => p.status \in {"none", "abandoned"} /\ disk[r].status = p.status

PlansSound ==
    \A r \in Pipelines : PlanSound(plan[r]) /\ PlanSound(disk[r]) /\ StageSound(r)

\* Before the plan executes, only oracle and metis have run.
FilesSound ==
    \A r \in Pipelines :
        /\ FileTells(r)
        /\ pc[r] \in {"none", "oracle", "metis", "planned"} => worked[r] \subseteq {"oracle", "metis"}

=============================================================================
