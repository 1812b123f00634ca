-------------------------- MODULE TeamPipeline_proofs --------------------------
(* Proofs about TeamPipeline, for any number of pipelines, attempts and issues. *)
EXTENDS TeamPipeline, TLAPS

Inv == TypeOK /\ PlansSound

\* The types of what a pipeline knows of its agents.
AgentsTyped ==
    /\ turn \in [Pipelines -> 0..MaxAgentTurns]
    /\ worked \in [Pipelines -> SUBSET Agents]

-----------------------------------------------------------------------------
(* The PlanStore's operators keep a plan a plan. *)

\* A plan keeps its type when its status changes.
LEMMA WithStatusType ==
    ASSUME NEW p \in Plans, NEW s \in Statuses
    PROVE  /\ WithStatus(p, s) \in Plans
           /\ WithStatus(p, s).status = s
           /\ WithStatus(p, s).attempts = p.attempts
           /\ WithStatus(p, s).issues = p.issues
           /\ WithStatus(p, s).score = p.score
  BY DEF WithStatus, Plans

\* A recorded attempt adds one to fix_attempts and n to the issues.
LEMMA WithAttemptType ==
    ASSUME NEW p \in Plans, NEW n \in Nat, p.attempts < MaxFixAttempts
    PROVE  /\ WithAttempt(p, n) \in Plans
           /\ WithAttempt(p, n).status = p.status
           /\ WithAttempt(p, n).attempts = p.attempts + 1
           /\ WithAttempt(p, n).issues = p.issues + n
  BY PipelineAssumption DEF WithAttempt, Plans

\* A plan that is given up has failed, with the last issues counted again.
LEMMA GivenUpType ==
    ASSUME NEW p \in Plans, NEW n \in Nat
    PROVE  /\ GivenUp(p, n) \in Plans
           /\ GivenUp(p, n).status = "failed"
           /\ GivenUp(p, n).attempts = p.attempts
           /\ GivenUp(p, n).issues = p.issues + n
  BY DEF GivenUp, Plans, Statuses

\* A completed plan has the score it is given.
LEMMA CompletedType ==
    ASSUME NEW p \in Plans, NEW s \in 0..10
    PROVE  /\ Completed(p, s) \in Plans
           /\ Completed(p, s).status = "completed"
           /\ Completed(p, s).attempts = p.attempts
           /\ Completed(p, s).issues = p.issues
           /\ Completed(p, s).score = s
  BY DEF Completed, Plans, Statuses

\* Only a task without issues scores ten.
LEMMA ScoreType ==
    ASSUME NEW n \in Nat
    PROVE  Score(n) \in 0..10 /\ (Score(n) = 10 <=> n = 0)
  BY DEF Score

\* The empty plan is a plan.
LEMMA NoPlanType == NoPlan \in Plans
  BY PipelineAssumption DEF NoPlan, Plans, Statuses

-----------------------------------------------------------------------------
(* Initial states and steps that leave the plans alone. *)

\* The invariant of one pipeline, its plans included.
Sound(r) == PlanSound(plan[r]) /\ PlanSound(disk[r]) /\ StageSound(r)

\* The invariant holds initially.
LEMMA InitInv == Init => Inv
  <1> SUFFICES ASSUME Init PROVE Inv
    OBVIOUS
  <1> USE NoPlanType DEF Init
  <1>1. TypeOK
    <2>1. 0 \in 0..MaxAgentTurns /\ 0 \in 0..MaxFixAttempts /\ 0 \in 0..MaxIssues /\ 0 \in Nat
      BY PipelineAssumption
    <2>2. shouldAbort \in BOOLEAN /\ pc \in [Pipelines -> {"none"} \cup Agents \cup Pauses \cup Ends]
      OBVIOUS
    <2>3. plan \in [Pipelines -> Plans] /\ disk \in [Pipelines -> Plans]
      OBVIOUS
    <2>4. /\ turn \in [Pipelines -> 0..MaxAgentTurns]
          /\ attempt \in [Pipelines -> 0..MaxFixAttempts]
          /\ latest \in [Pipelines -> 0..MaxIssues]
          /\ found \in [Pipelines -> Nat]
      BY <2>1
    <2>5. QED
      BY <2>2, <2>3, <2>4 DEF TypeOK
  <1>2. PlansSound
    <2> SUFFICES ASSUME NEW r \in Pipelines PROVE Sound(r)
      BY DEF PlansSound, Sound
    <2>1. pc[r] = "none" /\ found[r] = 0 /\ plan[r] = NoPlan /\ disk[r] = NoPlan
      OBVIOUS
    <2>2. NoPlan.status = "none"
      BY DEF NoPlan
    <2> HIDE DEF Init
    <2>3. PlanSound(plan[r]) /\ PlanSound(disk[r])
      BY <2>1, <2>2 DEF PlanSound
    <2>4. StageSound(r)
      BY <2>1 DEF StageSound, Running, Agents, Pauses
    <2>5. QED
      BY <2>3, <2>4 DEF Sound
  <1>3. QED
    BY <1>1, <1>2 DEF Inv

\* A pipeline whose variables do not change stays sound, whatever the abort flag does.
LEMMA OthersSound ==
    ASSUME NEW r \in Pipelines, Sound(r),
           pc'[r] = pc[r], attempt'[r] = attempt[r], latest'[r] = latest[r],
           found'[r] = found[r], plan'[r] = plan[r], disk'[r] = disk[r]
    PROVE  Sound(r)'
  BY DEF Sound, PlanSound, StageSound, Running

\* So does one that stops with its plan, if any, as good in memory and on disk.
LEMMA StoppedSound ==
    ASSUME NEW r \in Pipelines, pc'[r] \in Ends \ {"aborted"},
           PlanSound(plan'[r]), PlanSound(disk'[r])
    PROVE  Sound(r)'
  BY DEF Sound, PlanSound, StageSound, Running, Ends, Agents, Pauses

\* Every pipeline but r is as it was.
Only(r) ==
    \A q \in Pipelines \ {r} :
        /\ pc'[q] = pc[q]
        /\ attempt'[q] = attempt[q]
        /\ latest'[q] = latest[q]
        /\ found'[q] = found[q]
        /\ plan'[q] = plan[q]
        /\ disk'[q] = disk[q]

\* A step of one pipeline has only that one to keep sound.
LEMMA StepInv ==
    ASSUME Inv, NEW r \in Pipelines, TypeOK', Only(r), Sound(r)'
    PROVE  Inv'
  <1>1. \A q \in Pipelines : Sound(q)'
    <2> SUFFICES ASSUME NEW q \in Pipelines, q # r PROVE Sound(q)'
      OBVIOUS
    <2>1. Sound(q)
      BY DEF Inv, PlansSound, Sound
    <2>2. QED
      BY <2>1, OthersSound DEF Only
  <1>2. QED
    BY <1>1 DEF Inv, PlansSound, Sound

\* What a pipeline's program counter, turn and plan are after a step that sets them.
LEMMA GotoEq ==
    ASSUME TypeOK, NEW r \in Pipelines, NEW l \in {"none"} \cup Agents \cup Pauses \cup Ends,
           Goto(r, l)
    PROVE  /\ pc' \in [Pipelines -> {"none"} \cup Agents \cup Pauses \cup Ends]
           /\ pc'[r] = l
           /\ \A q \in Pipelines \ {r} : pc'[q] = pc[q]
  BY DEF TypeOK, Goto

\* What they are after it hands over to an agent.
LEMMA HireEq ==
    ASSUME TypeOK, NEW r \in Pipelines, NEW a \in Agents, Hire(r, a)
    PROVE  /\ pc' \in [Pipelines -> {"none"} \cup Agents \cup Pauses \cup Ends]
           /\ pc'[r] = a
           /\ \A q \in Pipelines \ {r} : pc'[q] = pc[q]
           /\ AgentsTyped'
  <1>1. Goto(r, a) /\ turn' = [turn EXCEPT ![r] = 1] /\ worked' = [worked EXCEPT ![r] = @ \cup {a}]
    BY DEF Hire
  <1>2. AgentsTyped'
    BY <1>1, PipelineAssumption DEF TypeOK, AgentsTyped
  <1>3. QED
    BY <1>1, <1>2, GotoEq

\* A successful write changes one plan, in memory and on disk alike.
LEMMA SaveEq ==
    ASSUME TypeOK, NEW r \in Pipelines, NEW p \in Plans, Save(r, p)
    PROVE  /\ plan' \in [Pipelines -> Plans]
           /\ disk' \in [Pipelines -> Plans]
           /\ plan'[r] = p
           /\ disk'[r] = p
           /\ \A q \in Pipelines \ {r} : plan'[q] = plan[q] /\ disk'[q] = disk[q]
  BY DEF TypeOK, Save

\* A failing write ends the pipeline with sound plans, whichever plan its file holds.
LEMMA SaveRaisesInv ==
    ASSUME Inv, NEW r \in Pipelines, NEW p \in Plans, NEW q \in Plans,
           PlanSound(p), PlanSound(q), SaveRaises(r, p, q), UNCHANGED shouldAbort
    PROVE  Inv'
  <1>1. /\ plan' = [plan EXCEPT ![r] = p]
        /\ Goto(r, "raised")
        /\ UNCHANGED <<turn, worked, attempt, latest, found>>
    BY DEF SaveRaises, localVars
  <1>2. PICK f \in {q, NoPlan} : disk' = [disk EXCEPT ![r] = f]
    BY DEF SaveRaises
  <1>3. f \in Plans /\ PlanSound(f)
    BY NoPlanType DEF PlanSound, NoPlan
  <1>4. TypeOK
    BY DEF Inv
  <1>5. /\ pc' \in [Pipelines -> {"none"} \cup Agents \cup Pauses \cup Ends]
        /\ pc'[r] = "raised"
        /\ \A o \in Pipelines \ {r} : pc'[o] = pc[o]
    BY <1>1, <1>4, GotoEq DEF Ends
  <1>6. TypeOK'
    BY <1>1, <1>2, <1>3, <1>4, <1>5 DEF TypeOK, AgentsTyped
  <1>7. Only(r)
    BY <1>1, <1>2, <1>4, <1>5 DEF Only, TypeOK
  <1>8. plan'[r] = p /\ disk'[r] = f
    BY <1>1, <1>2, <1>4 DEF TypeOK
  <1>9. Sound(r)'
    BY <1>3, <1>5, <1>8, StoppedSound DEF Ends
  <1>10. QED
    BY <1>6, <1>7, <1>9, StepInv


-----------------------------------------------------------------------------
(* The steps, one lemma for each group of actions. *)

\* A pipeline stops, or is stopped, at a point where its plan needs no word about it.
LEMMA EndsInv ==
    ASSUME Inv, NEW r \in Pipelines, NEW e \in Ends \ {"aborted"}, Goto(r, e),
           UNCHANGED <<turn, worked, attempt, latest, found, plan, disk>>, shouldAbort' \in BOOLEAN
    PROVE  Inv'
  <1>1. TypeOK /\ PlanSound(plan[r]) /\ PlanSound(disk[r])
    BY DEF Inv, PlansSound
  <1>2. /\ pc' \in [Pipelines -> {"none"} \cup Agents \cup Pauses \cup Ends]
        /\ pc'[r] = e
        /\ \A o \in Pipelines \ {r} : pc'[o] = pc[o]
    BY <1>1, GotoEq
  <1>3. TypeOK'
    BY <1>1, <1>2 DEF TypeOK
  <1>4. Only(r)
    BY <1>2 DEF Only
  <1>5. Sound(r)'
    BY <1>1, <1>2, StoppedSound
  <1>6. QED
    BY <1>3, <1>4, <1>5, StepInv

\* A cancelled pipeline leaves a sound plan, whatever status it has then.
LEMMA CancelInv == ASSUME Inv, NEW r \in Pipelines, Cancel(r) PROVE Inv'
  BY EndsInv DEF Cancel, Ends, localVars

\* So does one that an exception ends.
LEMMA RaisesInv == ASSUME Inv, NEW r \in Pipelines, Raises(r) PROVE Inv'
  <1>1. shouldAbort \in BOOLEAN
    BY DEF Inv, TypeOK
  <1>2. QED
    BY <1>1, EndsInv DEF Raises, Ends, localVars

\* The abort flag alone disturbs nothing.
LEMMA RaiseAbortInv == ASSUME Inv, RaiseAbort PROVE Inv'
  <1>1. UNCHANGED <<pc, turn, worked, attempt, latest, found, plan, disk>> /\ shouldAbort' = TRUE
    BY DEF RaiseAbort, localVars
  <1>2. TypeOK'
    BY <1>1 DEF Inv, TypeOK
  <1>3. PlansSound'
    BY <1>1 DEF Inv, PlansSound, PlanSound, StageSound, Running
  <1>4. QED
    BY <1>2, <1>3 DEF Inv

\* Nor does a restart: a running pipeline's plan is its file's, and the others' files are
\* sound.
LEMMA RestartInv == ASSUME Inv, Restart PROVE Inv'
  <1>1. TypeOK /\ UNCHANGED <<turn, worked, attempt, latest, found, disk>> /\ plan' = disk
        /\ shouldAbort' = FALSE /\ pc' = [r \in Pipelines |-> IF Running(r) THEN "killed" ELSE pc[r]]
    BY DEF Restart, localVars, Inv
  <1>2. TypeOK'
    BY <1>1 DEF TypeOK, Ends
  <1>3. ASSUME NEW r \in Pipelines PROVE Sound(r)'
    <2>1. Sound(r) /\ disk'[r] = disk[r] /\ plan'[r] = disk[r]
      BY <1>1 DEF Inv, PlansSound, Sound
    <2>2. CASE Running(r)
      <3>1. pc'[r] = "killed"
        BY <1>1, <2>2
      <3>2. QED
        BY <2>1, <3>1, StoppedSound DEF Sound, Ends
    <2>3. CASE ~Running(r)
      <3>1. pc'[r] = pc[r] /\ found'[r] = found[r]
        BY <1>1, <2>3
      <3>2. QED
        BY <2>1, <2>3, <3>1 DEF Sound, PlanSound, StageSound, Running, Agents, Pauses
    <2>4. QED
      BY <2>2, <2>3
  <1>4. QED
    BY <1>2, <1>3 DEF Inv, PlansSound, Sound

\* What is known of a running pipeline before its step.
LEMMA Before ==
    ASSUME Inv, NEW r \in Pipelines
    PROVE  /\ TypeOK
           /\ plan[r] \in Plans /\ disk[r] \in Plans /\ NoPlan \in Plans
           /\ attempt[r] \in 0..MaxFixAttempts /\ latest[r] \in 0..MaxIssues /\ found[r] \in Nat
           /\ PlanSound(plan[r]) /\ PlanSound(disk[r]) /\ PlanSound(NoPlan)
           /\ StageSound(r)
  BY NoPlanType DEF Inv, TypeOK, PlansSound, PlanSound, NoPlan

\* A plan that is neither completed nor failed is sound.
LEMMA WithStatusSound ==
    ASSUME NEW p \in Plans, NEW s \in Statuses \ {"completed", "failed"}
    PROVE  WithStatus(p, s) \in Plans /\ PlanSound(WithStatus(p, s))
  BY WithStatusType DEF PlanSound

\* A pipeline that moves on without writing its plan keeps it.
LEMMA MoveInv ==
    ASSUME Inv, NEW r \in Pipelines, NEW l \in {"none"} \cup Agents \cup Pauses \cup Ends,
           Goto(r, l), AgentsTyped',
           UNCHANGED <<attempt, latest, found, plan, disk>>, shouldAbort' \in BOOLEAN,
           pc'[r] = l => StageSound(r)'
    PROVE  Inv'
  <1>1. TypeOK /\ PlanSound(plan[r]) /\ PlanSound(disk[r])
    BY Before
  <1>2. /\ pc' \in [Pipelines -> {"none"} \cup Agents \cup Pauses \cup Ends]
        /\ pc'[r] = l
        /\ \A o \in Pipelines \ {r} : pc'[o] = pc[o]
    BY <1>1, GotoEq
  <1>3. TypeOK'
    BY <1>1, <1>2 DEF TypeOK, AgentsTyped
  <1>4. Only(r)
    BY <1>2 DEF Only
  <1>5. Sound(r)'
    BY <1>1, <1>2 DEF Sound, PlanSound
  <1>6. QED
    BY <1>3, <1>4, <1>5, StepInv

\* A pipeline that writes its plan has the new one in memory and on disk.
LEMMA WriteInv ==
    ASSUME Inv, NEW r \in Pipelines, NEW l \in {"none"} \cup Agents \cup Pauses \cup Ends,
           NEW p \in Plans, PlanSound(p), Save(r, p), Goto(r, l),
           AgentsTyped',
           attempt' \in [Pipelines -> 0..MaxFixAttempts],
           latest' \in [Pipelines -> 0..MaxIssues],
           found' \in [Pipelines -> Nat],
           \A q \in Pipelines \ {r} :
               attempt'[q] = attempt[q] /\ latest'[q] = latest[q] /\ found'[q] = found[q],
           UNCHANGED shouldAbort,
           pc'[r] = l /\ plan'[r] = p /\ disk'[r] = p => StageSound(r)'
    PROVE  Inv'
  <1>1. TypeOK
    BY Before
  <1>2. /\ pc' \in [Pipelines -> {"none"} \cup Agents \cup Pauses \cup Ends]
        /\ pc'[r] = l
        /\ \A o \in Pipelines \ {r} : pc'[o] = pc[o]
    BY <1>1, GotoEq
  <1>3. /\ plan' \in [Pipelines -> Plans]
        /\ disk' \in [Pipelines -> Plans]
        /\ plan'[r] = p
        /\ disk'[r] = p
        /\ \A q \in Pipelines \ {r} : plan'[q] = plan[q] /\ disk'[q] = disk[q]
    BY <1>1, SaveEq
  <1>4. TypeOK'
    BY <1>1, <1>2, <1>3 DEF TypeOK, AgentsTyped
  <1>5. Only(r)
    BY <1>2, <1>3 DEF Only
  <1>6. Sound(r)'
    BY <1>2, <1>3 DEF Sound, PlanSound
  <1>7. QED
    BY <1>4, <1>5, <1>6, StepInv

\* The turn counter of an agent that is hired.
LEMMA HireMoves ==
    ASSUME Inv, NEW r \in Pipelines, NEW a \in Agents, Hire(r, a)
    PROVE  Goto(r, a) /\ AgentsTyped'
  BY Before, HireEq DEF Hire

\* A pipeline starts without a plan.
LEMMA StartInv == ASSUME Inv, NEW r \in Pipelines, Start(r) PROVE Inv'
  <1>1. /\ pc[r] = "none" /\ shouldAbort' = FALSE /\ Hire(r, "oracle")
        /\ UNCHANGED <<attempt, latest, found, plan, disk>>
    BY DEF Start
  <1>2. pc'[r] = "oracle" => StageSound(r)'
    BY <1>1, Before DEF StageSound, Running, Agents, Pauses
  <1>3. QED
    BY <1>1, <1>2, HireMoves, MoveInv DEF Agents

\* The model calls of an agent touch no plan, and are bounded.
LEMMA AgentTurnInv == ASSUME Inv, NEW r \in Pipelines, AgentTurn(r) PROVE Inv'
  <1>1. /\ UNCHANGED <<shouldAbort, pc, worked, attempt, latest, found, plan, disk>>
        /\ turn[r] < MaxAgentTurns /\ turn' = [turn EXCEPT ![r] = @ + 1]
    BY DEF AgentTurn
  <1>2. TypeOK
    BY Before
  <1>3. AgentsTyped'
    BY <1>1, <1>2, PipelineAssumption DEF TypeOK, AgentsTyped
  <1>4. TypeOK'
    BY <1>1, <1>2, <1>3 DEF TypeOK, AgentsTyped
  <1>5. PlansSound'
    BY <1>1 DEF Inv, PlansSound, PlanSound, StageSound, Running
  <1>6. QED
    BY <1>4, <1>5 DEF Inv

\* The early abort checks stop a pipeline that has no plan yet.
LEMMA StopEarlyInv ==
    ASSUME Inv, NEW r \in Pipelines, pc[r] \in {"oracle", "metis"}, StopEarly(r),
           UNCHANGED shouldAbort
    PROVE  Inv'
  <1>1. Goto(r, "aborted") /\ UNCHANGED <<turn, worked, attempt, latest, found, plan, disk>>
    BY DEF StopEarly, localVars
  <1>2. pc'[r] = "aborted" => StageSound(r)'
    BY <1>1, Before DEF StageSound, Running, Agents, Pauses, NoPlan
  <1>3. QED
    BY <1>1, <1>2, Before, MoveInv DEF Ends, TypeOK, AgentsTyped

\* A plan that an abort check abandons is abandoned in memory and on disk.
LEMMA AbandonedInv ==
    ASSUME Inv, NEW r \in Pipelines, NEW p \in Plans, PlanSound(p), UNCHANGED shouldAbort,
           \/ /\ Save(r, WithStatus(p, "abandoned"))
              /\ Goto(r, "aborted")
              /\ UNCHANGED localVars
           \/ SaveRaises(r, WithStatus(p, "abandoned"), p)
    PROVE  Inv'
  <1> DEFINE a == WithStatus(p, "abandoned")
  <1>1. a \in Plans /\ PlanSound(a) /\ a.status = "abandoned"
    BY WithStatusSound, WithStatusType DEF Statuses
  <1> HIDE DEF a
  <1>2. CASE Save(r, a) /\ Goto(r, "aborted") /\ UNCHANGED localVars
    <2>1. UNCHANGED <<turn, worked, attempt, latest, found>>
      BY <1>2 DEF localVars
    <2>2. pc'[r] = "aborted" /\ plan'[r] = a /\ disk'[r] = a => StageSound(r)'
      BY <1>1 DEF StageSound, Running, Agents, Pauses
    <2>3. QED
      BY <1>1, <1>2, <2>1, <2>2, Before, WriteInv DEF Ends, TypeOK, AgentsTyped
  <1>3. CASE SaveRaises(r, a, p)
    BY <1>1, <1>3, SaveRaisesInv
  <1>4. QED
    BY <1>2, <1>3 DEF a

\* The abort checks behind the creation of the plan leave it abandoned.
LEMMA AbandonInv == ASSUME Inv, NEW r \in Pipelines, Abandon(r), UNCHANGED shouldAbort PROVE Inv'
  BY Before, AbandonedInv DEF Abandon

\* After oracle there is still no plan.
LEMMA OracleEndsInv == ASSUME Inv, NEW r \in Pipelines, OracleEnds(r) PROVE Inv'
  <1>1. pc[r] = "oracle" /\ UNCHANGED shouldAbort
    BY DEF OracleEnds
  <1>2. CASE StopEarly(r)
    BY <1>1, <1>2, StopEarlyInv
  <1>3. CASE Hire(r, "metis") /\ UNCHANGED <<attempt, latest, found, plan, disk>>
    <2>1. pc'[r] = "metis" => StageSound(r)'
      BY <1>1, <1>3, Before DEF StageSound, Running, Agents, Pauses
    <2>2. QED
      BY <1>1, <1>3, <2>1, Before, HireMoves, MoveInv DEF Agents, TypeOK
  <1>4. QED
    BY <1>2, <1>3 DEF OracleEnds

\* After metis the plan is active, or one of its two first writes failed.
LEMMA MetisEndsInv == ASSUME Inv, NEW r \in Pipelines, MetisEnds(r) PROVE Inv'
  <1> DEFINE draft == WithStatus(NoPlan, "draft")
             active == WithStatus(NoPlan, "active")
  <1>1. pc[r] = "metis" /\ UNCHANGED shouldAbort
    BY DEF MetisEnds
  <1>2. draft \in Plans /\ PlanSound(draft) /\ active \in Plans /\ PlanSound(active)
    BY NoPlanType, WithStatusSound DEF Statuses
  <1>3. active.status = "active"
    BY NoPlanType, WithStatusType DEF Statuses
  <1>4. active = WithStatus(NoPlan, "active")
    OBVIOUS
  <1> HIDE DEF draft, active
  <1>5. CASE StopEarly(r)
    BY <1>1, <1>5, StopEarlyInv
  <1>6. CASE SaveRaises(r, draft, NoPlan) \/ SaveRaises(r, active, draft)
    BY <1>1, <1>2, <1>6, Before, SaveRaisesInv
  <1>7. CASE Save(r, active) /\ Goto(r, "planned") /\ UNCHANGED localVars
    <2>1. UNCHANGED <<turn, worked, attempt, latest, found>>
      BY <1>7 DEF localVars
    <2>2. found[r] = 0
      BY <1>1, Before DEF StageSound
    <2>3. pc'[r] = "planned" /\ plan'[r] = active /\ disk'[r] = active => StageSound(r)'
      BY <1>4, <2>1, <2>2 DEF StageSound, Running, Agents, Pauses
    <2>4. QED
      BY <1>1, <1>2, <1>7, <2>1, <2>3, Before, WriteInv DEF Pauses, TypeOK, AgentsTyped
  <1>8. QED
    BY <1>5, <1>6, <1>7 DEF MetisEnds, draft, active

\* The plan executes before sisyphus does.
LEMMA ExecuteInv == ASSUME Inv, NEW r \in Pipelines, Execute(r) PROVE Inv'
  <1> DEFINE p == WithStatus(plan[r], "executing")
  <1>1. pc[r] = "planned" /\ UNCHANGED shouldAbort
    BY DEF Execute
  <1>2. p \in Plans /\ PlanSound(p)
    BY Before, WithStatusSound DEF Statuses
  <1>3. found[r] = 0 /\ p = WithStatus(NoPlan, "executing")
    BY <1>1, Before DEF StageSound, WithStatus, NoPlan
  <1>4. p.status = "executing"
    BY Before, WithStatusType DEF Statuses
  <1> HIDE DEF p
  <1>5. CASE SaveRaises(r, p, plan[r])
    BY <1>1, <1>2, <1>5, Before, SaveRaisesInv
  <1>6. CASE Save(r, p) /\ Hire(r, "sisyphus") /\ UNCHANGED <<attempt, latest, found>>
    <2>1. pc'[r] = "sisyphus" /\ plan'[r] = p /\ disk'[r] = p => StageSound(r)'
      BY <1>3, <1>4, <1>6 DEF StageSound, Running, Agents, Pauses
    <2>2. QED
      BY <1>1, <1>2, <1>6, <2>1, Before, HireMoves, WriteInv DEF Agents, TypeOK
  <1>7. QED
    BY <1>5, <1>6 DEF Execute, p

\* After sisyphus the plan is executing or abandoned.
LEMMA SisyphusEndsInv == ASSUME Inv, NEW r \in Pipelines, SisyphusEnds(r) PROVE Inv'
  <1>1. pc[r] = "sisyphus" /\ UNCHANGED shouldAbort
    BY DEF SisyphusEnds
  <1>2. CASE Abandon(r)
    BY <1>1, <1>2, AbandonInv
  <1>3. CASE Goto(r, "executed") /\ UNCHANGED <<localVars, plan, disk>>
    <2>1. UNCHANGED <<turn, worked, attempt, latest, found, plan, disk>>
      BY <1>3 DEF localVars
    <2>2. pc'[r] = "executed" => StageSound(r)'
      BY <1>1, <2>1, Before DEF StageSound, Running, Agents, Pauses
    <2>3. QED
      BY <1>1, <1>3, <2>1, <2>2, Before, MoveInv DEF Pauses, TypeOK, AgentsTyped
  <1>4. QED
    BY <1>2, <1>3 DEF SisyphusEnds

\* Verification n begins after n - 1 attempts, whose issues are all counted.
LEMMA VerifyNextInv ==
    ASSUME Inv, NEW r \in Pipelines, NEW p \in Plans, NEW n \in 1..MaxFixAttempts,
           PlanSound(p), p.status = "verifying", found[r] = p.issues,
           p.attempts = n - 1, p.issues >= p.attempts,
           VerifyNext(r, p, n), UNCHANGED shouldAbort
    PROVE  Inv'
  <1>1. CASE /\ Save(r, p) /\ Hire(r, "momus")
             /\ attempt' = [attempt EXCEPT ![r] = n] /\ UNCHANGED <<latest, found>>
    <2>1. TypeOK /\ n \in 0..MaxFixAttempts
      BY Before, PipelineAssumption
    <2>2. attempt' \in [Pipelines -> 0..MaxFixAttempts] /\ attempt'[r] = n
      BY <1>1, <2>1 DEF TypeOK
    <2>3. pc'[r] = "momus" /\ plan'[r] = p /\ disk'[r] = p => StageSound(r)'
      BY <1>1, <2>2 DEF StageSound, Running, Agents, Pauses
    <2>4. \A q \in Pipelines \ {r} :
              attempt'[q] = attempt[q] /\ latest'[q] = latest[q] /\ found'[q] = found[q]
      BY <1>1, <2>1 DEF TypeOK
    <2>5. latest' \in [Pipelines -> 0..MaxIssues] /\ found' \in [Pipelines -> Nat]
      BY <1>1, <2>1 DEF TypeOK
    <2>6. "momus" \in Agents /\ Goto(r, "momus") /\ AgentsTyped'
      BY <1>1, HireMoves DEF Agents
    <2>7. QED
      BY <1>1, <2>2, <2>3, <2>4, <2>5, <2>6, WriteInv
  <1>2. CASE \/ /\ Save(r, WithStatus(p, "abandoned"))
                /\ Goto(r, "aborted")
                /\ UNCHANGED localVars
             \/ SaveRaises(r, WithStatus(p, "abandoned"), p)
    BY <1>2, AbandonedInv
  <1>3. QED
    BY <1>1, <1>2 DEF VerifyNext

\* The first verification begins with no attempt counted.
LEMMA VerifyInv == ASSUME Inv, NEW r \in Pipelines, Verify(r) PROVE Inv'
  <1> DEFINE p == WithStatus(plan[r], "verifying")
  <1>1. pc[r] = "executed" /\ UNCHANGED shouldAbort
    BY DEF Verify
  <1>2. p \in Plans /\ PlanSound(p)
    BY Before, WithStatusSound DEF Statuses
  <1>3. plan[r] = WithStatus(NoPlan, "executing") /\ found[r] = 0
    BY <1>1, Before DEF StageSound
  <1>4. plan[r].attempts = 0 /\ plan[r].issues = 0
    BY <1>3, NoPlanType, WithStatusType DEF NoPlan, Statuses
  <1>5. p.status = "verifying" /\ p.attempts = 0 /\ p.issues = 0
    BY <1>4, Before, WithStatusType DEF Statuses
  <1> HIDE DEF p
  <1>6. CASE SaveRaises(r, p, plan[r])
    BY <1>1, <1>2, <1>6, Before, SaveRaisesInv
  <1>7. CASE VerifyNext(r, p, 1)
    <2>1. 1 \in 1..MaxFixAttempts /\ 0 = 1 - 1 /\ 0 >= 0
      BY PipelineAssumption
    <2>2. QED
      BY <1>1, <1>2, <1>3, <1>5, <1>7, <2>1, VerifyNextInv
  <1>8. QED
    BY <1>6, <1>7 DEF Verify, p

\* The verification after a fix begins with one more.
LEMMA FixerEndsInv == ASSUME Inv, NEW r \in Pipelines, FixerEnds(r) PROVE Inv'
  <1>1. pc[r] = "fixer" /\ UNCHANGED shouldAbort /\ VerifyNext(r, plan[r], attempt[r] + 1)
    BY DEF FixerEnds
  <1>2. /\ plan[r] \in Plans /\ PlanSound(plan[r]) /\ plan[r].status = "verifying"
        /\ attempt[r] \in 0..MaxFixAttempts
        /\ attempt[r] < MaxFixAttempts
        /\ plan[r].attempts = attempt[r]
        /\ found[r] = plan[r].issues
        /\ plan[r].issues >= plan[r].attempts
    BY <1>1, Before DEF StageSound
  <1>3. attempt[r] + 1 \in 1..MaxFixAttempts /\ attempt[r] = attempt[r] + 1 - 1
    BY <1>2, PipelineAssumption
  <1>4. QED
    BY <1>1, <1>2, <1>3, VerifyNextInv

\* A verification that passes leaves the plan verifying.
LEMMA MomusPassesInv == ASSUME Inv, NEW r \in Pipelines, MomusPasses(r) PROVE Inv'
  <1>1. /\ pc[r] = "momus" /\ Goto(r, "verified")
        /\ UNCHANGED <<shouldAbort, turn, worked, attempt, latest, found, plan, disk>>
    BY DEF MomusPasses, localVars
  <1>2. pc'[r] = "verified" => StageSound(r)'
    BY <1>1, Before DEF StageSound, Running, Agents, Pauses
  <1>3. QED
    BY <1>1, <1>2, Before, MoveInv DEF Pauses, TypeOK, AgentsTyped

\* A verification that finds issues counts itself and all of them.
LEMMA MomusFindsInv ==
    ASSUME Inv, NEW r \in Pipelines, NEW n \in 1..MaxIssues, MomusFinds(r, n)
    PROVE  Inv'
  <1> DEFINE p == WithAttempt(plan[r], n)
  <1>1. pc[r] = "momus" /\ UNCHANGED shouldAbort
    BY DEF MomusFinds
  <1>2. /\ plan[r] \in Plans /\ plan[r].status = "verifying"
        /\ attempt[r] \in 0..MaxFixAttempts /\ attempt[r] >= 1
        /\ plan[r].attempts = attempt[r] - 1
        /\ found[r] = plan[r].issues /\ found[r] \in Nat
        /\ plan[r].issues >= plan[r].attempts
    BY <1>1, Before DEF StageSound
  <1>3. n \in Nat /\ n \in 0..MaxIssues /\ n >= 1 /\ plan[r].attempts < MaxFixAttempts
    BY <1>2, PipelineAssumption
  <1>4. /\ p \in Plans
        /\ p.status = "verifying"
        /\ p.attempts = plan[r].attempts + 1
        /\ p.issues = plan[r].issues + n
    BY <1>2, <1>3, WithAttemptType
  <1>5. PlanSound(p)
    BY <1>4 DEF PlanSound
  <1>6. /\ p.attempts = attempt[r]
        /\ p.issues = found[r] + n
        /\ p.issues >= p.attempts
        /\ found[r] + n \in Nat
    BY <1>2, <1>3, <1>4
  <1> HIDE DEF p
  <1>7. CASE SaveRaises(r, p, plan[r])
    BY <1>1, <1>2, <1>4, <1>5, <1>7, Before, SaveRaisesInv
  <1>8. CASE /\ latest' = [latest EXCEPT ![r] = n]
             /\ found' = [found EXCEPT ![r] = @ + n]
             /\ Save(r, p)
             /\ \/ attempt[r] = MaxFixAttempts /\ Goto(r, "exhausted") /\ UNCHANGED <<turn, worked>>
                \/ attempt[r] < MaxFixAttempts /\ Hire(r, "fixer")
             /\ UNCHANGED attempt
    <2>1. TypeOK
      BY Before
    <2>2. /\ latest' \in [Pipelines -> 0..MaxIssues] /\ latest'[r] = n
          /\ attempt' \in [Pipelines -> 0..MaxFixAttempts] /\ attempt'[r] = attempt[r]
      BY <1>3, <1>8, <2>1 DEF TypeOK
    <2>3. found' \in [Pipelines -> Nat] /\ found'[r] = found[r] + n
      BY <1>6, <1>8, <2>1 DEF TypeOK
    <2>4. \A q \in Pipelines \ {r} :
              attempt'[q] = attempt[q] /\ latest'[q] = latest[q] /\ found'[q] = found[q]
      BY <1>8, <2>1 DEF TypeOK
    <2>5. CASE attempt[r] = MaxFixAttempts /\ Goto(r, "exhausted") /\ UNCHANGED <<turn, worked>>
      <3>1. pc'[r] = "exhausted" /\ plan'[r] = p /\ disk'[r] = p => StageSound(r)'
        BY <1>2, <1>3, <1>4, <1>6, <2>2, <2>3, <2>5 DEF StageSound, Running, Agents, Pauses
      <3>2. "exhausted" \in Pauses /\ AgentsTyped'
        BY <2>1, <2>5 DEF Pauses, TypeOK, AgentsTyped
      <3>3. QED
        BY <1>1, <1>4, <1>5, <1>8, <2>2, <2>3, <2>4, <2>5, <3>1, <3>2, WriteInv
    <2>6. CASE attempt[r] < MaxFixAttempts /\ Hire(r, "fixer")
      <3>1. pc'[r] = "fixer" /\ plan'[r] = p /\ disk'[r] = p => StageSound(r)'
        BY <1>2, <1>3, <1>4, <1>6, <2>2, <2>3, <2>6 DEF StageSound, Running, Agents, Pauses
      <3>2. "fixer" \in Agents /\ Goto(r, "fixer") /\ AgentsTyped'
        BY <2>6, HireMoves DEF Agents
      <3>3. QED
        BY <1>1, <1>4, <1>5, <1>8, <2>2, <2>3, <2>4, <3>1, <3>2, WriteInv
    <2>7. QED
      BY <1>8, <2>5, <2>6
  <1>9. QED
    BY <1>7, <1>8 DEF MomusFinds, p

\* A plan fails only after its last attempt, with at least one issue each.
LEMMA GiveUpInv == ASSUME Inv, NEW r \in Pipelines, GiveUp(r) PROVE Inv'
  <1> DEFINE p == GivenUp(plan[r], latest[r])
  <1>1. pc[r] = "exhausted" /\ UNCHANGED shouldAbort
    BY DEF GiveUp
  <1>2. /\ plan[r] \in Plans /\ latest[r] \in Nat /\ latest[r] >= 1 /\ found[r] \in Nat
        /\ found[r] = plan[r].issues
        /\ plan[r].attempts = MaxFixAttempts
        /\ plan[r].issues >= plan[r].attempts
    BY <1>1, Before, PipelineAssumption DEF StageSound
  <1>3. /\ p \in Plans /\ p.status = "failed"
        /\ p.attempts = MaxFixAttempts
        /\ p.issues = found[r] + latest[r]
    BY <1>2, GivenUpType
  <1>4. /\ p.issues > MaxFixAttempts
        /\ (found[r] = 0 <=> p.issues = 0)
    BY <1>2, <1>3, PipelineAssumption
  <1>5. PlanSound(p)
    BY <1>3, <1>4 DEF PlanSound
  <1> HIDE DEF p
  <1>6. CASE SaveRaises(r, p, plan[r])
    BY <1>1, <1>3, <1>5, <1>6, Before, SaveRaisesInv
  <1>7. CASE Save(r, p) /\ Goto(r, "verified") /\ UNCHANGED localVars
    <2>1. UNCHANGED <<turn, worked, attempt, latest, found>>
      BY <1>7 DEF localVars
    <2>2. pc'[r] = "verified" /\ plan'[r] = p /\ disk'[r] = p => StageSound(r)'
      BY <1>3, <1>4, <2>1 DEF StageSound, Running, Agents, Pauses
    <2>3. QED
      BY <1>1, <1>3, <1>5, <1>7, <2>1, <2>2, Before, WriteInv DEF Pauses, TypeOK, AgentsTyped
  <1>8. QED
    BY <1>6, <1>7 DEF GiveUp, p

\* Sentinel finds a plan that is verifying or failed.
LEMMA AuditInv == ASSUME Inv, NEW r \in Pipelines, Audit(r) PROVE Inv'
  <1>1. pc[r] = "verified" /\ UNCHANGED shouldAbort
    BY DEF Audit
  <1>2. CASE Abandon(r)
    BY <1>1, <1>2, AbandonInv
  <1>3. CASE Hire(r, "sentinel") /\ UNCHANGED <<attempt, latest, found, plan, disk>>
    <2>1. pc'[r] = "sentinel" => StageSound(r)'
      BY <1>1, <1>3, Before DEF StageSound, Running, Agents, Pauses
    <2>2. QED
      BY <1>1, <1>3, <2>1, Before, HireMoves, MoveInv DEF Agents, TypeOK
  <1>4. QED
    BY <1>2, <1>3 DEF Audit

\* The score of the completed plan counts what all verifications found.
LEMMA SentinelEndsInv == ASSUME Inv, NEW r \in Pipelines, SentinelEnds(r) PROVE Inv'
  <1> DEFINE p == Completed(plan[r], Score(found[r]))
  <1>1. pc[r] = "sentinel" /\ UNCHANGED shouldAbort
    BY DEF SentinelEnds
  <1>2. /\ plan[r] \in Plans /\ found[r] \in Nat
        /\ (found[r] = 0 <=> plan[r].issues = 0)
    BY <1>1, Before DEF StageSound
  <1>3. Score(found[r]) \in 0..10 /\ (Score(found[r]) = 10 <=> found[r] = 0)
    BY <1>2, ScoreType
  <1>4. /\ p \in Plans /\ p.status = "completed"
        /\ p.issues = plan[r].issues /\ p.score = Score(found[r])
    BY <1>2, <1>3, CompletedType
  <1>5. PlanSound(p)
    BY <1>2, <1>3, <1>4 DEF PlanSound
  <1> HIDE DEF p
  <1>6. CASE SaveRaises(r, p, plan[r])
    BY <1>1, <1>2, <1>4, <1>5, <1>6, Before, SaveRaisesInv
  <1>7. CASE Save(r, p) /\ Goto(r, "complete") /\ UNCHANGED localVars
    <2>1. UNCHANGED <<turn, worked, attempt, latest, found>>
      BY <1>7 DEF localVars
    <2>2. pc'[r] = "complete" => StageSound(r)'
      BY DEF StageSound, Running, Agents, Pauses
    <2>3. QED
      BY <1>1, <1>4, <1>5, <1>7, <2>1, <2>2, Before, WriteInv DEF Ends, TypeOK, AgentsTyped
  <1>8. QED
    BY <1>6, <1>7 DEF SentinelEnds, p

\* A step that changes nothing.
LEMMA StutterInv == ASSUME Inv, UNCHANGED vars PROVE Inv'
  BY DEF Inv, TypeOK, PlansSound, PlanSound, StageSound, Running, vars, localVars

\* Every step keeps the invariant.
LEMMA NextInv == ASSUME Inv, [Next]_vars PROVE Inv'
  <1>1. ASSUME NEW r \in Pipelines, Start(r) \/ Step(r) \/ Cancel(r) PROVE Inv'
    BY <1>1, StartInv, CancelInv, AgentTurnInv, OracleEndsInv, MetisEndsInv, ExecuteInv,
       SisyphusEndsInv, VerifyInv, MomusPassesInv, MomusFindsInv, FixerEndsInv, GiveUpInv,
       AuditInv, SentinelEndsInv, RaisesInv DEF Step
  <1>2. CASE RaiseAbort
    BY <1>2, RaiseAbortInv
  <1>3. CASE Restart
    BY <1>3, RestartInv
  <1>4. CASE UNCHANGED vars
    BY <1>4, StutterInv
  <1>5. QED
    BY <1>1, <1>2, <1>3, <1>4 DEF Next

-----------------------------------------------------------------------------
(* The files and what the agents did, which the invariant above carries. *)

\* What of FilesSound is about one pipeline.
FileSound(r) ==
    /\ FileTells(r)
    /\ pc[r] \in {"none", "oracle", "metis", "planned"} => worked[r] \subseteq {"oracle", "metis"}

\* A plan tells no less when it executes, is verified, or ends.
LEMMA TellsKept ==
    ASSUME NEW p \in Plans, NEW q \in Plans, NEW w, Tells(p, w),
           q.status \notin {"none", "draft", "active"}, q.attempts >= p.attempts
    PROVE  Tells(q, w)
  BY DEF Tells, Plans

\* An agent other than the fixer adds nothing to what a plan past its start has to tell.
LEMMA TellsAgent ==
    ASSUME NEW p \in Plans, NEW w, NEW a \in Agents, Tells(p, w),
           p.status \notin {"none", "draft", "active"}, a = "fixer" => p.attempts >= 1
    PROVE  Tells(p, w \cup {a})
  BY DEF Tells, Agents

\* A step that sets the program counter, the agents and the file of one pipeline.
LEMMA FileStep ==
    ASSUME Inv, FilesSound, NEW r \in Pipelines,
           NEW l \in {"none"} \cup Agents \cup Pauses \cup Ends, Goto(r, l),
           NEW w, worked' = [worked EXCEPT ![r] = w],
           NEW d, disk' = [disk EXCEPT ![r] = d],
           Tells(d, w) \/ (l = "raised" /\ d = NoPlan),
           l \in {"none", "oracle", "metis", "planned"} => w \subseteq {"oracle", "metis"}
    PROVE  FilesSound'
  <1>1. /\ pc'[r] = l /\ worked'[r] = w /\ disk'[r] = d
        /\ \A q \in Pipelines \ {r} : pc'[q] = pc[q] /\ worked'[q] = worked[q] /\ disk'[q] = disk[q]
    BY DEF Inv, TypeOK, Goto
  <1>2. FileSound(r)'
    BY <1>1 DEF FileSound, FileTells
  <1>3. ASSUME NEW q \in Pipelines \ {r} PROVE FileSound(q)'
    BY <1>1, <1>3 DEF FilesSound, FileSound, FileTells
  <1>4. QED
    BY <1>2, <1>3 DEF FilesSound, FileSound

\* What is known of the file of a pipeline that runs.
LEMMA FileBefore ==
    ASSUME Inv, FilesSound, NEW r \in Pipelines, Running(r)
    PROVE  /\ disk[r] = plan[r]
           /\ plan[r] \in Plans
           /\ Tells(plan[r], worked[r])
           /\ worked = [worked EXCEPT ![r] = worked[r]]
           /\ disk = [disk EXCEPT ![r] = disk[r]]
  <1>1. disk[r] = plan[r] /\ plan[r] \in Plans
    BY Before DEF StageSound
  <1>2. pc[r] # "raised"
    BY DEF Running, Agents, Pauses
  <1>3. Tells(plan[r], worked[r])
    BY <1>1, <1>2 DEF FilesSound, FileTells
  <1>4. worked = [worked EXCEPT ![r] = worked[r]] /\ disk = [disk EXCEPT ![r] = disk[r]]
    BY DEF Inv, TypeOK
  <1>5. QED
    BY <1>1, <1>3, <1>4

\* A pipeline that goes on, or ends, without a write or another agent.
LEMMA FileMoves ==
    ASSUME Inv, FilesSound, NEW r \in Pipelines, Running(r),
           NEW l \in Pauses \cup Ends, l # "planned", Goto(r, l), UNCHANGED <<worked, disk>>
    PROVE  FilesSound'
  <1>1. l \notin {"none", "oracle", "metis", "planned"}
        /\ l \in {"none"} \cup Agents \cup Pauses \cup Ends
    BY DEF Pauses, Ends
  <1>2. /\ worked' = [worked EXCEPT ![r] = worked[r]]
        /\ disk' = [disk EXCEPT ![r] = plan[r]]
        /\ Tells(plan[r], worked[r])
    BY FileBefore
  <1>3. QED
    BY <1>1, <1>2, FileStep

\* A write that fails leaves a file that tells as much as the plan before it, or none.
LEMMA FileRaises ==
    ASSUME Inv, FilesSound, NEW r \in Pipelines, Running(r), NEW p, NEW q,
           Tells(q, worked[r]), SaveRaises(r, p, q)
    PROVE  FilesSound'
  <1>1. Goto(r, "raised") /\ UNCHANGED worked
    BY DEF SaveRaises, localVars
  <1>2. PICK f \in {q, NoPlan} : disk' = [disk EXCEPT ![r] = f]
    BY DEF SaveRaises
  <1>3. /\ worked' = [worked EXCEPT ![r] = worked[r]]
        /\ "raised" \notin {"none", "oracle", "metis", "planned"}
        /\ "raised" \in {"none"} \cup Agents \cup Pauses \cup Ends
    BY <1>1, FileBefore DEF Ends
  <1>4. Tells(f, worked[r]) \/ f = NoPlan
    BY <1>2
  <1>5. QED
    BY <1>1, <1>2, <1>3, <1>4, FileStep

\* A write that succeeds, without another agent.
LEMMA FileSaved ==
    ASSUME Inv, FilesSound, NEW r \in Pipelines, Running(r), NEW p, Save(r, p),
           NEW l \in Pauses \cup Ends, Goto(r, l), UNCHANGED worked, Tells(p, worked[r]),
           l = "planned" => worked[r] \subseteq {"oracle", "metis"}
    PROVE  FilesSound'
  <1>1. disk' = [disk EXCEPT ![r] = p] /\ worked' = [worked EXCEPT ![r] = worked[r]]
    BY FileBefore DEF Save
  <1>2. /\ l \notin {"none", "oracle", "metis"}
        /\ l \in {"none"} \cup Agents \cup Pauses \cup Ends
    BY DEF Pauses, Ends
  <1>3. QED
    BY <1>1, <1>2, FileStep

\* A pipeline hands over to an agent, its file being d then.
LEMMA FileHires ==
    ASSUME Inv, FilesSound, NEW r \in Pipelines, NEW a \in Agents, Hire(r, a),
           NEW d, disk' = [disk EXCEPT ![r] = d], Tells(d, worked[r] \cup {a}),
           a \in {"oracle", "metis"} => worked[r] \subseteq {"oracle", "metis"}
    PROVE  FilesSound'
  <1>1. Goto(r, a) /\ worked' = [worked EXCEPT ![r] = worked[r] \cup {a}]
    BY DEF Hire
  <1>2. /\ a \in {"none", "oracle", "metis", "planned"} => worked[r] \cup {a} \subseteq {"oracle", "metis"}
        /\ a \in {"none"} \cup Agents \cup Pauses \cup Ends
    BY DEF Agents
  <1>3. QED
    BY <1>1, <1>2, FileStep

\* Before there is a plan to tell of, oracle and metis come and go.
LEMMA EarlyFiles ==
    ASSUME Inv, FilesSound, NEW r \in Pipelines, Start(r) \/ OracleEnds(r) \/ MetisEnds(r)
    PROVE  FilesSound'
  <1>1. pc[r] \in {"none", "oracle", "metis"} /\ worked[r] \subseteq {"oracle", "metis"}
    BY DEF Start, OracleEnds, MetisEnds, FilesSound
  <1>2. disk = [disk EXCEPT ![r] = disk[r]]
    BY DEF Inv, TypeOK
  <1>3. ASSUME NEW a \in {"oracle", "metis"}, Hire(r, a), UNCHANGED disk PROVE FilesSound'
    <2>1. a \in Agents /\ Tells(disk[r], worked[r] \cup {a})
      BY <1>1 DEF Agents, Tells
    <2>2. disk' = [disk EXCEPT ![r] = disk[r]]
      BY <1>2, <1>3
    <2>3. QED
      BY <1>1, <1>3, <2>1, <2>2, FileHires
  <1>4. CASE Start(r)
    BY <1>3, <1>4 DEF Start
  <1>5. ASSUME pc[r] \in {"oracle", "metis"}, StopEarly(r) PROVE FilesSound'
    BY <1>5, FileMoves DEF StopEarly, localVars, Running, Agents, Ends
  <1>6. CASE OracleEnds(r)
    BY <1>3, <1>5, <1>6 DEF OracleEnds
  <1>7. CASE MetisEnds(r)
    <2>1. pc[r] = "metis" /\ Running(r)
      BY <1>7 DEF MetisEnds, Running, Agents
    <2>2. \A q : Tells(q, worked[r])
      BY <1>1 DEF Tells
    <2>3. ASSUME NEW p, NEW q, SaveRaises(r, p, q) PROVE FilesSound'
      BY <2>1, <2>2, <2>3, FileRaises
    <2>4. ASSUME NEW p, Save(r, p), Goto(r, "planned"), UNCHANGED localVars PROVE FilesSound'
      BY <1>1, <2>1, <2>2, <2>4, FileSaved DEF Pauses, localVars
    <2>5. QED
      BY <1>5, <1>7, <2>1, <2>3, <2>4 DEF MetisEnds
  <1>8. QED
    BY <1>4, <1>6, <1>7

\* An abort check that finds a plan past its start abandons it.
LEMMA AbandonFiles ==
    ASSUME Inv, FilesSound, NEW r \in Pipelines, Running(r), NEW p \in Plans,
           Tells(p, worked[r]),
           \/ Save(r, WithStatus(p, "abandoned")) /\ Goto(r, "aborted") /\ UNCHANGED localVars
           \/ SaveRaises(r, WithStatus(p, "abandoned"), p)
    PROVE  FilesSound'
  <1>1. Tells(WithStatus(p, "abandoned"), worked[r])
    <2>1. /\ WithStatus(p, "abandoned") \in Plans
          /\ WithStatus(p, "abandoned").status = "abandoned"
          /\ WithStatus(p, "abandoned").attempts = p.attempts
      BY WithStatusType DEF Statuses
    <2>2. p.attempts >= p.attempts
      BY PipelineAssumption DEF Plans
    <2>3. QED
      BY <2>1, <2>2, TellsKept
  <1>2. CASE Save(r, WithStatus(p, "abandoned")) /\ Goto(r, "aborted") /\ UNCHANGED localVars
    BY <1>1, <1>2, FileSaved DEF Ends, localVars
  <1>3. CASE SaveRaises(r, WithStatus(p, "abandoned"), p)
    BY <1>3, FileRaises
  <1>4. QED
    BY <1>2, <1>3

\* The plan executes before the executor changes anything.
LEMMA ExecuteFiles == ASSUME Inv, FilesSound, NEW r \in Pipelines, Execute(r) PROVE FilesSound'
  <1> DEFINE p == WithStatus(plan[r], "executing")
  <1>1. pc[r] = "planned" /\ Running(r) /\ worked[r] \subseteq {"oracle", "metis"}
    BY DEF Execute, Running, Pauses, FilesSound
  <1>2. p.status = "executing"
    BY Before, WithStatusType DEF Statuses
  <1> HIDE DEF p
  <1>3. Tells(p, worked[r] \cup {"sisyphus"}) /\ Tells(plan[r], worked[r])
    BY <1>1, <1>2 DEF Tells
  <1>4. CASE Save(r, p) /\ Hire(r, "sisyphus")
    <2>1. disk' = [disk EXCEPT ![r] = p] /\ "sisyphus" \in Agents
      BY <1>4 DEF Save, Agents
    <2>2. QED
      BY <1>3, <1>4, <2>1, FileHires
  <1>5. CASE SaveRaises(r, p, plan[r])
    BY <1>1, <1>3, <1>5, FileRaises
  <1>6. QED
    BY <1>4, <1>5 DEF Execute, p

\* A verification begins, or an abort check stops it, with a plan that tells enough.
LEMMA VerifyNextFiles ==
    ASSUME Inv, FilesSound, NEW r \in Pipelines, Running(r), NEW p \in Plans, NEW n,
           Tells(p, worked[r]), p.status = "verifying", VerifyNext(r, p, n)
    PROVE  FilesSound'
  <1>1. CASE Save(r, p) /\ Hire(r, "momus")
    <2>1. disk' = [disk EXCEPT ![r] = p] /\ "momus" \in Agents
      BY <1>1 DEF Save, Agents
    <2>2. Tells(p, worked[r] \cup {"momus"})
      BY <2>1, TellsAgent
    <2>3. QED
      BY <1>1, <2>1, <2>2, FileHires
  <1>2. CASE \/ Save(r, WithStatus(p, "abandoned")) /\ Goto(r, "aborted") /\ UNCHANGED localVars
             \/ SaveRaises(r, WithStatus(p, "abandoned"), p)
    BY <1>2, AbandonFiles
  <1>3. QED
    BY <1>1, <1>2 DEF VerifyNext

\* The steps up to the first verification.
LEMMA VerifyFiles ==
    ASSUME Inv, FilesSound, NEW r \in Pipelines, SisyphusEnds(r) \/ Verify(r)
    PROVE  FilesSound'
  <1>1. Running(r)
    BY DEF SisyphusEnds, Verify, Running, Agents, Pauses
  <1>2. plan[r] \in Plans /\ Tells(plan[r], worked[r])
    BY <1>1, FileBefore
  <1>3. CASE SisyphusEnds(r)
    <2>1. CASE Abandon(r)
      BY <1>1, <1>2, <2>1, AbandonFiles DEF Abandon
    <2>2. CASE Goto(r, "executed") /\ UNCHANGED <<localVars, plan, disk>>
      BY <1>1, <2>2, FileMoves DEF Pauses, localVars
    <2>3. QED
      BY <1>3, <2>1, <2>2 DEF SisyphusEnds
  <1>4. CASE Verify(r)
    <2> DEFINE p == WithStatus(plan[r], "verifying")
    <2>1. p \in Plans /\ p.status = "verifying" /\ p.attempts = plan[r].attempts
      BY <1>2, WithStatusType DEF Statuses
    <2> HIDE DEF p
    <2>2. p.attempts >= plan[r].attempts
      BY <1>2, <2>1, PipelineAssumption DEF Plans
    <2>3. Tells(p, worked[r])
      BY <1>2, <2>1, <2>2, TellsKept
    <2>4. VerifyNext(r, p, 1) \/ SaveRaises(r, p, plan[r])
      BY <1>4 DEF Verify, p
    <2>5. QED
      BY <1>1, <1>2, <2>1, <2>3, <2>4, VerifyNextFiles, FileRaises
  <1>5. QED
    BY <1>3, <1>4

\* The steps of the verify loop, each of which counts what it found before the fixer runs.
LEMMA LoopFiles ==
    ASSUME Inv, FilesSound, NEW r \in Pipelines,
           \/ MomusPasses(r) \/ FixerEnds(r) \/ GiveUp(r)
           \/ \E n \in 1..MaxIssues : MomusFinds(r, n)
    PROVE  FilesSound'
  <1>1. Running(r)
    BY DEF MomusPasses, FixerEnds, GiveUp, MomusFinds, Running, Agents, Pauses
  <1>2. plan[r] \in Plans /\ Tells(plan[r], worked[r]) /\ plan[r].attempts \in Nat
    BY <1>1, FileBefore, PipelineAssumption DEF Plans
  <1>3. CASE MomusPasses(r)
    BY <1>1, <1>3, FileMoves DEF MomusPasses, Pauses, localVars
  <1>4. CASE FixerEnds(r)
    <2>1. plan[r].status = "verifying" /\ VerifyNext(r, plan[r], attempt[r] + 1)
      BY <1>4, Before DEF FixerEnds, StageSound
    <2>2. QED
      BY <1>1, <1>2, <2>1, VerifyNextFiles
  <1>5. CASE GiveUp(r)
    <2> DEFINE p == GivenUp(plan[r], latest[r])
    <2>1. latest[r] \in Nat
      BY Before, PipelineAssumption
    <2>2. p \in Plans /\ p.status = "failed" /\ p.attempts = plan[r].attempts
      BY <1>2, <2>1, GivenUpType
    <2> HIDE DEF p
    <2>3. Tells(p, worked[r])
      BY <1>2, <2>2, TellsKept
    <2>4. \/ Save(r, p) /\ Goto(r, "verified") /\ UNCHANGED localVars
          \/ SaveRaises(r, p, plan[r])
      BY <1>5 DEF GiveUp, p
    <2>5. QED
      BY <1>1, <1>2, <2>3, <2>4, FileSaved, FileRaises DEF Pauses, localVars
  <1>6. ASSUME NEW n \in 1..MaxIssues, MomusFinds(r, n) PROVE FilesSound'
    <2> DEFINE p == WithAttempt(plan[r], n)
    <2>1. /\ plan[r].status = "verifying"
          /\ plan[r].attempts = attempt[r] - 1
          /\ attempt[r] \in 0..MaxFixAttempts
      BY <1>6, Before DEF MomusFinds, StageSound
    <2>2. n \in Nat /\ plan[r].attempts < MaxFixAttempts
      BY <2>1, PipelineAssumption
    <2>3. p \in Plans /\ p.status = "verifying" /\ p.attempts = plan[r].attempts + 1
      BY <1>2, <2>1, <2>2, WithAttemptType
    <2> HIDE DEF p
    <2>4. p.attempts >= plan[r].attempts /\ p.attempts >= 1
      BY <1>2, <2>3
    <2>5. Tells(p, worked[r])
      BY <1>2, <2>3, <2>4, TellsKept
    <2>6. \/ Save(r, p) /\ Goto(r, "exhausted") /\ UNCHANGED worked
          \/ Save(r, p) /\ Hire(r, "fixer")
          \/ SaveRaises(r, p, plan[r])
      BY <1>6 DEF MomusFinds, p
    <2>7. CASE Save(r, p) /\ Goto(r, "exhausted") /\ UNCHANGED worked
      BY <1>1, <2>5, <2>7, FileSaved DEF Pauses
    <2>8. CASE Save(r, p) /\ Hire(r, "fixer")
      <3>1. disk' = [disk EXCEPT ![r] = p] /\ "fixer" \in Agents
        BY <2>8 DEF Save, Agents
      <3>2. Tells(p, worked[r] \cup {"fixer"})
        BY <2>3, <2>4, <2>5, <3>1, TellsAgent
      <3>3. QED
        BY <2>8, <3>1, <3>2, FileHires
    <2>9. CASE SaveRaises(r, p, plan[r])
      BY <1>1, <1>2, <2>9, FileRaises
    <2>10. QED
      BY <2>6, <2>7, <2>8, <2>9
  <1>7. QED
    BY <1>3, <1>4, <1>5, <1>6

\* The audit and the completion.
LEMMA LateFiles ==
    ASSUME Inv, FilesSound, NEW r \in Pipelines, Audit(r) \/ SentinelEnds(r)
    PROVE  FilesSound'
  <1>1. Running(r)
    BY DEF Audit, SentinelEnds, Running, Agents, Pauses
  <1>2. /\ plan[r] \in Plans /\ Tells(plan[r], worked[r]) /\ plan[r].attempts \in Nat
        /\ plan[r].status \in {"verifying", "failed"}
        /\ disk = [disk EXCEPT ![r] = plan[r]]
        /\ found[r] \in Nat
    BY <1>1, Before, FileBefore, PipelineAssumption DEF Plans, Audit, SentinelEnds, StageSound
  <1>3. CASE Audit(r)
    <2>1. CASE Abandon(r)
      BY <1>1, <1>2, <2>1, AbandonFiles DEF Abandon
    <2>2. CASE Hire(r, "sentinel") /\ UNCHANGED disk
      <3>1. "sentinel" \in Agents /\ disk' = [disk EXCEPT ![r] = plan[r]]
        BY <1>2, <2>2 DEF Agents
      <3>2. Tells(plan[r], worked[r] \cup {"sentinel"})
        BY <1>2, <3>1, TellsAgent
      <3>3. QED
        BY <2>2, <3>1, <3>2, FileHires
    <2>3. QED
      BY <1>3, <2>1, <2>2 DEF Audit
  <1>4. CASE SentinelEnds(r)
    <2> DEFINE p == Completed(plan[r], Score(found[r]))
    <2>1. Score(found[r]) \in 0..10
      BY <1>2, ScoreType
    <2>2. p \in Plans /\ p.status = "completed" /\ p.attempts = plan[r].attempts
      BY <1>2, <2>1, CompletedType
    <2> HIDE DEF p
    <2>3. Tells(p, worked[r])
      BY <1>2, <2>2, TellsKept
    <2>4. \/ Save(r, p) /\ Goto(r, "complete") /\ UNCHANGED localVars
          \/ SaveRaises(r, p, plan[r])
      BY <1>4 DEF SentinelEnds, p
    <2>5. QED
      BY <1>1, <1>2, <2>3, <2>4, FileSaved, FileRaises DEF Ends, localVars
  <1>5. QED
    BY <1>3, <1>4

\* Neither the flag, a model call, a cancellation, an exception nor a restart writes a file.
LEMMA OtherFiles ==
    ASSUME Inv, FilesSound,
           \/ RaiseAbort \/ Restart \/ UNCHANGED vars
           \/ \E r \in Pipelines : AgentTurn(r) \/ Cancel(r) \/ Raises(r)
    PROVE  FilesSound'
  <1>1. CASE RaiseAbort \/ UNCHANGED vars \/ (\E r \in Pipelines : AgentTurn(r))
    <2>1. UNCHANGED <<pc, worked, disk>>
      BY <1>1 DEF RaiseAbort, AgentTurn, vars, localVars
    <2>2. QED
      BY <2>1 DEF FilesSound, FileTells
  <1>2. ASSUME NEW r \in Pipelines, Cancel(r) \/ Raises(r) PROVE FilesSound'
    BY <1>2, FileMoves DEF Cancel, Raises, Ends, localVars
  <1>3. CASE Restart
    <2>1. /\ UNCHANGED <<worked, disk>>
          /\ pc' = [r \in Pipelines |-> IF Running(r) THEN "killed" ELSE pc[r]]
      BY <1>3 DEF Restart, localVars
    <2>2. ASSUME NEW r \in Pipelines PROVE FileSound(r)'
      <3>1. CASE Running(r)
        <4>1. pc'[r] = "killed" /\ Tells(disk[r], worked[r])
          BY <2>1, <3>1, FileBefore
        <4>2. QED
          BY <2>1, <4>1 DEF FileSound, FileTells
      <3>2. CASE ~Running(r)
        <4>1. pc'[r] = pc[r]
          BY <2>1, <3>2
        <4>2. QED
          BY <2>1, <4>1 DEF FileSound, FileTells, FilesSound
      <3>3. QED
        BY <3>1, <3>2
    <2>3. QED
      BY <2>2 DEF FilesSound, FileSound
  <1>4. QED
    BY <1>1, <1>2, <1>3

-----------------------------------------------------------------------------
(* The theorems. *)

\* In every reachable state the variables are well typed, and each plan, in memory and in
\* its file, agrees with the stage its pipeline is at.
THEOREM PlansInvariant == Spec => []Inv
  <1>1. Init => Inv
    BY InitInv
  <1>2. Inv /\ [Next]_vars => Inv'
    BY NextInv
  <1>3. QED
    BY <1>1, <1>2, PTL DEF Spec

\* The files agree with what the agents did, initially and after every step.
LEMMA FilesInvariant == Spec => []FilesSound
  <1>1. Init => FilesSound
    BY DEF Init, FilesSound, FileTells, Tells
  <1>2. Inv /\ FilesSound /\ [Next]_vars => FilesSound'
    <2> SUFFICES ASSUME Inv, FilesSound, [Next]_vars PROVE FilesSound'
      OBVIOUS
    <2>1. ASSUME NEW r \in Pipelines, Start(r) \/ Step(r) PROVE FilesSound'
      BY <2>1, EarlyFiles, ExecuteFiles, VerifyFiles, LoopFiles, LateFiles, OtherFiles DEF Step
    <2>2. QED
      BY <2>1, OtherFiles DEF Next
  <1>3. QED
    BY <1>1, <1>2, PlansInvariant, PTL DEF Spec

\* The types of the pipelines' variables, for any number of pipelines and attempts: no plan
\* records more fix attempts than the code allows.
THEOREM TypeCorrect == Spec => []TypeOK
  <1>1. Inv => TypeOK
    BY DEF Inv
  <1>2. QED
    BY <1>1, PlansInvariant, PTL

\* However a pipeline is stopped, unless a write of its plan failed half-way, the file tells
\* of every run of the executor, and of an agent after it.
THEOREM Checkpointed == Spec => []ChangesAreCheckpointed
  <1>1. FilesSound => ChangesAreCheckpointed
    BY DEF FilesSound, ChangesAreCheckpointed
  <1>2. QED
    BY <1>1, FilesInvariant, PTL

\* A completed plan has the full score exactly if no verification found an issue.
THEOREM ScoreIsHonest == Spec => []FullScoreIffClean
  <1>1. Inv => FullScoreIffClean
    BY Before DEF FullScoreIffClean, PlanSound
  <1>2. QED
    BY <1>1, PlansInvariant, PTL

\* A pipeline that an abort check stopped leaves no plan, or an abandoned one.
THEOREM AbortRecorded == Spec => []AbortsAreRecorded
  <1>1. Inv => AbortsAreRecorded
    BY Before DEF AbortsAreRecorded, StageSound
  <1>2. QED
    BY <1>1, PlansInvariant, PTL

\* Once an abort is raised, no pipeline starts another agent but sisyphus and the fixer.
THEOREM AbortEnds == Spec => AbortEndsRounds
  <1> DEFINE Held == \A r \in Pipelines :
                 shouldAbort /\ shouldAbort' /\ pc'[r] \in Agents \ {pc[r]}
                     => pc'[r] \in {"sisyphus", "fixer"}
  <1>1. Inv /\ [Next]_vars => [Held]_vars
    <2> SUFFICES ASSUME Inv, Next, NEW r \in Pipelines,
                        shouldAbort, shouldAbort', pc'[r] \in Agents \ {pc[r]}
                 PROVE  pc'[r] \in {"sisyphus", "fixer"}
      OBVIOUS
    <2>1. ASSUME NEW q \in Pipelines, NEW l, Goto(q, l) PROVE r = q /\ pc'[r] = l
      BY <2>1 DEF Goto, Inv, TypeOK
    <2>2. ASSUME NEW q \in Pipelines, NEW a, Hire(q, a) PROVE r = q /\ pc'[r] = a
      BY <2>1, <2>2 DEF Hire
    <2>3. pc' # pc
      OBVIOUS
    <2>4. ASSUME NEW q \in Pipelines, NEW p, NEW d, SaveRaises(q, p, d) PROVE FALSE
      BY <2>1, <2>4 DEF SaveRaises, Agents
    <2>5. ASSUME NEW q \in Pipelines, NEW p, NEW n, VerifyNext(q, p, n) PROVE FALSE
      BY <2>1, <2>4, <2>5 DEF VerifyNext, Agents
    <2>6. ASSUME NEW q \in Pipelines, Abandon(q) \/ StopEarly(q) \/ Cancel(q) \/ Raises(q) PROVE FALSE
      BY <2>1, <2>4, <2>6 DEF Abandon, StopEarly, Cancel, Raises, Agents
    <2>7. ASSUME NEW q \in Pipelines, Step(q)
          PROVE  pc'[r] \in {"sisyphus", "fixer"}
      <3>1. CASE AgentTurn(q) \/ OracleEnds(q) \/ MetisEnds(q) \/ SisyphusEnds(q) \/ Verify(q)
        BY <2>1, <2>2, <2>3, <2>4, <2>5, <2>6, <3>1
           DEF AgentTurn, OracleEnds, MetisEnds, SisyphusEnds, Verify, Agents
      <3>2. CASE Execute(q)
        BY <2>2, <2>4, <3>2 DEF Execute
      <3>3. CASE MomusPasses(q) \/ FixerEnds(q) \/ GiveUp(q) \/ Audit(q) \/ SentinelEnds(q)
        BY <2>1, <2>4, <2>5, <2>6, <3>3 DEF MomusPasses, FixerEnds, GiveUp, Audit, SentinelEnds, Agents
      <3>4. ASSUME NEW n \in 1..MaxIssues, MomusFinds(q, n) PROVE pc'[r] \in {"sisyphus", "fixer"}
        BY <2>1, <2>2, <2>4, <3>4 DEF MomusFinds, Agents
      <3>5. QED
        BY <2>6, <2>7, <3>1, <3>2, <3>3, <3>4 DEF Step
    <2>8. ~Restart /\ ~RaiseAbort /\ ~(\E q \in Pipelines : Start(q))
      BY <2>3 DEF Restart, RaiseAbort, Start
    <2>9. QED
      BY <2>6, <2>7, <2>8 DEF Next
  <1>2. QED
    BY <1>1, PlansInvariant, PTL DEF Spec, AbortEndsRounds

\* A failed plan used all its attempts, each of which found something.
THEOREM FailedExhausted == Spec => []FailedIsExhausted
  <1>1. Inv => FailedIsExhausted
    BY Before DEF FailedIsExhausted, PlanSound
  <1>2. QED
    BY <1>1, PlansInvariant, PTL

=============================================================================
