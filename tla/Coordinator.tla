----------------------------- MODULE Coordinator -----------------------------
(***************************************************************************)
(* One coordinator's task board (orchestration/coordinator.py), its local  *)
(* runs (coordinator_runner.py) with the traces they leave                 *)
(* (coordinator_trace.py), and the requests of api/coordinator_api.py.     *)
(*                                                                         *)
(* A run takes the list of pending tasks once and awaits once per task,    *)
(* between assigning it and completing it; other requests, a second run    *)
(* included, get their turn there.                                         *)
(***************************************************************************)
EXTENDS Naturals, Sequences, FiniteSets, SequencesExt

CONSTANTS
    Roles,          \* the agents select_task_agent knows
    OtherAgents,    \* whom a request may assign besides
    Runners,        \* the requests that run the board
    max_per_agent,
    MaxTasks,       \* bound on the tasks
    MaxRequests     \* bound on the requests that assign, complete or change the mode

ASSUME CoordinatorAssumption ==
    /\ IsFiniteSet(Roles) /\ Roles # {}
    /\ Roles \cap (OtherAgents \cup {"nobody"}) = {}
    /\ max_per_agent \in Nat /\ MaxTasks \in Nat /\ MaxRequests \in Nat

VARIABLES
    board,     \* coordinator.tasks
    mode,      \* coordinator.state
    listed,    \* the manager still has the coordinator
    traces,    \* _task_traces, of the tasks in order
    boardRun,  \* each run: the tasks it has still to complete, and the state it found
    requests

coordinatorVars == <<board, mode, listed, traces, boardRun, requests>>

-----------------------------------------------------------------------------
NoRun == [on |-> FALSE, left |-> <<>>, previous |-> "idle"]

CoordinatorInit ==
    /\ board = <<>>
    /\ mode = "idle"
    /\ listed = TRUE
    /\ traces = <<>>
    /\ boardRun = [r \in Runners |-> NoRun]
    /\ requests = 0

TaskOf(role) == [status |-> "pending", assignee |-> "nobody", role |-> role]

PendingTasks == SelectSeq([i \in 1..Len(board) |-> i], LAMBDA i : board[i].status = "pending")

Assigned(b, i, agent) == [b EXCEPT ![i].assignee = agent, ![i].status = "running"]
Completed(b, i) == [b EXCEPT ![i].status = "completed"]

\* ensure_task_trace for every task in order.  The labels of a trace are looked up by agent:
\* a task somebody else owns and no run has traced raises, and the rest is not reached.
Raises(b, ts, i) == b[i].status # "pending" /\ ts[i] = "none" /\ b[i].assignee \in OtherAgents
EnsureTraces(b, ts) ==
    [i \in 1..Len(ts) |->
        IF b[i].status # "pending" /\ ts[i] = "none" /\ ~\E j \in 1..i : Raises(b, ts, j)
        THEN "reconstructed" ELSE ts[i]]

Request == /\ listed
           /\ requests < MaxRequests
           /\ requests' = requests + 1

-----------------------------------------------------------------------------
AddTask ==
    /\ listed
    /\ Len(board) < MaxTasks
    /\ \E role \in Roles : board' = Append(board, TaskOf(role))
    /\ traces' = Append(traces, "none")
    /\ UNCHANGED <<mode, listed, boardRun, requests>>

\* Whatever the status of the task.
AssignTask ==
    /\ Request
    /\ \E i \in 1..Len(board), agent \in Roles \cup OtherAgents : board' = Assigned(board, i, agent)
    /\ UNCHANGED <<mode, listed, traces, boardRun>>

CompleteTask ==
    /\ Request
    /\ \E i \in 1..Len(board) : board' = Completed(board, i)
    /\ UNCHANGED <<mode, listed, traces, boardRun>>

\* A list or a single board is asked for.
ReadBoard ==
    /\ listed
    /\ traces' = EnsureTraces(board, traces)
    /\ UNCHANGED <<board, mode, listed, boardRun, requests>>

StartTeam ==
    /\ Request
    /\ mode' = "team_mode"
    /\ UNCHANGED <<board, listed, traces, boardRun>>

ShutdownTeam ==
    /\ Request
    /\ mode' = "idle"
    /\ UNCHANGED <<board, listed, traces, boardRun>>

DeleteCoordinator ==
    /\ Request
    /\ listed' = FALSE
    /\ UNCHANGED <<board, mode, traces, boardRun>>

Load(b, agent) == Cardinality({i \in 1..Len(b) : b[i].status = "running" /\ b[i].assignee = agent})

\* rebalance_workers: each pending task to the first of the least loaded agents under the cap.
RebalanceOver(agents) ==
    LET give(b, i) ==
          LET eligible == SelectSeq(agents, LAMBDA a : Load(b, a) < max_per_agent)
              least(k) == \A j \in 1..Len(eligible) : Load(b, eligible[k]) <= Load(b, eligible[j])
              first == CHOOSE k \in 1..Len(eligible) :
                          least(k) /\ \A j \in 1..(k - 1) : ~least(j)
          IN  IF eligible = <<>> THEN b ELSE Assigned(b, i, eligible[first])
    IN  FoldLeft(give, board, PendingTasks)

RebalanceWorkers ==
    /\ Request
    /\ board' = RebalanceOver(SetToSeq(Roles))
    /\ UNCHANGED <<mode, listed, traces, boardRun>>

-----------------------------------------------------------------------------
(* run_pending_tasks *)

\* The next task is traced and assigned; then the run gives way.
Begun(i) == [traces EXCEPT ![i] = "begun"]

RunPendingTasks(r) ==
    /\ ~boardRun[r].on
    /\ Request
    /\ IF PendingTasks = <<>>
       THEN /\ traces' = EnsureTraces(board, traces)
            /\ UNCHANGED <<board, mode, boardRun>>
       ELSE LET i == Head(PendingTasks) IN
            /\ boardRun' = [boardRun EXCEPT ![r] = [on |-> TRUE, left |-> PendingTasks,
                                                    previous |-> mode]]
            /\ mode' = "orchestrating"
            /\ board' = Assigned(board, i, board[i].role)
            /\ traces' = Begun(i)
    /\ UNCHANGED listed

\* The state found is restored, whatever it was.
RunNextRestores(r) ==
    /\ boardRun[r].on
    /\ LET i == Head(boardRun[r].left)
           rest == Tail(boardRun[r].left)
           b == Completed(board, i)
           verified == [traces EXCEPT ![i] = "verified"]
       IN  IF rest # <<>>
           THEN /\ board' = Assigned(b, Head(rest), b[Head(rest)].role)
                /\ traces' = [verified EXCEPT ![Head(rest)] = "begun"]
                /\ boardRun' = [boardRun EXCEPT ![r].left = rest]
                /\ UNCHANGED mode
           ELSE /\ board' = b
                /\ traces' = EnsureTraces(b, verified)
                /\ boardRun' = [boardRun EXCEPT ![r] = NoRun]
                /\ mode' = boardRun[r].previous
    /\ UNCHANGED <<listed, requests>>

\* The task is completed and its trace verified, whatever became of it meanwhile, and the next
\* begins; after the last one the state is restored and the summary made.
RunNext(r) ==
    /\ boardRun[r].on
    /\ LET i == Head(boardRun[r].left)
           rest == Tail(boardRun[r].left)
           b == Completed(board, i)
           verified == [traces EXCEPT ![i] = "verified"]
       IN  IF rest # <<>>
           THEN /\ board' = Assigned(b, Head(rest), b[Head(rest)].role)
                /\ traces' = [verified EXCEPT ![Head(rest)] = "begun"]
                /\ boardRun' = [boardRun EXCEPT ![r].left = rest]
                /\ UNCHANGED mode
           ELSE /\ board' = b
                /\ traces' = EnsureTraces(b, verified)
                /\ boardRun' = [boardRun EXCEPT ![r] = NoRun]
                /\ mode' = IF boardRun[r].previous = "team_mode" THEN "team_mode" ELSE "idle"
    /\ UNCHANGED <<listed, requests>>

CoordinatorNext ==
    \/ AddTask \/ AssignTask \/ CompleteTask \/ ReadBoard \/ StartTeam \/ ShutdownTeam
    \/ DeleteCoordinator \/ RebalanceWorkers
    \/ \E r \in Runners : RunPendingTasks(r) \/ RunNext(r)

CoordinatorSpec == CoordinatorInit /\ [][CoordinatorNext]_coordinatorVars

-----------------------------------------------------------------------------
\* Runs that overlap each other and every request still account for the board: it says
\* "orchestrating" only while a run is under way, and a trace without its verification belongs
\* to a task some run is at (coordinator_runner.py:37-63).
RunsAccountForBoard ==
    /\ mode = "orchestrating" => \E r \in Runners : boardRun[r].on
    /\ \A i \in 1..Len(traces) :
          traces[i] = "begun" => \E r \in Runners : boardRun[r].on /\ Head(boardRun[r].left) = i

=============================================================================
