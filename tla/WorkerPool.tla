----------------------------- MODULE WorkerPool -----------------------------
(***************************************************************************)
(* The pool that runs agents' tasks (workers/pool.py).                     *)
(*                                                                         *)
(* submit puts a task into a bounded priority queue; the consumer takes    *)
(* the tasks out, most urgent first, and gives each a runner of its own    *)
(* (_run_task); the runners share a semaphore of max_workers permits.  A   *)
(* task's status is what wait_for polls.  It is written by submit, by the  *)
(* task's runner, and by cancel and cancel_all, which stop nobody: whoever *)
(* holds the task looks at the status when it gets that far.               *)
(*                                                                         *)
(* An action is the code from one await to the next.                       *)
(***************************************************************************)
EXTENDS Integers, Sequences, FiniteSets

CONSTANTS
    Tasks,       \* the tasks that may be submitted
    Timed,       \* those with a timeout
    Priority,    \* their TaskPriority
    MaxWorkers,  \* max_workers
    MaxQueue,    \* max_queue_size, or 0
    MaxCancels,  \* bound on the calls of cancel
    MaxRestarts  \* bound on the calls of shutdown

ASSUME PoolAssumption ==
    /\ IsFiniteSet(Tasks)
    /\ Timed \subseteq Tasks
    /\ Priority \in [Tasks -> Nat]
    /\ MaxWorkers \in Nat \ {0}
    /\ MaxQueue \in Nat
    /\ MaxCancels \in Nat
    /\ MaxRestarts \in Nat

VARIABLES
    status,     \* WorkerTask.status
    pc,         \* what each task, or its runner, is waiting for
    seq,        \* the tie-breaker a task got when it was submitted
    waiters,    \* the runners waiting for the semaphore
    permits,    \* the semaphore's value
    running,    \* _running
    consumer,   \* the consume loop
    stats,      \* the counters of finished tasks
    cancels,    \* the calls of cancel so far
    restarts    \* the calls of shutdown so far

boundVars == <<cancels, restarts>>
vars == <<status, pc, seq, waiters, permits, running, consumer, stats, boundVars>>

-----------------------------------------------------------------------------
Finals == {"completed", "failed", "timed_out", "cancelled"}

\* A task's submitter is blocked in queue.put; it is in the queue; its runner waits for the
\* semaphore, is in the hooks before the task's function, in the function, in the hooks
\* behind it; it is gone.
Places == {"none", "putting", "queue", "waiting", "starting", "executing", "finishing", "gone"}

\* The runners inside "async with self._semaphore".
Holders == {t \in Tasks : pc[t] \in {"starting", "executing", "finishing"}}

Queue == {t \in Tasks : pc[t] = "queue"}

QueueFull == MaxQueue > 0 /\ Cardinality(Queue) >= MaxQueue

\* The order of the tuples (-priority, seq, task).
Before(t, u) ==
    \/ Priority[t] > Priority[u]
    \/ Priority[t] = Priority[u] /\ seq[t] < seq[u]

Submitted == {t \in Tasks : status[t] # "none"}

Move(t, p) == pc' = [pc EXCEPT ![t] = p]

Count(outcome, n) == stats' = [stats EXCEPT ![outcome] = @ + n]

-----------------------------------------------------------------------------
Init ==
    /\ status = [t \in Tasks |-> "none"]
    /\ pc = [t \in Tasks |-> "none"]
    /\ seq = [t \in Tasks |-> 0]
    /\ waiters = <<>>
    /\ permits = MaxWorkers
    /\ running = {}
    /\ consumer = "off"
    /\ stats = [o \in Finals |-> 0]
    /\ cancels = 0
    /\ restarts = 0

\* A start while a shutdown still awaits the old consumer does nothing, and is no step.
Start ==
    /\ consumer = "off"
    /\ consumer' = "on"
    /\ UNCHANGED <<status, pc, seq, waiters, permits, running, stats, boundVars>>

\* All queued and running tasks are marked; nothing else happens to them.
CancelAll ==
    LET live == {t \in Tasks : status[t] \in {"queued", "running"}} IN
    /\ status' = [t \in Tasks |-> IF t \in live THEN "cancelled" ELSE status[t]]
    /\ Count("cancelled", Cardinality(live))

\* shutdown up to its only await, that of the cancelled consumer.
Shutdown(cancelRunning) ==
    /\ restarts < MaxRestarts
    /\ restarts' = restarts + 1
    /\ IF cancelRunning THEN CancelAll ELSE UNCHANGED <<status, stats>>
    /\ consumer' = IF consumer = "on" THEN "stopping" ELSE consumer
    /\ UNCHANGED <<pc, seq, waiters, permits, running, cancels>>

\* The consumer ends, and shutdown forgets it.
ConsumerExits ==
    /\ consumer = "stopping"
    /\ consumer' = "off"
    /\ UNCHANGED <<status, pc, seq, waiters, permits, running, stats, boundVars>>

\* A task is submitted; its submitter blocks while the queue is full.
Submit(t) ==
    /\ status[t] = "none"
    /\ status' = [status EXCEPT ![t] = "queued"]
    /\ seq' = [seq EXCEPT ![t] = Cardinality(Submitted) + 1]
    /\ Move(t, IF QueueFull THEN "putting" ELSE "queue")
    /\ UNCHANGED <<waiters, permits, running, consumer, stats, boundVars>>

\* The oldest blocked submitter goes on, unless a new one was faster.
Unblock(t) ==
    /\ pc[t] = "putting"
    /\ \A u \in Tasks : pc[u] = "putting" => seq[t] <= seq[u]
    /\ ~QueueFull
    /\ Move(t, "queue")
    /\ UNCHANGED <<status, seq, waiters, permits, running, consumer, stats, boundVars>>

\* The consumer takes the most urgent task: a cancelled one is dropped, any other gets a
\* runner, whether or not there is a permit for it.
Consume(t) ==
    /\ consumer = "on"
    /\ pc[t] = "queue"
    /\ \A u \in Queue \ {t} : Before(t, u)
    /\ \/ /\ status[t] = "cancelled"
          /\ Move(t, "gone")
          /\ UNCHANGED waiters
       \/ /\ status[t] # "cancelled"
          /\ Move(t, "waiting")
          /\ waiters' = Append(waiters, t)
    /\ UNCHANGED <<status, seq, permits, running, consumer, stats, boundVars>>

\* Mutant: the status is not looked at again behind the semaphore.
RunUnchecked(t) ==
    /\ waiters # <<>>
    /\ t = Head(waiters)
    /\ permits > 0
    /\ waiters' = Tail(waiters)
    /\ status' = [status EXCEPT ![t] = "running"]
    /\ running' = running \cup {t}
    /\ permits' = permits - 1
    /\ Move(t, "starting")
    /\ UNCHANGED <<seq, consumer, stats, boundVars>>

\* The first waiter gets the permit.  If its task was cancelled it gives it back, otherwise
\* the task is running and its hooks are called.
Run(t) ==
    /\ waiters # <<>>
    /\ t = Head(waiters)
    /\ permits > 0
    /\ waiters' = Tail(waiters)
    /\ \/ /\ status[t] = "cancelled"
          /\ Move(t, "gone")
          /\ UNCHANGED <<status, running, permits>>
       \/ /\ status[t] # "cancelled"
          /\ status' = [status EXCEPT ![t] = "running"]
          /\ running' = running \cup {t}
          /\ permits' = permits - 1
          /\ Move(t, "starting")
    /\ UNCHANGED <<seq, consumer, stats, boundVars>>

\* The hooks have seen the task; its function is called, even if cancel was faster.
Execute(t) ==
    /\ pc[t] = "starting"
    /\ Move(t, "executing")
    /\ UNCHANGED <<status, seq, waiters, permits, running, consumer, stats, boundVars>>

\* The function returned, raised, was cancelled from inside, or ran out of time: the status
\* is the outcome, whatever it was.
Finish(t, outcome) ==
    /\ pc[t] = "executing"
    /\ status' = [status EXCEPT ![t] = outcome]
    /\ Count(outcome, 1)
    /\ running' = running \ {t}
    /\ Move(t, "finishing")
    /\ UNCHANGED <<seq, waiters, permits, consumer, boundVars>>

\* Mutant: a runner that ends does not return its permit.
ReleaseLeaks(t) ==
    /\ pc[t] = "finishing"
    /\ Move(t, "gone")
    /\ UNCHANGED <<status, seq, waiters, permits, running, consumer, stats, boundVars>>

\* The hooks have seen the result and the permit goes back.
Release(t) ==
    /\ pc[t] = "finishing"
    /\ Move(t, "gone")
    /\ permits' = permits + 1
    /\ UNCHANGED <<status, seq, waiters, running, consumer, stats, boundVars>>

\* cancel refuses tasks that ended, but not those that were cancelled.
Cancel(t) ==
    /\ cancels < MaxCancels
    /\ cancels' = cancels + 1
    /\ status[t] \in {"queued", "running", "cancelled"}
    /\ status' = [status EXCEPT ![t] = "cancelled"]
    /\ Count("cancelled", 1)
    /\ UNCHANGED <<pc, seq, waiters, permits, running, consumer, restarts>>

\* The same for all tasks at once.
CancelEverything ==
    /\ cancels < MaxCancels
    /\ cancels' = cancels + 1
    /\ CancelAll
    /\ UNCHANGED <<pc, seq, waiters, permits, running, consumer, restarts>>

-----------------------------------------------------------------------------
Runner(t) == Run(t) \/ Execute(t) \/ (\E o \in Finals : Finish(t, o)) \/ Release(t)

Next ==
    \/ Start \/ (\E c \in BOOLEAN : Shutdown(c)) \/ ConsumerExits \/ CancelEverything
    \/ \E t \in Tasks : Submit(t) \/ Unblock(t) \/ Consume(t) \/ Runner(t) \/ Cancel(t)

Spec == Init /\ [][Next]_vars

\* The event loop runs whoever is ready.  A function returns in time only if it has a
\* timeout; the hooks are taken to return.
FairSpec ==
    /\ Spec
    /\ WF_vars(ConsumerExits)
    /\ \A t \in Tasks :
        /\ WF_vars(Unblock(t))
        /\ WF_vars(Consume(t))
        /\ WF_vars(Run(t) \/ Execute(t) \/ Release(t))
    /\ \A t \in Timed : WF_vars(\E o \in Finals : Finish(t, o))

-----------------------------------------------------------------------------
TypeOK ==
    /\ status \in [Tasks -> {"none", "queued", "running"} \cup Finals]
    /\ pc \in [Tasks -> Places]
    /\ seq \in [Tasks -> Nat]
    /\ waiters \in Seq(Tasks)
    /\ permits \in 0..MaxWorkers
    /\ running \subseteq Tasks
    /\ consumer \in {"off", "on", "stopping"}
    /\ stats \in [Finals -> Nat]
    /\ cancels \in 0..MaxCancels
    /\ restarts \in 0..MaxRestarts

\* However tasks are cancelled and the pool is shut down and started again, there are never
\* more tasks between their first and their last hook than max_workers, and _running lists
\* exactly those whose result is still open.
ConcurrencyBounded ==
    /\ Cardinality(Holders) <= MaxWorkers
    /\ running = {t \in Tasks : pc[t] \in {"starting", "executing"}}

\* What wait_for has returned stands: the final status of a task changes no more, unless
\* the task was cancelled while it was running.  A task cancelled before never runs.
FinalStands ==
    [][\A t \in Tasks :
        status[t] \in Finals /\ t \notin running => status'[t] = status[t]]_vars

\* The counters of the stats agree with the tasks: as many completed, failed and timed out
\* as there are tasks of that status, and no cancelled task is missing.
StatsExact ==
    /\ \A o \in Finals \ {"cancelled"} :
           stats[o] = Cardinality({t \in Tasks : status[t] = o})
    /\ stats["cancelled"] >= Cardinality({t \in Tasks : status[t] = "cancelled"})

\* A submitted task ends, or the pool is off, as long as tasks without a timeout cannot
\* hold every permit.
TasksSettle ==
    Cardinality(Tasks \ Timed) < MaxWorkers =>
        \A t \in Timed : (status[t] = "queued") ~> (status[t] \in Finals \/ consumer # "on")

=============================================================================
