---------------------------- MODULE MCWorkerPool ----------------------------
(* A small pool: an ordinary task, an urgent one, and an ordinary one without a timeout. *)
EXTENDS WorkerPool

MCTasks == {"low", "high", "endless"}
MCTimed == {"low", "high"}
MCPriority == [t \in MCTasks |-> IF t = "high" THEN 10 ELSE 5]

=============================================================================
