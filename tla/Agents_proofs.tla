--------------------------- MODULE Agents_proofs ----------------------------
(***************************************************************************)
(* Proofs about what the work of an agent goes through: WorkerPool (the    *)
(* pool that runs it), for any number of tasks, workers, cancellations and *)
(* restarts; and, by lemmas about lists of lists, FileTools (an edit lands *)
(* where it was shown), Requests (what its providers are sent) and         *)
(* Compaction (what is left of its history).                               *)
(***************************************************************************)
EXTENDS WorkerPool, FileTools, Requests, Compaction,
        FiniteSetTheorems, SequenceTheorems, TLAPS

-----------------------------------------------------------------------------
(* WorkerPool: the inductive invariant. *)

\* A task's status follows the way of its runner.
StatusFollows ==
    \A t \in Tasks :
        /\ pc[t] = "none" <=> status[t] = "none"
        /\ pc[t] \in {"putting", "queue", "waiting"} => status[t] \in {"queued", "cancelled"}
        /\ pc[t] \in {"starting", "executing"} => status[t] \in {"running", "cancelled"}
        /\ pc[t] \in {"finishing", "gone"} => status[t] \in Finals

\* Every waiter of the semaphore is a runner that waits, and waits once.
WaitersWait ==
    /\ \A i \in 1..Len(waiters) : pc[waiters[i]] = "waiting"
    /\ \A i, j \in 1..Len(waiters) : waiters[i] = waiters[j] => i = j

\* No permit is lost or invented.
PermitsBalance == permits = MaxWorkers - Cardinality(Holders)

RunningListed == running = {t \in Tasks : pc[t] \in {"starting", "executing"}}

PoolInv == TypeOK /\ StatusFollows /\ WaitersWait /\ PermitsBalance /\ RunningListed

\* The holders of the semaphore are finitely many.
LEMMA HoldersFinite == IsFiniteSet(Holders) /\ Cardinality(Holders) \in Nat
  <1>1. Holders \subseteq Tasks
    BY DEF Holders
  <1>2. IsFiniteSet(Holders)
    BY <1>1, FS_Subset, PoolAssumption
  <1>3. QED
    BY <1>2, FS_CardinalityType

\* Initially the pool is empty and all permits are there.
LEMMA PoolInit == Init => PoolInv
  <1> SUFFICES ASSUME Init PROVE PoolInv
    OBVIOUS
  <1>1. Cardinality(Holders) = 0
    <2>1. Holders = {}
      BY DEF Init, Holders
    <2>2. QED
      BY <2>1, FS_EmptySet
  <1>2. TypeOK
    BY PoolAssumption DEF Init, TypeOK, Places
  <1>3. StatusFollows
    BY DEF Init, StatusFollows
  <1>4. WaitersWait
    BY DEF Init, WaitersWait
  <1>5. PermitsBalance
    BY <1>1, PoolAssumption DEF Init, PermitsBalance
  <1>6. RunningListed
    BY DEF Init, RunningListed
  <1>7. QED
    BY <1>2, <1>3, <1>4, <1>5, <1>6 DEF PoolInv

-----------------------------------------------------------------------------
(* The steps. *)

\* Cancelling all tasks only writes statuses, and only of tasks that have not ended.
LEMMA CancelAllInv ==
    ASSUME PoolInv, CancelAll, UNCHANGED <<pc, seq, waiters, permits, running>>,
           consumer' \in {"off", "on", "stopping"},
           cancels' \in 0..MaxCancels, restarts' \in 0..MaxRestarts
    PROVE  PoolInv'
  <1> DEFINE live == {t \in Tasks : status[t] \in {"queued", "running"}}
  <1>1. /\ status' = [t \in Tasks |-> IF t \in live THEN "cancelled" ELSE status[t]]
        /\ stats' = [stats EXCEPT !["cancelled"] = @ + Cardinality(live)]
    BY DEF CancelAll, Count
  <1>2. Cardinality(live) \in Nat
    BY PoolAssumption, FS_Subset, FS_CardinalityType
  <1>3. stats' \in [Finals -> Nat]
    BY <1>1, <1>2 DEF PoolInv, TypeOK, Finals
  <1>4. status' \in [Tasks -> {"none", "queued", "running"} \cup Finals]
    BY <1>1 DEF PoolInv, TypeOK, Finals
  <1>5. TypeOK'
    BY <1>3, <1>4 DEF PoolInv, TypeOK
  <1>6. StatusFollows'
    BY <1>1 DEF PoolInv, TypeOK, StatusFollows, Finals
  <1>7. WaitersWait' /\ PermitsBalance' /\ RunningListed'
    BY DEF PoolInv, WaitersWait, PermitsBalance, RunningListed, Holders
  <1>8. QED
    BY <1>5, <1>6, <1>7 DEF PoolInv

\* Whoever leaves one place for another without touching the semaphore leaves the permits
\* in balance.
LEMMA MoveInv ==
    ASSUME PoolInv, NEW t \in Tasks, NEW p \in Places, Move(t, p),
           pc[t] \notin {"waiting", "starting", "executing", "finishing"},
           p \notin {"waiting", "starting", "executing", "finishing"},
           UNCHANGED <<waiters, permits, running>>, TypeOK', StatusFollows'
    PROVE  PoolInv'
  <1>1. pc' = [pc EXCEPT ![t] = p] /\ pc \in [Tasks -> Places]
    BY DEF Move, PoolInv, TypeOK
  <1>2. Holders' = Holders
    BY <1>1 DEF Holders
  <1>3. RunningListed'
    BY <1>1 DEF PoolInv, RunningListed
  <1>4. WaitersWait'
    BY <1>1 DEF PoolInv, WaitersWait, TypeOK
  <1>5. PermitsBalance'
    BY <1>2 DEF PoolInv, PermitsBalance
  <1>6. QED
    BY <1>3, <1>4, <1>5 DEF PoolInv

\* A submitted task is queued, or its submitter is.
LEMMA SubmitInv == ASSUME PoolInv, NEW t \in Tasks, Submit(t) PROVE PoolInv'
  <1> DEFINE p == IF QueueFull THEN "putting" ELSE "queue"
  <1>1. /\ status[t] = "none" /\ Move(t, p)
        /\ status' = [status EXCEPT ![t] = "queued"]
        /\ seq' = [seq EXCEPT ![t] = Cardinality(Submitted) + 1]
        /\ UNCHANGED <<waiters, permits, running, consumer, stats, cancels, restarts>>
    BY DEF Submit, boundVars
  <1>2. Cardinality(Submitted) \in Nat
    BY PoolAssumption, FS_Subset, FS_CardinalityType DEF Submitted
  <1>3. p \in {"putting", "queue"} /\ p \in Places
    BY DEF Places
  <1> HIDE DEF p
  <1>4. pc[t] = "none" /\ pc' = [pc EXCEPT ![t] = p]
    BY <1>1 DEF PoolInv, StatusFollows, Move
  <1>5. TypeOK'
    BY <1>1, <1>2, <1>3, <1>4 DEF PoolInv, TypeOK
  <1>6. StatusFollows'
    BY <1>1, <1>3, <1>4 DEF PoolInv, TypeOK, StatusFollows
  <1>7. QED
    BY <1>1, <1>3, <1>4, <1>5, <1>6, MoveInv

\* A blocked submitter goes on.
LEMMA UnblockInv == ASSUME PoolInv, NEW t \in Tasks, Unblock(t) PROVE PoolInv'
  <1>1. /\ pc[t] = "putting" /\ Move(t, "queue") /\ "queue" \in Places
        /\ UNCHANGED <<status, seq, waiters, permits, running, consumer, stats, cancels, restarts>>
    BY DEF Unblock, boundVars, Places
  <1>2. pc' = [pc EXCEPT ![t] = "queue"]
    BY <1>1 DEF Move
  <1>3. TypeOK'
    BY <1>1, <1>2 DEF PoolInv, TypeOK
  <1>4. StatusFollows'
    BY <1>1, <1>2 DEF PoolInv, TypeOK, StatusFollows
  <1>5. QED
    BY <1>1, <1>3, <1>4, MoveInv

\* A cancelled task leaves the queue for good, any other for the semaphore.
LEMMA ConsumeInv == ASSUME PoolInv, NEW t \in Tasks, Consume(t) PROVE PoolInv'
  <1>1. /\ pc[t] = "queue"
        /\ UNCHANGED <<status, seq, permits, running, consumer, stats, cancels, restarts>>
    BY DEF Consume, boundVars
  <1>2. CASE status[t] = "cancelled" /\ Move(t, "gone") /\ UNCHANGED waiters
    <2>1. pc' = [pc EXCEPT ![t] = "gone"] /\ "gone" \in Places
      BY <1>2 DEF Move, Places
    <2>2. TypeOK'
      BY <1>1, <1>2, <2>1 DEF PoolInv, TypeOK
    <2>3. StatusFollows'
      BY <1>1, <1>2, <2>1 DEF PoolInv, TypeOK, StatusFollows, Finals
    <2>4. QED
      BY <1>1, <1>2, <2>1, <2>2, <2>3, MoveInv
  <1>3. CASE status[t] # "cancelled" /\ Move(t, "waiting") /\ waiters' = Append(waiters, t)
    <2>1. pc' = [pc EXCEPT ![t] = "waiting"] /\ "waiting" \in Places
      BY <1>3 DEF Move, Places
    <2>2. TypeOK'
      BY <1>1, <1>3, <2>1 DEF PoolInv, TypeOK
    <2>3. StatusFollows'
      BY <1>1, <1>3, <2>1 DEF PoolInv, TypeOK, StatusFollows, Finals
    <2>4. \A i \in 1..Len(waiters) : waiters[i] # t /\ waiters[i] \in Tasks
      BY <1>1 DEF PoolInv, WaitersWait, TypeOK
    <2>5. WaitersWait'
      <3>1. PICK n \in Nat : n = Len(waiters)
        BY DEF PoolInv, TypeOK
      <3>2. Len(waiters') = n + 1 /\ waiters'[n + 1] = t /\ \A i \in 1..n : waiters'[i] = waiters[i]
        BY <1>3, <3>1 DEF PoolInv, TypeOK
      <3>3. \A i \in 1..(n + 1) : i \in 1..n \/ i = n + 1
        BY <3>1
      <3>4. pc'[t] = "waiting" /\ \A u \in Tasks : pc[u] = "waiting" => pc'[u] = "waiting"
        BY <2>1 DEF PoolInv, TypeOK
      <3>5. \A i \in 1..(n + 1) : pc'[waiters'[i]] = "waiting"
        BY <2>4, <3>1, <3>2, <3>3, <3>4 DEF PoolInv, WaitersWait
      <3>6. \A i, j \in 1..(n + 1) : waiters'[i] = waiters'[j] => i = j
        BY <2>4, <3>1, <3>2, <3>3 DEF PoolInv, WaitersWait
      <3> QED
        BY <3>2, <3>5, <3>6 DEF WaitersWait
    <2>6. Holders' = Holders
      BY <1>1, <2>1 DEF PoolInv, TypeOK, Holders
    <2>7. PermitsBalance' /\ RunningListed'
      BY <1>1, <2>1, <2>6 DEF PoolInv, TypeOK, PermitsBalance, RunningListed
    <2>8. QED
      BY <2>2, <2>3, <2>5, <2>7 DEF PoolInv
  <1>4. QED
    BY <1>2, <1>3 DEF Consume

\* The first waiter of the semaphore leaves the line.
LEMMA HeadWaits ==
    ASSUME PoolInv, waiters # <<>>
    PROVE  /\ Head(waiters) \in Tasks /\ pc[Head(waiters)] = "waiting"
           /\ Tail(waiters) \in Seq(Tasks)
           /\ \A i \in 1..Len(Tail(waiters)) :
                  pc[Tail(waiters)[i]] = "waiting" /\ Tail(waiters)[i] # Head(waiters)
           /\ \A i, j \in 1..Len(Tail(waiters)) : Tail(waiters)[i] = Tail(waiters)[j] => i = j
  <1>1. waiters \in Seq(Tasks) /\ Len(waiters) \in Nat \ {0} /\ Head(waiters) = waiters[1]
    BY DEF PoolInv, TypeOK
  <1>2. /\ Tail(waiters) \in Seq(Tasks) /\ Len(Tail(waiters)) = Len(waiters) - 1
        /\ \A i \in 1..Len(Tail(waiters)) : Tail(waiters)[i] = waiters[i + 1]
    BY <1>1
  <1>3. 1 \in 1..Len(waiters) /\ \A i \in 1..Len(Tail(waiters)) : i + 1 \in 1..Len(waiters) /\ i + 1 # 1
    BY <1>1, <1>2
  <1>4. QED
    BY <1>1, <1>2, <1>3 DEF PoolInv, WaitersWait

\* A runner enters the semaphore and takes a permit, or gives up the one it was offered.
LEMMA RunInv == ASSUME PoolInv, NEW t \in Tasks, Run(t) PROVE PoolInv'
  <1>1. /\ waiters # <<>> /\ t = Head(waiters) /\ permits > 0 /\ waiters' = Tail(waiters)
        /\ UNCHANGED <<seq, consumer, stats, cancels, restarts>>
    BY DEF Run, boundVars
  <1>2. /\ pc[t] = "waiting"
        /\ waiters' \in Seq(Tasks)
        /\ \A i \in 1..Len(waiters') : pc[waiters'[i]] = "waiting" /\ waiters'[i] # t
        /\ \A i, j \in 1..Len(waiters') : waiters'[i] = waiters'[j] => i = j
    BY <1>1, HeadWaits
  <1>3. permits \in 1..MaxWorkers
    BY <1>1, PoolAssumption DEF PoolInv, TypeOK
  <1>4. CASE status[t] = "cancelled" /\ Move(t, "gone") /\ UNCHANGED <<status, running, permits>>
    <2>1. pc' = [pc EXCEPT ![t] = "gone"] /\ "gone" \in Places
      BY <1>4 DEF Move, Places
    <2>2. TypeOK'
      BY <1>1, <1>2, <1>4, <2>1 DEF PoolInv, TypeOK
    <2>3. StatusFollows'
      BY <1>2, <1>4, <2>1 DEF PoolInv, TypeOK, StatusFollows, Finals
    <2>4. WaitersWait'
      <3>1. \A i \in 1..Len(waiters') : pc'[waiters'[i]] = "waiting"
        BY <1>2, <2>1 DEF PoolInv, TypeOK
      <3>2. QED
        BY <1>2, <3>1 DEF WaitersWait
    <2>5. Holders' = Holders
      BY <1>2, <2>1 DEF PoolInv, TypeOK, Holders
    <2>6. PermitsBalance' /\ RunningListed'
      BY <1>2, <1>4, <2>1, <2>5 DEF PoolInv, TypeOK, PermitsBalance, RunningListed
    <2>7. QED
      BY <2>2, <2>3, <2>4, <2>6 DEF PoolInv
  <1>5. CASE /\ status[t] # "cancelled" /\ status' = [status EXCEPT ![t] = "running"]
             /\ running' = running \cup {t} /\ permits' = permits - 1 /\ Move(t, "starting")
    <2>1. pc' = [pc EXCEPT ![t] = "starting"] /\ "starting" \in Places
      BY <1>5 DEF Move, Places
    <2>2. permits' \in 0..MaxWorkers
      BY <1>3, <1>5, PoolAssumption
    <2>3. TypeOK'
      BY <1>1, <1>2, <1>5, <2>1, <2>2 DEF PoolInv, TypeOK
    <2>4. StatusFollows'
      BY <1>2, <1>5, <2>1 DEF PoolInv, TypeOK, StatusFollows, Finals
    <2>5. WaitersWait'
      <3>1. \A i \in 1..Len(waiters') : pc'[waiters'[i]] = "waiting"
        BY <1>2, <2>1 DEF PoolInv, TypeOK
      <3>2. QED
        BY <1>2, <3>1 DEF WaitersWait
    <2>6. Holders' = Holders \cup {t} /\ t \notin Holders
      BY <1>2, <2>1 DEF PoolInv, TypeOK, Holders
    <2>7. Cardinality(Holders') = Cardinality(Holders) + 1
      BY <2>6, HoldersFinite, FS_AddElement
    <2>8. PermitsBalance'
      BY <1>3, <1>5, <2>7, HoldersFinite, PoolAssumption DEF PoolInv, PermitsBalance
    <2>9. RunningListed'
      BY <1>5, <2>1 DEF PoolInv, TypeOK, RunningListed
    <2>10. QED
      BY <2>3, <2>4, <2>5, <2>8, <2>9 DEF PoolInv
  <1>6. QED
    BY <1>4, <1>5 DEF Run

\* The function is called.
LEMMA ExecuteInv == ASSUME PoolInv, NEW t \in Tasks, Execute(t) PROVE PoolInv'
  <1>1. /\ pc[t] = "starting" /\ pc' = [pc EXCEPT ![t] = "executing"] /\ "executing" \in Places
        /\ UNCHANGED <<status, seq, waiters, permits, running, consumer, stats, cancels, restarts>>
    BY DEF Execute, Move, boundVars, Places
  <1>2. TypeOK'
    BY <1>1 DEF PoolInv, TypeOK
  <1>3. StatusFollows'
    BY <1>1 DEF PoolInv, TypeOK, StatusFollows
  <1>4. WaitersWait'
    BY <1>1 DEF PoolInv, WaitersWait, TypeOK
  <1>5. Holders' = Holders
    BY <1>1 DEF PoolInv, TypeOK, Holders
  <1>6. PermitsBalance' /\ RunningListed'
    BY <1>1, <1>5 DEF PoolInv, TypeOK, PermitsBalance, RunningListed
  <1>7. QED
    BY <1>2, <1>3, <1>4, <1>6 DEF PoolInv

\* The function ends, and its task leaves _running with its outcome.
LEMMA FinishInv ==
    ASSUME PoolInv, NEW t \in Tasks, NEW o \in Finals, Finish(t, o)
    PROVE  PoolInv'
  <1>1. /\ pc[t] = "executing" /\ pc' = [pc EXCEPT ![t] = "finishing"] /\ "finishing" \in Places
        /\ status' = [status EXCEPT ![t] = o] /\ stats' = [stats EXCEPT ![o] = @ + 1]
        /\ running' = running \ {t}
        /\ UNCHANGED <<seq, waiters, permits, consumer, cancels, restarts>>
    BY DEF Finish, Move, Count, boundVars, Places
  <1>2. stats' \in [Finals -> Nat]
    BY <1>1 DEF PoolInv, TypeOK
  <1>3. TypeOK'
    BY <1>1, <1>2 DEF PoolInv, TypeOK
  <1>4. StatusFollows'
    BY <1>1 DEF PoolInv, TypeOK, StatusFollows, Finals
  <1>5. WaitersWait'
    BY <1>1 DEF PoolInv, WaitersWait, TypeOK
  <1>6. Holders' = Holders
    BY <1>1 DEF PoolInv, TypeOK, Holders
  <1>7. PermitsBalance' /\ RunningListed'
    BY <1>1, <1>6 DEF PoolInv, TypeOK, PermitsBalance, RunningListed
  <1>8. QED
    BY <1>3, <1>4, <1>5, <1>7 DEF PoolInv

\* The permit goes back.
LEMMA ReleaseInv == ASSUME PoolInv, NEW t \in Tasks, Release(t) PROVE PoolInv'
  <1>1. /\ pc[t] = "finishing" /\ pc' = [pc EXCEPT ![t] = "gone"] /\ "gone" \in Places
        /\ permits' = permits + 1
        /\ UNCHANGED <<status, seq, waiters, running, consumer, stats, cancels, restarts>>
    BY DEF Release, Move, boundVars, Places
  <1>2. Holders' = Holders \ {t} /\ t \in Holders
    BY <1>1 DEF PoolInv, TypeOK, Holders
  <1>3. Cardinality(Holders') = Cardinality(Holders) - 1 /\ Cardinality(Holders') \in Nat
    BY <1>2, HoldersFinite, FS_RemoveElement, FS_CardinalityType
  <1>4. PermitsBalance' /\ permits' \in 0..MaxWorkers
    <2>1. permits = MaxWorkers - Cardinality(Holders) /\ permits \in 0..MaxWorkers
      BY DEF PoolInv, PermitsBalance, TypeOK
    <2>2. \A h, k \in Nat : permits = MaxWorkers - h /\ k = h - 1 => permits + 1 = MaxWorkers - k
      BY <2>1, PoolAssumption
    <2>3. permits' = MaxWorkers - Cardinality(Holders')
      BY <1>1, <1>3, <2>1, <2>2, HoldersFinite
    <2>4. permits' \in 0..MaxWorkers
      <3>1. \A k \in Nat : permits + 1 = MaxWorkers - k => permits + 1 \in 0..MaxWorkers
        BY <2>1, PoolAssumption
      <3>2. QED
        BY <1>1, <1>3, <2>3, <3>1
    <2>5. QED
      BY <2>3, <2>4 DEF PermitsBalance
  <1>5. TypeOK'
    BY <1>1, <1>4 DEF PoolInv, TypeOK
  <1>6. StatusFollows'
    BY <1>1 DEF PoolInv, TypeOK, StatusFollows
  <1>7. WaitersWait'
    BY <1>1 DEF PoolInv, WaitersWait, TypeOK
  <1>8. RunningListed'
    BY <1>1 DEF PoolInv, TypeOK, RunningListed
  <1>9. QED
    BY <1>4, <1>5, <1>6, <1>7, <1>8 DEF PoolInv

\* A cancelled task keeps its place.
LEMMA CancelInv == ASSUME PoolInv, NEW t \in Tasks, Cancel(t) PROVE PoolInv'
  <1>1. /\ status[t] \in {"queued", "running", "cancelled"}
        /\ cancels < MaxCancels /\ cancels' = cancels + 1
        /\ status' = [status EXCEPT ![t] = "cancelled"]
        /\ stats' = [stats EXCEPT !["cancelled"] = @ + 1]
        /\ UNCHANGED <<pc, seq, waiters, permits, running, consumer, restarts>>
    BY DEF Cancel, Count
  <1>2. stats' \in [Finals -> Nat] /\ cancels' \in 0..MaxCancels
    BY <1>1, PoolAssumption DEF PoolInv, TypeOK, Finals
  <1>3. status' \in [Tasks -> {"none", "queued", "running"} \cup Finals]
    BY <1>1 DEF PoolInv, TypeOK, Finals
  <1>4. TypeOK'
    BY <1>1, <1>2, <1>3 DEF PoolInv, TypeOK
  <1>5. StatusFollows'
    BY <1>1 DEF PoolInv, TypeOK, StatusFollows, Finals
  <1>6. WaitersWait' /\ PermitsBalance' /\ RunningListed'
    BY <1>1 DEF PoolInv, WaitersWait, PermitsBalance, RunningListed, Holders
  <1>7. QED
    BY <1>4, <1>5, <1>6 DEF PoolInv

\* The calls that concern the whole pool.
LEMMA PoolCallsInv ==
    ASSUME PoolInv,
           Start \/ (\E c \in BOOLEAN : Shutdown(c)) \/ ConsumerExits \/ CancelEverything
    PROVE  PoolInv'
  <1>1. CASE Start \/ ConsumerExits
    <2>1. /\ UNCHANGED <<status, pc, seq, waiters, permits, running, stats, cancels, restarts>>
          /\ consumer' \in {"off", "on", "stopping"}
      BY <1>1 DEF Start, ConsumerExits, boundVars
    <2>2. QED
      BY <2>1 DEF PoolInv, TypeOK, StatusFollows, WaitersWait, PermitsBalance, RunningListed, Holders
  <1>2. ASSUME NEW c \in BOOLEAN, Shutdown(c) PROVE PoolInv'
    <2>1. /\ UNCHANGED <<pc, seq, waiters, permits, running, cancels>>
          /\ consumer' \in {"off", "on", "stopping"}
          /\ restarts' \in 0..MaxRestarts /\ cancels' \in 0..MaxCancels
      BY <1>2, PoolAssumption DEF Shutdown, PoolInv, TypeOK
    <2>2. CASE CancelAll
      BY <2>1, <2>2, CancelAllInv
    <2>3. CASE UNCHANGED <<status, stats>>
      BY <2>1, <2>3 DEF PoolInv, TypeOK, StatusFollows, WaitersWait, PermitsBalance, RunningListed, Holders
    <2>4. QED
      BY <1>2, <2>2, <2>3 DEF Shutdown
  <1>3. CASE CancelEverything
    <2>1. /\ UNCHANGED <<pc, seq, waiters, permits, running>> /\ CancelAll
          /\ consumer' \in {"off", "on", "stopping"}
          /\ restarts' \in 0..MaxRestarts /\ cancels' \in 0..MaxCancels
      BY <1>3, PoolAssumption DEF CancelEverything, PoolInv, TypeOK
    <2>2. QED
      BY <2>1, CancelAllInv
  <1>4. QED
    BY <1>1, <1>2, <1>3

\* Every step keeps the invariant.
LEMMA PoolNext == ASSUME PoolInv, [Next]_vars PROVE PoolInv'
  <1>1. CASE UNCHANGED vars
    BY <1>1 DEF vars, boundVars, PoolInv, TypeOK, StatusFollows, WaitersWait, PermitsBalance,
               RunningListed, Holders
  <1>2. ASSUME NEW t \in Tasks, Submit(t) \/ Unblock(t) \/ Consume(t) \/ Runner(t) \/ Cancel(t)
        PROVE  PoolInv'
    BY <1>2, SubmitInv, UnblockInv, ConsumeInv, RunInv, ExecuteInv, FinishInv, ReleaseInv,
       CancelInv DEF Runner
  <1>3. QED
    BY <1>1, <1>2, PoolCallsInv DEF Next

-----------------------------------------------------------------------------
(* The theorems. *)

\* In every reachable state statuses, places, permits and waiters agree.
THEOREM PoolInvariant == Spec => []PoolInv
  <1>1. Init => PoolInv
    BY PoolInit
  <1>2. PoolInv /\ [Next]_vars => PoolInv'
    BY PoolNext
  <1>3. QED
    BY <1>1, <1>2, PTL DEF Spec

\* The pool's variables have their types; in particular the semaphore's value stays
\* between zero and max_workers.
THEOREM TypeCorrect == Spec => []TypeOK
  <1>1. PoolInv => TypeOK
    BY DEF PoolInv
  <1>2. QED
    BY <1>1, PoolInvariant, PTL

\* No cancellation, shutdown or restart lets more tasks run than there are workers.
THEOREM ConcurrencyLimit == Spec => []ConcurrencyBounded
  <1>1. PoolInv => ConcurrencyBounded
    <2> SUFFICES ASSUME PoolInv PROVE ConcurrencyBounded
      OBVIOUS
    <2>1. permits = MaxWorkers - Cardinality(Holders) /\ permits \in 0..MaxWorkers
      BY DEF PoolInv, PermitsBalance, TypeOK
    <2>2. \A h \in Nat : permits = MaxWorkers - h => h <= MaxWorkers
      BY <2>1, PoolAssumption
    <2>3. QED
      BY <2>1, <2>2, HoldersFinite DEF PoolInv, RunningListed, ConcurrencyBounded
  <1>2. QED
    BY <1>1, PoolInvariant, PTL

\* A step changes no final status of a task that is not running.
LEMMA FinalStep ==
    ASSUME PoolInv, [Next]_vars, NEW t \in Tasks, status[t] \in Finals, t \notin running
    PROVE  status'[t] = status[t]
  <1>1. /\ status \in [Tasks -> {"none", "queued", "running"} \cup Finals]
        /\ status[t] \notin {"none", "queued", "running"}
        /\ pc[t] # "executing"
    BY DEF PoolInv, TypeOK, RunningListed, Finals
  <1>2. CASE UNCHANGED vars
    BY <1>2 DEF vars
  <1>3. CASE Start \/ (\E c \in BOOLEAN : Shutdown(c)) \/ ConsumerExits \/ CancelEverything
    BY <1>1, <1>3 DEF Start, Shutdown, ConsumerExits, CancelEverything, CancelAll
  <1>4. ASSUME NEW u \in Tasks, Submit(u) \/ Unblock(u) \/ Consume(u) \/ Execute(u) \/ Release(u)
        PROVE  status'[t] = status[t]
    BY <1>1, <1>4 DEF Submit, Unblock, Consume, Execute, Release
  <1>5. ASSUME NEW u \in Tasks, Run(u)
        PROVE  status'[t] = status[t]
    <2>1. pc[u] = "waiting"
      BY <1>5, HeadWaits DEF Run
    <2>2. CASE t = u
      <3>1. status[u] = "cancelled"
        BY <1>1, <2>1, <2>2 DEF PoolInv, StatusFollows
      <3>2. QED
        BY <1>5, <3>1, <2>2 DEF Run
    <2>3. CASE t # u
      BY <1>1, <1>5, <2>3 DEF Run
    <2>4. QED
      BY <2>2, <2>3
  <1>6. ASSUME NEW u \in Tasks, NEW o \in Finals, Finish(u, o)
        PROVE  status'[t] = status[t]
    BY <1>1, <1>6 DEF Finish
  <1>7. ASSUME NEW u \in Tasks, Cancel(u)
        PROVE  status'[t] = status[t]
    BY <1>1, <1>7 DEF Cancel
  <1>8. QED
    BY <1>2, <1>3, <1>4, <1>5, <1>6, <1>7 DEF Next, Runner

\* Whatever wait_for returned stays true, unless the task was cancelled while it ran.
THEOREM FinalStatusStands == Spec => FinalStands
  <1>1. PoolInv /\ [Next]_vars =>
            [\A t \in Tasks :
                status[t] \in Finals /\ t \notin running => status'[t] = status[t]]_vars
    BY FinalStep
  <1>2. QED
    BY <1>1, PoolInvariant, PTL DEF Spec, FinalStands

-----------------------------------------------------------------------------
(* The statistics. *)

\* The tasks of a status.
Having(o) == {t \in Tasks : status[t] = o}

\* They are finitely many, before and after a step.
LEMMA HavingFinite ==
    ASSUME NEW o
    PROVE  /\ IsFiniteSet(Having(o)) /\ Cardinality(Having(o)) \in Nat
           /\ IsFiniteSet(Having(o)') /\ Cardinality(Having(o)') \in Nat
  <1>1. Having(o) \subseteq Tasks /\ Having(o)' \subseteq Tasks
    BY DEF Having
  <1>2. QED
    BY <1>1, PoolAssumption, FS_Subset, FS_CardinalityType

\* Steps that move no task into or out of a final status keep the statistics.
LEMMA StatsKept ==
    ASSUME StatsExact, UNCHANGED stats, \A o \in Finals : Having(o)' = Having(o)
    PROVE  StatsExact'
  BY DEF StatsExact, Having, Finals

\* Cancelling tasks that have not ended: all of them are counted.
LEMMA CancelAllStats ==
    ASSUME PoolInv, StatsExact, CancelAll
    PROVE  StatsExact'
  <1> DEFINE live == {t \in Tasks : status[t] \in {"queued", "running"}}
  <1>1. /\ status' = [t \in Tasks |-> IF t \in live THEN "cancelled" ELSE status[t]]
        /\ stats' = [stats EXCEPT !["cancelled"] = @ + Cardinality(live)]
        /\ stats \in [Finals -> Nat]
    BY DEF CancelAll, Count, PoolInv, TypeOK
  <1>2. \A o \in Finals \ {"cancelled"} : Having(o)' = Having(o) /\ stats'[o] = stats[o]
    BY <1>1 DEF Having, Finals
  <1>3. Having("cancelled")' = Having("cancelled") \cup live
    BY <1>1 DEF Having
  <1>4. IsFiniteSet(live) /\ Cardinality(live) \in Nat /\ live \cap Having("cancelled") = {}
    BY PoolAssumption, FS_Subset, FS_CardinalityType DEF Having
  <1>5. Cardinality(Having("cancelled")') = Cardinality(Having("cancelled")) + Cardinality(live)
    <2> DEFINE h == Having("cancelled")
    <2>1. IsFiniteSet(h) /\ Cardinality(h) \in Nat /\ h \cap live = {}
      BY <1>4, HavingFinite
    <2>2. Having("cancelled")' = h \cup live
      BY <1>3
    <2> HIDE DEF h, live
    <2>3. Cardinality(h \cap live) = 0
      BY <2>1, FS_EmptySet
    <2>4. Cardinality(h \cup live) = Cardinality(h) + Cardinality(live) - Cardinality(h \cap live)
      BY <1>4, <2>1, FS_Union
    <2>5. Cardinality(h \cup live) = Cardinality(h) + Cardinality(live)
      BY <1>4, <2>1, <2>3, <2>4
    <2>6. QED
      BY <2>2, <2>5 DEF h
  <1>6. stats'["cancelled"] = stats["cancelled"] + Cardinality(live) /\ stats["cancelled"] \in Nat
    BY <1>1 DEF Finals
  <1> HIDE DEF live
  <1>7. stats["cancelled"] >= Cardinality(Having("cancelled"))
    BY DEF StatsExact, Having
  <1>8. stats'["cancelled"] >= Cardinality(Having("cancelled")')
    BY <1>4, <1>5, <1>6, <1>7, HavingFinite
  <1>9. QED
    BY <1>2, <1>8 DEF StatsExact, Having

\* A function that ends is counted under its outcome; a cancelled one may lose that status
\* then, but not its count.
LEMMA FinishStats ==
    ASSUME PoolInv, StatsExact, NEW t \in Tasks, NEW o \in Finals, Finish(t, o)
    PROVE  StatsExact'
  <1>1. /\ pc[t] = "executing" /\ status' = [status EXCEPT ![t] = o]
        /\ stats' = [stats EXCEPT ![o] = @ + 1]
        /\ stats \in [Finals -> Nat]
        /\ status \in [Tasks -> {"none", "queued", "running"} \cup Finals]
    BY DEF Finish, Count, PoolInv, TypeOK
  <1>2. status[t] \in {"running", "cancelled"}
    BY <1>1 DEF PoolInv, StatusFollows
  <1>3. ASSUME NEW q \in Finals \ {"cancelled"}
        PROVE  stats'[q] = Cardinality(Having(q)')
    <2>1. stats[q] = Cardinality(Having(q))
      BY DEF StatsExact, Having
    <2>2. CASE q = o
      <3>1. Having(q)' = Having(q) \cup {t} /\ t \notin Having(q)
        BY <1>1, <1>2, <2>2 DEF Having, Finals
      <3>2. Cardinality(Having(q)') = Cardinality(Having(q)) + 1
        BY <3>1, HavingFinite, FS_AddElement
      <3>3. stats'[q] = stats[q] + 1
        BY <1>1, <2>2
      <3>4. QED
        BY <2>1, <3>2, <3>3
    <2>3. CASE q # o
      <3>1. Having(q)' = Having(q) /\ stats'[q] = stats[q]
        BY <1>1, <1>2, <2>3 DEF Having, Finals
      <3>2. QED
        BY <2>1, <3>1
    <2>4. QED
      BY <2>2, <2>3
  <1>4. stats'["cancelled"] >= Cardinality(Having("cancelled")')
    <2>1. stats["cancelled"] >= Cardinality(Having("cancelled")) /\ stats["cancelled"] \in Nat
      BY <1>1 DEF StatsExact, Having, Finals
    <2>2. CASE o = "cancelled"
      <3>1. stats'["cancelled"] = stats["cancelled"] + 1
        BY <1>1, <2>2
      <3>2. Having("cancelled")' = Having("cancelled") \cup {t}
        BY <1>1, <2>2 DEF Having
      <3>3. Cardinality(Having("cancelled")') <= Cardinality(Having("cancelled")) + 1
        BY <3>2, HavingFinite, FS_AddElement
      <3>4. QED
        BY <2>1, <3>1, <3>3, HavingFinite
    <2>3. CASE o # "cancelled"
      <3>1. stats'["cancelled"] = stats["cancelled"]
        BY <1>1, <2>3 DEF Finals
      <3>2. Having("cancelled")' \subseteq Having("cancelled")
        BY <1>1, <2>3 DEF Having
      <3>3. Cardinality(Having("cancelled")') <= Cardinality(Having("cancelled"))
        BY <3>2, HavingFinite, FS_Subset
      <3>4. QED
        BY <2>1, <3>1, <3>3, HavingFinite
    <2>4. QED
      BY <2>2, <2>3
  <1>5. QED
    BY <1>3, <1>4 DEF StatsExact, Having

\* Every call of cancel that is heeded is counted, and adds at most one cancelled task.
LEMMA CancelStats ==
    ASSUME PoolInv, StatsExact, NEW t \in Tasks, Cancel(t)
    PROVE  StatsExact'
  <1>1. /\ status[t] \in {"queued", "running", "cancelled"}
        /\ status' = [status EXCEPT ![t] = "cancelled"]
        /\ stats' = [stats EXCEPT !["cancelled"] = @ + 1]
        /\ stats \in [Finals -> Nat]
        /\ status \in [Tasks -> {"none", "queued", "running"} \cup Finals]
    BY DEF Cancel, Count, PoolInv, TypeOK
  <1>2. \A o \in Finals \ {"cancelled"} : Having(o)' = Having(o) /\ stats'[o] = stats[o]
    BY <1>1 DEF Having, Finals
  <1>3. Having("cancelled")' = Having("cancelled") \cup {t}
    BY <1>1 DEF Having
  <1>4. Cardinality(Having("cancelled")') <= Cardinality(Having("cancelled")) + 1
    BY <1>3, HavingFinite, FS_AddElement
  <1>5. stats'["cancelled"] = stats["cancelled"] + 1 /\ stats["cancelled"] \in Nat
    BY <1>1 DEF Finals
  <1>6. stats["cancelled"] >= Cardinality(Having("cancelled"))
    BY DEF StatsExact, Having
  <1>7. stats'["cancelled"] >= Cardinality(Having("cancelled")')
    BY <1>4, <1>5, <1>6, HavingFinite
  <1>8. QED
    BY <1>2, <1>7 DEF StatsExact, Having

\* Every step keeps the statistics exact.
LEMMA StatsStep ==
    ASSUME PoolInv, StatsExact, [Next]_vars
    PROVE  StatsExact'
  <1>1. status \in [Tasks -> {"none", "queued", "running"} \cup Finals]
    BY DEF PoolInv, TypeOK
  <1>2. CASE UNCHANGED <<status, stats>>
    BY <1>2, StatsKept DEF Having
  <1>3. ASSUME NEW c \in BOOLEAN, Shutdown(c) PROVE StatsExact'
    BY <1>2, <1>3, CancelAllStats DEF Shutdown
  <1>4. ASSUME NEW t \in Tasks, Submit(t) PROVE StatsExact'
    <2>1. status[t] = "none" /\ status' = [status EXCEPT ![t] = "queued"] /\ UNCHANGED stats
      BY <1>4 DEF Submit
    <2>2. \A o \in Finals : Having(o)' = Having(o)
      BY <1>1, <2>1 DEF Having, Finals
    <2>3. QED
      BY <2>1, <2>2, StatsKept
  <1>5. ASSUME NEW t \in Tasks, Run(t) PROVE StatsExact'
    <2>1. pc[t] = "waiting" /\ UNCHANGED stats
      BY <1>5, HeadWaits DEF Run
    <2>2. CASE status[t] # "cancelled" /\ status' = [status EXCEPT ![t] = "running"]
      <3>1. status[t] = "queued"
        BY <2>1, <2>2 DEF PoolInv, StatusFollows
      <3>2. \A o \in Finals : Having(o)' = Having(o)
        BY <1>1, <2>2, <3>1 DEF Having, Finals
      <3>3. QED
        BY <2>1, <3>2, StatsKept
    <2>3. QED
      BY <1>2, <1>5, <2>1, <2>2 DEF Run
  <1>6. ASSUME NEW t \in Tasks, Unblock(t) \/ Consume(t) \/ Execute(t) \/ Release(t)
        PROVE  StatsExact'
    BY <1>2, <1>6 DEF Unblock, Consume, Execute, Release
  <1>7. CASE Start \/ ConsumerExits \/ UNCHANGED vars
    BY <1>2, <1>7 DEF Start, ConsumerExits, vars
  <1>8. CASE CancelEverything
    BY <1>8, CancelAllStats DEF CancelEverything
  <1>9. QED
    BY <1>3, <1>4, <1>5, <1>6, <1>7, <1>8, FinishStats, CancelStats DEF Next, Runner

\* The counters of completed, failed and timed out tasks are exact, however often tasks are
\* cancelled while they run, and no cancelled task is missing from its counter.
THEOREM StatsAreExact == Spec => []StatsExact
  <1>1. Init => StatsExact
    <2> SUFFICES ASSUME Init PROVE StatsExact
      OBVIOUS
    <2>1. \A o \in Finals : Having(o) = {} /\ stats[o] = 0
      BY DEF Init, Having, Finals
    <2>2. \A o \in Finals : Cardinality(Having(o)) = 0
      BY <2>1, FS_EmptySet
    <2>3. QED
      BY <2>1, <2>2 DEF StatsExact, Having, Finals
  <1>2. PoolInv /\ StatsExact /\ [Next]_vars => StatsExact'
    BY StatsStep
  <1>3. QED
    BY <1>1, <1>2, PoolInvariant, PTL DEF Spec

-----------------------------------------------------------------------------
(* Numbers. *)

\* Every set of natural numbers that is not empty has a least element: finite sets are well
\* ordered by inclusion, and 0..n grows with n.
LEMMA LeastNumber ==
    ASSUME NEW T \in SUBSET Nat, T # {}
    PROVE  \E x \in T : \A y \in T : x <= y
<1> DEFINE R == StrictSubsetOrdering(Nat)
           Upto(n) == 0..n
           B == {Upto(n) : n \in T}
<1>1. IsWellFoundedOn(R, FiniteSubsetsOf(Nat))
  BY FS_StrictSubsetOrderingWellFounded
<1>2. B \subseteq FiniteSubsetsOf(Nat)
  <2>1. ASSUME NEW n \in T
        PROVE  Upto(n) \in FiniteSubsetsOf(Nat)
    <3>1. IsFiniteSet(0..n)
      BY FS_Interval
    <3> QED
      BY <3>1 DEF FiniteSubsetsOf
  <2> QED
    BY <2>1
<1>3. B # {}
  OBVIOUS
<1> HIDE DEF R, B
<1>4. PICK x \in B : \A y \in B : ~(<<y, x>> \in R)
  BY <1>1, <1>2, <1>3, WFMin
<1> USE DEF R, B
<1>5. PICK n \in T : x = Upto(n)
  BY <1>4
<1>6. SUFFICES ASSUME NEW m \in T, m < n PROVE FALSE
  BY DEF B
<1>7. Upto(m) \subseteq Upto(n) /\ n \in Upto(n) /\ n \notin Upto(m)
  BY <1>6
<1>8. <<Upto(m), Upto(n)>> \in R
  BY <1>7 DEF StrictSubsetOrdering
<1> QED
  BY <1>4, <1>5, <1>6, <1>8

\* What holds of 0, and of n + 1 if of n, holds of every number up to a bound.
LEMMA Induction ==
    ASSUME NEW N \in Nat, NEW T, 0 \in T, \A n \in 0..(N - 1) : n \in T => n + 1 \in T
    PROVE  0..N \subseteq T
<1> SUFFICES ASSUME (0..N) \ T # {} PROVE FALSE
  OBVIOUS
<1>1. PICK x \in (0..N) \ T : \A y \in (0..N) \ T : x <= y
  <2> DEFINE B == (0..N) \ T
  <2>1. B \in SUBSET Nat /\ B # {}
    OBVIOUS
  <2> HIDE DEF B
  <2>2. \E x \in B : \A y \in B : x <= y
    BY <2>1, LeastNumber
  <2> QED
    BY <2>2 DEF B
<1>2. x # 0 /\ x - 1 \in 0..(N - 1) /\ x - 1 < x /\ x - 1 + 1 = x
  BY <1>1
<1>3. x - 1 \in T
  BY <1>1, <1>2
<1> QED
  BY <1>1, <1>2, <1>3

-----------------------------------------------------------------------------
(* Lists, and what FlattenSeq makes of them. *)

LEMMA Lists ==
    ASSUME NEW S, NEW T, <<>> \in T,
           \A s \in Seq(S), x \in S : s \in T => Append(s, x) \in T
    PROVE  Seq(S) \subseteq T
<1> SUFFICES ASSUME NEW s \in Seq(S) PROVE s \in T
  OBVIOUS
<1> DEFINE U == {n \in 0..Len(s) : SubSeq(s, 1, n) \in T}
<1>1. Len(s) \in Nat
  BY LenProperties
<1>2. 0 \in U
  <2>1. 0 \in 0..Len(s) /\ SubSeq(s, 1, 0) = <<>>
    BY <1>1, SubSeqEmpty
  <2> QED
    BY <2>1
<1>3. ASSUME NEW n \in 0..(Len(s) - 1), n \in U
      PROVE  n + 1 \in U
  <2>1. n + 1 \in 1..Len(s) /\ 1 \in 1..Len(s) /\ n + 1 - 1 = n /\ n \in Nat
    BY <1>1
  <2>2. SubSeq(s, 1, n) \in Seq(S)
    <3>1. \A i \in 1..n : s[i] \in S
      BY <1>1, <2>1, ElementOfSeq
    <3> QED
      BY <2>1, <3>1, SubSeqProperties
  <2>3. s[n + 1] \in S
    BY <2>1, ElementOfSeq
  <2>4. SubSeq(s, 1, n + 1) = SubSeq(s, 1, n) \o <<s[n + 1]>>
    <3>1. SubSeq(s, 1, n + 1) = SubSeq(s, 1, n + 1 - 1) \o <<s[n + 1]>>
      BY <2>1, SubSeqRecursiveSecond
    <3> QED
      BY <2>1, <3>1
  <2>5. Append(SubSeq(s, 1, n), s[n + 1]) = SubSeq(s, 1, n) \o <<s[n + 1]>>
    BY <2>2, <2>3, AppendIsConcat
  <2>6. Append(SubSeq(s, 1, n), s[n + 1]) \in T
    BY <1>3, <2>2, <2>3
  <2>7. SubSeq(s, 1, n + 1) \in T
    BY <2>4, <2>5, <2>6
  <2>8. n + 1 \in 0..Len(s)
    BY <2>1
  <2> QED
    BY <2>7, <2>8
<1> HIDE DEF U
<1>4. Len(s) \in U
  <2>1. 0..Len(s) \subseteq U
    BY <1>1, <1>2, <1>3, Induction
  <2> QED
    BY <1>1, <2>1
<1> QED
  <2>1. SubSeq(s, 1, Len(s)) = s
    BY SubSeqFull
  <2>2. SubSeq(s, 1, Len(s)) \in T
    BY <1>4 DEF U
  <2> QED
    BY <2>1, <2>2

\* FlattenSeq takes the lists one after the other.
Flattens(f, ss) == f = [i \in 1..Len(ss) |-> IF i = 1 THEN ss[i] ELSE f[i - 1] \o ss[i]]

LEMMA FlattensAt ==
    ASSUME NEW f, NEW ss, Flattens(f, ss), NEW i \in 1..Len(ss)
    PROVE  (i = 1 => f[i] = ss[i]) /\ (i # 1 => f[i] = f[i - 1] \o ss[i])
<1> DEFINE e(j) == IF j = 1 THEN ss[j] ELSE f[j - 1] \o ss[j]
<1>1. f = [j \in 1..Len(ss) |-> e(j)]
  BY DEF Flattens
<1> HIDE DEF e
<1>2. f[i] = e(i)
  BY <1>1
<1> QED
  BY <1>2 DEF e

LEMMA OneFlattens ==
    ASSUME NEW f, NEW g, NEW n \in Nat, NEW ss, Len(ss) = n, Flattens(f, ss), Flattens(g, ss)
    PROVE  f = g
<1> DEFINE T == {k \in 0..n : \A i \in 1..k : f[i] = g[i]}
<1>1. 0 \in T
  OBVIOUS
<1>2. ASSUME NEW k \in 0..(n - 1), k \in T
      PROVE  k + 1 \in T
  <2>1. k + 1 \in 1..n /\ k + 1 - 1 = k /\ (k + 1 # 1 => f[k] = g[k])
    BY <1>2
  <2>2. PICK m \in 1..Len(ss) : m = k + 1
    BY <2>1
  <2>3. f[k + 1] = g[k + 1]
    <3>1. /\ m = 1 => f[m] = ss[m]
          /\ m # 1 => f[m] = f[m - 1] \o ss[m]
      BY FlattensAt
    <3>2. /\ m = 1 => g[m] = ss[m]
          /\ m # 1 => g[m] = g[m - 1] \o ss[m]
      BY FlattensAt
    <3>3. m # 1 => f[m - 1] = g[m - 1]
      BY <2>1, <2>2
    <3>4. f[m] = g[m]
      BY <3>1, <3>2, <3>3
    <3> QED
      BY <2>2, <3>4
  <2>4. \A i \in 1..(k + 1) : i \in 1..k \/ i = k + 1
    OBVIOUS
  <2> QED
    BY <1>2, <2>1, <2>3, <2>4
<1> HIDE DEF T
<1>3. n \in T
  <2>1. 0..n \subseteq T
    BY <1>1, <1>2, Induction
  <2> QED
    BY <2>1
<1>4. \A i \in 1..n : f[i] = g[i]
  BY <1>3 DEF T
<1> QED
  BY <1>4 DEF Flattens

LEMMA FlattensExists ==
    ASSUME NEW n \in Nat, NEW ss, Len(ss) = n
    PROVE  \E f : Flattens(f, ss)
<1> DEFINE Upto(f, k) == f = [i \in 1..k |-> IF i = 1 THEN ss[i] ELSE f[i - 1] \o ss[i]]
           T == {k \in 0..n : \E f : Upto(f, k)}
<1>1. 0 \in T
  <2>1. Upto([i \in 1..0 |-> ss], 0)
    <3>1. 1..0 = {}
      OBVIOUS
    <3> QED
      BY <3>1
  <2> HIDE DEF Upto
  <2> QED
    BY <2>1
<1>2. ASSUME NEW k \in 0..(n - 1), k \in T
      PROVE  k + 1 \in T
  <2>1. PICK f : Upto(f, k)
    BY <1>2
  <2> DEFINE g == [i \in 1..(k + 1) |-> IF i \in 1..k THEN f[i] ELSE IF i = 1 THEN ss[i] ELSE f[k] \o ss[i]]
  <2>2. \A i \in 1..(k + 1) : g[i] = IF i = 1 THEN ss[i] ELSE g[i - 1] \o ss[i]
    <3> SUFFICES ASSUME NEW i \in 1..(k + 1)
                 PROVE  g[i] = IF i = 1 THEN ss[i] ELSE g[i - 1] \o ss[i]
      OBVIOUS
    <3>1. CASE i \in 1..k
      <4>1. g[i] = f[i] /\ (i # 1 => g[i - 1] = f[i - 1])
        BY <3>1
      <4> QED
        BY <2>1, <3>1, <4>1
    <3>2. CASE i = k + 1
      <4>1. i - 1 = k /\ i \notin 1..k /\ (i # 1 => g[i - 1] = f[k])
        BY <3>2
      <4> QED
        BY <3>2, <4>1
    <3> QED
      BY <3>1, <3>2
  <2>3. Upto(g, k + 1)
    <3> HIDE DEF g
    <3>1. g = [i \in 1..(k + 1) |-> g[i]]
      BY DEF g
    <3> QED
      BY <2>2, <3>1
  <2> HIDE DEF Upto, g
  <2> QED
    BY <2>3
<1> HIDE DEF T
<1>3. n \in T
  <2>1. 0..n \subseteq T
    BY <1>1, <1>2, Induction
  <2> QED
    BY <2>1
<1> USE DEF T
<1>4. \E f : Upto(f, n)
  BY <1>3
<1> QED
  BY <1>4 DEF Flattens

LEMMA FlattenIs ==
    ASSUME NEW f, NEW n \in Nat, NEW ss, Len(ss) = n, n # 0, Flattens(f, ss)
    PROVE  FlattenSeq(ss) = f[n]
<1> DEFINE g == CHOOSE g : g = [i \in 1..Len(ss) |-> IF i = 1 THEN ss[i] ELSE g[i - 1] \o ss[i]]
<1>1. Flattens(g, ss)
  BY DEF Flattens
<1>2. g = f
  <2> HIDE DEF g
  <2> QED
    BY <1>1, OneFlattens
<1>3. FlattenSeq(ss) = g[Len(ss)]
  BY DEF FlattenSeq
<1> QED
  BY <1>2, <1>3

LEMMA FlattenEmpty == FlattenSeq(<<>>) = <<>>
BY DEF FlattenSeq

LEMMA FlattenAppend ==
    ASSUME NEW S, NEW ss \in Seq(Seq(S)), NEW x \in Seq(S)
    PROVE  FlattenSeq(Append(ss, x)) = FlattenSeq(ss) \o x
<1>1. PICK n \in Nat : n = Len(ss)
  BY LenProperties
<1>2. PICK t : t = Append(ss, x)
  OBVIOUS
<1>3. t \in Seq(Seq(S)) /\ Len(t) = n + 1 /\ t[n + 1] = x /\ \A i \in 1..n : t[i] = ss[i]
  <2>1. \A i \in 1..n : t[i] = ss[i]
    BY <1>1, <1>2, AppendProperties
  <2> QED
    BY <1>1, <1>2, <2>1, AppendProperties
<1>4. PICK f : Flattens(f, t)
  BY <1>3, FlattensExists
<1>5. FlattenSeq(t) = f[n + 1]
  <2>1. n + 1 \in Nat /\ n + 1 # 0
    OBVIOUS
  <2> QED
    BY <1>3, <1>4, <2>1, FlattenIs
<1>6. CASE n = 0
  <2>1. ss = <<>> /\ f[n + 1] = t[1]
    <3>1. ss = <<>>
      BY <1>1, <1>6, EmptySeq
    <3> QED
      BY <1>3, <1>4, <1>6, <3>1 DEF Flattens
  <2>2. FlattenSeq(ss) \o x = x
    BY <2>1, FlattenEmpty, ConcatEmptySeq
  <2> QED
    BY <1>2, <1>3, <1>5, <1>6, <2>1, <2>2
<1>7. CASE n # 0
  <2>1. PICK g : g = [i \in 1..n |-> f[i]]
    OBVIOUS
  <2>2. Flattens(g, ss)
    <3>1. \A i \in 1..n : i \in 1..(n + 1) /\ (i # 1 => i - 1 \in 1..n)
      OBVIOUS
    <3>2. \A i \in 1..n : f[i] = IF i = 1 THEN t[i] ELSE f[i - 1] \o t[i]
      BY <1>3, <1>4, <3>1 DEF Flattens
    <3>3. \A i \in 1..n : g[i] = IF i = 1 THEN ss[i] ELSE g[i - 1] \o ss[i]
      BY <1>3, <2>1, <3>1, <3>2
    <3>4. g = [i \in 1..n |-> g[i]]
      BY <2>1
    <3>5. g = [i \in 1..n |-> IF i = 1 THEN ss[i] ELSE g[i - 1] \o ss[i]]
      BY <3>3, <3>4
    <3> QED
      BY <1>1, <3>5 DEF Flattens
  <2>3. FlattenSeq(ss) = g[n]
    BY <1>1, <1>7, <2>2, FlattenIs
  <2>4. f[n + 1] = f[n] \o t[n + 1] /\ g[n] = f[n]
    <3>1. n + 1 \in 1..(n + 1) /\ n + 1 # 1 /\ n + 1 - 1 = n /\ n \in 1..n
      BY <1>7
    <3>2. PICK m \in Nat : m = n + 1 /\ m - 1 = n /\ m # 1 /\ m \in 1..m
      BY <1>7
    <3>3. (m = 1 => f[m] = t[m]) /\ (m # 1 => f[m] = f[m - 1] \o t[m])
      <4>1. m \in 1..Len(t)
        BY <1>3, <3>2
      <4> QED
        BY <1>4, <4>1, FlattensAt
    <3> QED
      BY <2>1, <3>1, <3>2, <3>3
  <2> QED
    BY <1>2, <1>3, <1>5, <2>3, <2>4
<1> QED
  BY <1>6, <1>7

LEMMA FlattenType ==
    ASSUME NEW S, NEW ss \in Seq(Seq(S))
    PROVE  FlattenSeq(ss) \in Seq(S)
<1> DEFINE T == {s \in Seq(Seq(S)) : FlattenSeq(s) \in Seq(S)}
<1>1. <<>> \in T
  BY FlattenEmpty, EmptySeq
<1>2. ASSUME NEW s \in Seq(Seq(S)), NEW x \in Seq(S), s \in T
      PROVE  Append(s, x) \in T
  <2>1. FlattenSeq(Append(s, x)) = FlattenSeq(s) \o x
    BY FlattenAppend
  <2>2. FlattenSeq(s) \o x \in Seq(S)
    BY <1>2, ConcatProperties
  <2>3. Append(s, x) \in Seq(Seq(S))
    BY AppendProperties
  <2> QED
    BY <2>1, <2>2, <2>3
<1> HIDE DEF T
<1>3. Seq(Seq(S)) \subseteq T
  BY <1>1, <1>2, Lists
<1> QED
  BY <1>3 DEF T

LEMMA FlattenConcat ==
    ASSUME NEW S, NEW ss \in Seq(Seq(S)), NEW tt \in Seq(Seq(S))
    PROVE  FlattenSeq(ss \o tt) = FlattenSeq(ss) \o FlattenSeq(tt)
<1> DEFINE T == {t \in Seq(Seq(S)) : FlattenSeq(ss \o t) = FlattenSeq(ss) \o FlattenSeq(t)}
<1>1. <<>> \in T
  <2>1. ss \o <<>> = ss /\ FlattenSeq(ss) \o <<>> = FlattenSeq(ss)
    BY FlattenType, ConcatEmptySeq
  <2> QED
    BY <2>1, FlattenEmpty, EmptySeq
<1>2. ASSUME NEW t \in Seq(Seq(S)), NEW x \in Seq(S), t \in T
      PROVE  Append(t, x) \in T
  <2>1. Append(t, x) \in Seq(Seq(S)) /\ Append(t, x) = t \o <<x>>
    BY AppendProperties, AppendIsConcat
  <2>2. ss \o t \in Seq(Seq(S)) /\ <<x>> \in Seq(Seq(S)) /\ Append(ss \o t, x) = (ss \o t) \o <<x>>
    BY ConcatProperties, AppendIsConcat
  <2>3. ss \o Append(t, x) = Append(ss \o t, x)
    BY <2>1, <2>2, ConcatAssociative
  <2>4. FlattenSeq(ss \o Append(t, x)) = FlattenSeq(ss \o t) \o x
    BY <2>2, <2>3, FlattenAppend
  <2>5. FlattenSeq(ss) \in Seq(S) /\ FlattenSeq(t) \in Seq(S)
    BY FlattenType
  <2>6. (FlattenSeq(ss) \o FlattenSeq(t)) \o x = FlattenSeq(ss) \o (FlattenSeq(t) \o x)
    BY <2>5, ConcatAssociative
  <2>7. FlattenSeq(Append(t, x)) = FlattenSeq(t) \o x
    BY FlattenAppend
  <2> QED
    BY <1>2, <2>1, <2>4, <2>6, <2>7
<1> HIDE DEF T
<1>3. Seq(Seq(S)) \subseteq T
  BY <1>1, <1>2, Lists
<1> QED
  BY <1>3 DEF T

LEMMA FlattenOne ==
    ASSUME NEW S, NEW x \in Seq(S)
    PROVE  FlattenSeq(<<x>>) = x
<1>1. <<x>> = Append(<<>>, x) /\ <<>> \in Seq(Seq(S))
  BY EmptySeq
<1>2. FlattenSeq(<<x>>) = <<>> \o x
  BY <1>1, FlattenAppend, FlattenEmpty
<1> QED
  BY <1>2, ConcatEmptySeq

\* A list of lists, place by place.
LEMMA ListOf ==
    ASSUME NEW S, NEW n \in Nat, NEW f \in [1..n -> S]
    PROVE  f \in Seq(S) /\ Len(f) = n
OBVIOUS

\* Lists of one element each, one after the other.
Singles(s) == [i \in 1..Len(s) |-> <<s[i]>>]

LEMMA FlattenSingles ==
    ASSUME NEW S, NEW s \in Seq(S)
    PROVE  Singles(s) \in Seq(Seq(S)) /\ FlattenSeq(Singles(s)) = s
<1> DEFINE T == {t \in Seq(S) : Singles(t) \in Seq(Seq(S)) /\ FlattenSeq(Singles(t)) = t}
<1>1. <<>> \in T
  <2>1. Len(<<>>) = 0 /\ 1..0 = {}
    BY EmptySeq
  <2>2. Singles(<<>>) = <<>>
    BY <2>1 DEF Singles
  <2> QED
    BY <2>2, FlattenEmpty, EmptySeq
<1>2. ASSUME NEW t \in Seq(S), NEW x \in S, t \in T
      PROVE  Append(t, x) \in T
  <2>1. PICK u : u = Append(t, x)
    OBVIOUS
  <2>2. /\ u \in Seq(S) /\ Len(u) = Len(t) + 1 /\ u[Len(t) + 1] = x
        /\ Len(t) \in Nat /\ \A i \in 1..Len(t) : u[i] = t[i]
    BY <2>1, AppendProperties, LenProperties
  <2>3. PICK v : v = Singles(t)
    OBVIOUS
  <2>4. v \in Seq(Seq(S)) /\ Len(v) = Len(t) /\ \A i \in 1..Len(t) : v[i] = <<t[i]>>
    <3>1. Len(t) \in Nat
      BY LenProperties
    <3>2. \A i \in 1..Len(t) : v[i] = <<t[i]>>
      BY <2>3 DEF Singles
    <3>3. Len(v) = Len(t)
      BY <2>3, <3>1 DEF Singles
    <3> QED
      BY <1>2, <2>3, <3>2, <3>3
  <2>5. <<x>> \in Seq(S)
    OBVIOUS
  <2>6. Singles(u) = Append(v, <<x>>)
    <3>1. \A i \in 1..(Len(t) + 1) : Append(v, <<x>>)[i] = <<u[i]>>
      <4>1. ASSUME NEW i \in 1..(Len(t) + 1)
            PROVE  Append(v, <<x>>)[i] = <<u[i]>>
        <5>1. CASE i \in 1..Len(t)
          <6>1. Append(v, <<x>>)[i] = v[i]
            BY <2>4, <2>5, <5>1, AppendProperties
          <6> QED
            BY <2>2, <2>4, <5>1, <6>1
        <5>2. CASE i = Len(t) + 1
          <6>1. Append(v, <<x>>)[Len(v) + 1] = <<x>>
            BY <2>4, <2>5, AppendProperties
          <6>2. i = Len(v) + 1 /\ u[i] = x
            BY <2>2, <2>4, <5>2
          <6> QED
            BY <6>1, <6>2, Zenon
        <5>3. i \in 1..Len(t) \/ i = Len(t) + 1
          BY <2>2
        <5> QED
          BY <5>1, <5>2, <5>3
      <4> QED
        BY <4>1
    <3>2. Append(v, <<x>>) = [i \in 1..(Len(t) + 1) |-> Append(v, <<x>>)[i]]
      BY <2>4, <2>5, AppendProperties, LenProperties
    <3>3. Append(v, <<x>>) = [i \in 1..(Len(t) + 1) |-> <<u[i]>>]
      BY <3>1, <3>2
    <3> QED
      BY <2>2, <3>3 DEF Singles
  <2>7. Append(v, <<x>>) \in Seq(Seq(S))
    BY <2>4, <2>5, AppendProperties
  <2>8. FlattenSeq(Append(v, <<x>>)) = FlattenSeq(v) \o <<x>>
    BY <2>4, <2>5, FlattenAppend
  <2>9. FlattenSeq(v) \o <<x>> = u
    BY <1>2, <2>1, <2>3, AppendIsConcat
  <2> QED
    BY <2>1, <2>2, <2>6, <2>7, <2>8, <2>9
<1> HIDE DEF T
<1>3. Seq(S) \subseteq T
  BY <1>1, <1>2, Lists
<1> QED
  BY <1>3 DEF T

-----------------------------------------------------------------------------
(* Steps, and greatest numbers. *)

\* Steps that depend on their number can be taken one after the other.
Stepping(f, N, s, F) == f[0] = s /\ \A i \in 1..N : f[i] = F[<<i, f[i - 1]>>]

LEMMA Steps ==
    ASSUME NEW N \in Nat, NEW S, NEW s \in S, NEW F \in [(1..N) \X S -> S]
    PROVE  \E f \in [0..N -> S] : Stepping(f, N, s, F)
<1> DEFINE Upto(f, n) == f \in [0..n -> S] /\ f[0] = s /\ \A i \in 1..n : f[i] = F[<<i, f[i - 1]>>]
           T == {n \in 0..N : \E f : Upto(f, n)}
<1>1. 0 \in T
  <2>1. Upto([i \in 0..0 |-> s], 0)
    OBVIOUS
  <2> HIDE DEF Upto
  <2> QED
    BY <2>1
<1>2. ASSUME NEW n \in 0..(N - 1), n \in T
      PROVE  n + 1 \in T
  <2>1. PICK f : Upto(f, n)
    BY <1>2
  <2>2. PICK m \in 1..N : m = n + 1 /\ m - 1 = n
    <3>1. n + 1 \in 1..N /\ (n + 1) - 1 = n
      OBVIOUS
    <3> QED
      BY <3>1
  <2>3. PICK y \in S : y = F[<<m, f[n]>>]
    BY <2>1
  <2>4. PICK g : g = [i \in 0..m |-> IF i \in 0..n THEN f[i] ELSE y]
    OBVIOUS
  <2>5. \A i \in 1..m : g[i] = F[<<i, g[i - 1]>>]
    <3> SUFFICES ASSUME NEW i \in 1..m
                 PROVE  g[i] = F[<<i, g[i - 1]>>]
      OBVIOUS
    <3>1. CASE i \in 1..n
      <4>1. g[i] = f[i] /\ g[i - 1] = f[i - 1]
        BY <2>2, <2>4, <3>1
      <4> QED
        BY <2>1, <3>1, <4>1
    <3>2. CASE i = m
      <4>1. g[i] = y /\ g[i - 1] = f[n]
        BY <2>2, <2>4, <3>2
      <4> QED
        BY <2>3, <3>2, <4>1
    <3> QED
      BY <2>2, <3>1, <3>2
  <2>6. g \in [0..m -> S] /\ g[0] = s
    BY <2>1, <2>2, <2>4
  <2>7. Upto(g, n + 1)
    BY <2>2, <2>5, <2>6
  <2> HIDE DEF Upto
  <2> QED
    BY <2>2, <2>7
<1> HIDE DEF T
<1>3. 0..N \subseteq T
  BY <1>1, <1>2, Induction
<1> USE DEF T
<1>4. PICK f : Upto(f, N)
  BY <1>3
<1> QED
  BY <1>4 DEF Stepping

LEMMA GreatestNumber ==
    ASSUME NEW N \in Nat, NEW T \in SUBSET (0..N), T # {}
    PROVE  Max(T) \in T /\ \A y \in T : Max(T) >= y
<1> DEFINE U == {N - y : y \in T}
<1>1. U \in SUBSET Nat /\ U # {}
  <2>1. \A y \in T : N - y \in Nat
    OBVIOUS
  <2>2. PICK y : y \in T
    OBVIOUS
  <2>3. N - y \in U
    BY <2>2
  <2> QED
    BY <2>1, <2>3
<1> HIDE DEF U
<1>2. PICK u \in U : \A v \in U : u <= v
  BY <1>1, LeastNumber
<1> USE DEF U
<1>3. PICK x \in T : u = N - x
  BY <1>2
<1>4. \A y \in T : x >= y
  <2> TAKE y \in T
  <2>1. u <= N - y
    BY <1>2
  <2> QED
    BY <1>3, <2>1
<1> QED
  BY <1>4 DEF Max

-----------------------------------------------------------------------------
(* FileTools: an edit lands where it was shown. *)

FileLines == Contents \cup {0}
LEMMA FileTextType ==
    ASSUME NEW lines \in Seq(FileLines), NEW ends
    PROVE  FileText(lines, ends).lines \in Seq(FileLines)
<1>1. CASE lines = <<>>
  BY <1>1 DEF FileText
<1>2. CASE lines # <<>>
  <2>1. Len(lines) \in Nat \ {0}
    BY <1>2, EmptySeq
  <2>2. Front(lines) \in Seq(FileLines)
    <3>1. \A i \in 1..(Len(lines) - 1) : lines[i] \in FileLines
      BY <2>1, ElementOfSeq
    <3> QED
      BY <2>1, <3>1, SubSeqProperties DEF Front
  <2>3. FileText(lines, ends).lines \in {lines, Front(lines)}
    BY DEF FileText
  <2> QED
    BY <2>2, <2>3
<1> QED
  BY <1>1, <1>2

LEMMA JoinedType ==
    ASSUME NEW lines \in Seq(FileLines)
    PROVE  Joined(lines).lines \in Seq(FileLines)
<1>1. <<0>> \in Seq(FileLines)
  BY DEF FileLines
<1>2. CASE lines = <<>>
  BY <1>1, <1>2, FileTextType DEF Joined
<1>3. CASE lines # <<>>
  BY <1>3, FileTextType DEF Joined
<1> QED
  BY <1>2, <1>3

LEMMA ReplacementsType == Replacements \subseteq Seq(FileLines)
<1> SUFFICES ASSUME NEW t \in Replacements PROVE t \in Seq(FileLines)
  OBVIOUS
<1>1. PICK n \in NewTexts : t \in [1..n -> Contents]
  BY DEF Replacements
<1>2. n \in Nat
  BY FileToolsAssumption
<1>3. t \in [1..n -> FileLines]
  BY <1>1 DEF FileLines
<1> QED
  BY <1>2, <1>3

\* An edit of what the agent has been shown.
OfShown(e) ==
    \E s \in seenLines, t \in Replacements : e.line = s[1] /\ e.hash = LineHash(s[2]) /\ e.text = t

LEMMA EditsType ==
    ASSUME NEW batch \in Edits
    PROVE  Len(batch) \in Nat /\ \A i \in 1..Len(batch) : OfShown(batch[i])
<1> DEFINE one == {[line |-> s[1], hash |-> LineHash(s[2]), text |-> t] : s \in seenLines, t \in Replacements}
<1>1. PICK n \in 1..MaxEditsOfCall : batch \in [1..n -> one]
  BY DEF Edits
<1>2. n \in Nat
  BY FileToolsAssumption
<1>3. \A e \in one : OfShown(e)
  BY DEF OfShown
<1> HIDE DEF one
<1>4. Len(batch) = n
  BY <1>1, <1>2
<1> QED
  BY <1>1, <1>2, <1>3, <1>4


\* The texts of the lines after k edits: the last edit of a line so far, or the line.
Landed(lines, batch, order, k, x) ==
    /\ x \in [1..Len(lines) -> Seq(FileLines)]
    /\ \A n \in 1..Len(lines) :
          /\ (\A p \in 1..k : batch[order[p]].line # n) => x[n] = <<lines[n]>>
          /\ \A p \in 1..k :
                batch[order[p]].line = n /\ (\A q \in (p + 1)..k : batch[order[q]].line # n)
                => x[n] = batch[order[p]].text

\* The number is a line's, the text a replacement.
FitsIn(lines, e) == e.line \in 1..Len(lines) /\ e.text \in Seq(FileLines)

LEMMA LandsInOrder ==
    ASSUME NEW lines \in Seq(FileLines), NEW N \in Nat, NEW batch, NEW order \in [1..N -> 1..N],
           \A i \in 1..N : FitsIn(lines, batch[i]),
           NEW f,
           f[0] = [n \in 1..Len(lines) |-> <<lines[n]>>],
           \A k \in 1..N : f[k] = [f[k - 1] EXCEPT ![batch[order[k]].line] = batch[order[k]].text]
    PROVE  Landed(lines, batch, order, N, f[N])
<1> DEFINE T == {k \in 0..N : Landed(lines, batch, order, k, f[k])}
<1>1. 0 \in T
  <2>1. \A n \in 1..Len(lines) : lines[n] \in FileLines
    BY ElementOfSeq
  <2>2. f[0] \in [1..Len(lines) -> Seq(FileLines)]
    BY <2>1
  <2>3. \A n \in 1..Len(lines) : f[0][n] = <<lines[n]>>
    OBVIOUS
  <2>4. \A p \in 1..0 : FALSE
    OBVIOUS
  <2>5. Landed(lines, batch, order, 0, f[0])
    BY <2>2, <2>3, <2>4 DEF Landed
  <2> QED
    BY <2>5
<1>2. ASSUME NEW k \in 0..(N - 1), k \in T
      PROVE  k + 1 \in T
  <2>1. PICK m \in 1..N : m = k + 1 /\ m - 1 = k
    <3>1. k + 1 \in 1..N /\ (k + 1) - 1 = k
      OBVIOUS
    <3> QED
      BY <3>1
  <2>2. PICK e : e = batch[order[m]]
    OBVIOUS
  <2>3. e.line \in 1..Len(lines) /\ e.text \in Seq(FileLines)
    BY <2>2 DEF FitsIn
  <2>4. PICK x : x = f[k]
    OBVIOUS
  <2>5. PICK y : y = f[m]
    OBVIOUS
  <2>6. Landed(lines, batch, order, k, x)
    BY <1>2, <2>4
  <2>7. y = [x EXCEPT ![e.line] = e.text]
    BY <2>1, <2>2, <2>4, <2>5
  <2>8. y \in [1..Len(lines) -> Seq(FileLines)]
    BY <2>3, <2>6, <2>7 DEF Landed
  <2>9. \A n \in 1..Len(lines) : y[n] = IF n = e.line THEN e.text ELSE x[n]
    BY <2>3, <2>6, <2>7 DEF Landed
  <2>10. ASSUME NEW n \in 1..Len(lines), \A p \in 1..m : batch[order[p]].line # n
         PROVE  y[n] = <<lines[n]>>
    <3>1. \A p \in 1..k : batch[order[p]].line # n
      <4>1. 1..k \subseteq 1..m
        BY <2>1
      <4> QED
        BY <2>10, <4>1
    <3>2. n # e.line
      BY <2>1, <2>2, <2>10
    <3> QED
      BY <2>6, <2>9, <3>1, <3>2 DEF Landed
  <2>11. ASSUME NEW n \in 1..Len(lines), NEW p \in 1..m, batch[order[p]].line = n,
                \A q \in (p + 1)..m : batch[order[q]].line # n
         PROVE  y[n] = batch[order[p]].text
    <3>1. CASE p = m
      BY <2>2, <2>9, <2>11, <3>1
    <3>2. CASE p \in 1..k
      <4>1. n # e.line
        <5>1. m \in (p + 1)..m
          BY <2>1, <3>2
        <5> QED
          BY <2>2, <2>11, <5>1
      <4>2. \A q \in (p + 1)..k : batch[order[q]].line # n
        BY <2>1, <2>11
      <4> QED
        BY <2>6, <2>9, <2>11, <3>2, <4>1, <4>2 DEF Landed
    <3> QED
      BY <2>1, <3>1, <3>2
  <2>12. Landed(lines, batch, order, m, y)
    BY <2>8, <2>10, <2>11 DEF Landed
  <2> QED
    BY <2>1, <2>5, <2>12
<1> HIDE DEF T
<1>3. 0..N \subseteq T
  BY <1>1, <1>2, Induction
<1> QED
  BY <1>3 DEF T

AppliedAs(lines, batch, order, N, x) ==
    Landed(lines, batch, order, N, x) /\ AppliedEdits(lines, batch, order) = FlattenSeq(x)

LEMMA AppliedTexts ==
    ASSUME NEW lines \in Seq(FileLines), NEW N \in Nat, NEW batch, Len(batch) = N,
           NEW order \in [1..N -> 1..N], \A i \in 1..N : FitsIn(lines, batch[i])
    PROVE  \E x : AppliedAs(lines, batch, order, N, x)
<1> DEFINE a == [n \in 1..Len(lines) |-> <<lines[n]>>]
           step(k, x) == [x EXCEPT ![batch[order[k]].line] = batch[order[k]].text]
           Runs(f) == f = [k \in 0..N |-> IF k = 0 THEN a ELSE step(k, f[k - 1])]
<1>1. \E f : Runs(f)
  <2> DEFINE S == [1..Len(lines) -> Seq(FileLines)]
             F == [p \in (1..N) \X S |-> step(p[1], p[2])]
  <2>1. a \in S
    <3>1. \A n \in 1..Len(lines) : lines[n] \in FileLines
      BY ElementOfSeq
    <3> QED
      BY <3>1
  <2>2. ASSUME NEW k \in 1..N, NEW x \in S
        PROVE  step(k, x) \in S
    <3>1. batch[order[k]].line \in 1..Len(lines) /\ batch[order[k]].text \in Seq(FileLines)
      BY DEF FitsIn
    <3> QED
      BY <3>1
  <2> HIDE DEF a, step, S
  <2>3. F \in [(1..N) \X S -> S]
    BY <2>2
  <2>4. \A k \in 1..N, x \in S : F[<<k, x>>] = step(k, x)
    OBVIOUS
  <2> HIDE DEF F
  <2>5. PICK f \in [0..N -> S] : Stepping(f, N, a, F)
    BY <2>1, <2>3, Steps
  <2>6. \A k \in 0..N : f[k] = IF k = 0 THEN a ELSE step(k, f[k - 1])
    <3>1. ASSUME NEW k \in 1..N
          PROVE  f[k] = step(k, f[k - 1])
      <4>1. f[k - 1] \in S
        OBVIOUS
      <4> QED
        BY <2>4, <2>5, <4>1 DEF Stepping
    <3>2. f[0] = a
      BY <2>5 DEF Stepping
    <3>3. \A k \in 0..N : k = 0 \/ k \in 1..N
      OBVIOUS
    <3> QED
      BY <3>1, <3>2, <3>3
  <2>7. f = [k \in 0..N |-> f[k]]
    OBVIOUS
  <2> QED
    BY <2>6, <2>7
<1> DEFINE g == CHOOSE f : Runs(f)
<1>2. Runs(g)
  BY <1>1
<1>3. AppliedEdits(lines, batch, order) = FlattenSeq(g[N])
  BY DEF AppliedEdits
<1> HIDE DEF g, a, step
<1>4. \A k \in 0..N : g[k] = IF k = 0 THEN a ELSE step(k, g[k - 1])
  BY <1>2
<1>5. g[0] = a /\ \A k \in 1..N : g[k] = step(k, g[k - 1])
  BY <1>4
<1> USE DEF a, step
<1>6. Landed(lines, batch, order, N, g[N])
  <2>1. g[0] = [n \in 1..Len(lines) |-> <<lines[n]>>]
    BY <1>5
  <2>2. \A k \in 1..N : g[k] = [g[k - 1] EXCEPT ![batch[order[k]].line] = batch[order[k]].text]
    BY <1>5
  <2> QED
    BY <2>1, <2>2, LandsInOrder
<1> QED
  BY <1>3, <1>6 DEF AppliedAs

LEMMA AppliedIsEdited ==
    ASSUME NEW lines \in Seq(FileLines), NEW N \in Nat, NEW batch, Len(batch) = N,
           NEW order \in SortedEdits(batch), \A i \in 1..N : FitsIn(lines, batch[i])
    PROVE  AppliedEdits(lines, batch, order) = Edited(lines, batch)
<1>1. order \in [1..N -> 1..N] /\ \A i \in 1..N : \E p \in 1..N : order[p] = i
  BY DEF SortedEdits, Bijection, Surjection
<1>2. \A p, q \in 1..N : p < q /\ batch[order[p]].line = batch[order[q]].line => order[p] < order[q]
  <2> SUFFICES ASSUME NEW p \in 1..N, NEW q \in 1..N, p < q, batch[order[p]].line = batch[order[q]].line
               PROVE  order[p] < order[q]
    OBVIOUS
  <2>1. \/ batch[order[p]].line > batch[order[q]].line
        \/ batch[order[p]].line = batch[order[q]].line /\ order[p] < order[q]
    BY DEF SortedEdits
  <2>2. batch[order[p]].line \in Nat
    <3>1. batch[order[p]].line \in 1..Len(lines)
      BY <1>1 DEF FitsIn
    <3> QED
      BY <3>1
  <2> QED
    BY <2>1, <2>2
<1>0. PICK x : AppliedAs(lines, batch, order, N, x)
  BY <1>1, AppliedTexts
<1>3. Landed(lines, batch, order, N, x) /\ AppliedEdits(lines, batch, order) = FlattenSeq(x)
  BY <1>0 DEF AppliedAs
<1> DEFINE here(n) == {i \in 1..Len(batch) : batch[i].line = n}
           text(n) == IF here(n) = {} THEN <<lines[n]>> ELSE batch[Max(here(n))].text
<1>4. \A n \in 1..Len(lines) : x[n] = text(n)
  <2> SUFFICES ASSUME NEW n \in 1..Len(lines) PROVE x[n] = text(n)
    OBVIOUS
  <2>1. CASE here(n) = {}
    <3>1. \A p \in 1..N : batch[order[p]].line # n
      BY <1>1, <2>1
    <3>2. x[n] = <<lines[n]>>
      BY <1>3, <3>1 DEF Landed
    <3> QED
      BY <2>1, <3>2
  <2>2. CASE here(n) # {}
    <3>1. PICK H : H = here(n)
      OBVIOUS
    <3>2. H \in SUBSET (0..N) /\ H # {}
      BY <2>2, <3>1
    <3>3. PICK m : m = Max(H)
      OBVIOUS
    <3>4. m \in H /\ \A i \in H : m >= i
      BY <3>2, <3>3, GreatestNumber
    <3>5. PICK p \in 1..N : order[p] = m
      BY <1>1, <3>1, <3>4
    <3>6. batch[order[p]].line = n
      BY <3>1, <3>4, <3>5
    <3>7. ASSUME NEW q \in (p + 1)..N, batch[order[q]].line = n
          PROVE  FALSE
      <4>1. q \in 1..N /\ p < q
        OBVIOUS
      <4>2. order[p] < order[q]
        BY <1>2, <3>6, <3>7, <4>1
      <4>3. order[q] \in H /\ order[q] \in 1..N /\ m \in 0..N
        BY <1>1, <3>1, <3>2, <3>4, <3>7, <4>1
      <4> QED
        BY <3>4, <3>5, <4>2, <4>3
    <3>8. x[n] = batch[order[p]].text
      BY <1>3, <3>6, <3>7 DEF Landed
    <3> QED
      BY <2>2, <3>1, <3>3, <3>5, <3>8
  <2> QED
    BY <2>1, <2>2
<1>5. Edited(lines, batch) = FlattenSeq([n \in 1..Len(lines) |-> text(n)])
  BY DEF Edited
<1> HIDE DEF text
<1>6. x = [n \in 1..Len(lines) |-> x[n]]
  BY <1>3 DEF Landed
<1>7. x = [n \in 1..Len(lines) |-> text(n)]
  BY <1>4, <1>6
<1> QED
  BY <1>3, <1>5, <1>7

LEMMA AppliedType ==
    ASSUME NEW lines \in Seq(FileLines), NEW N \in Nat, NEW batch, Len(batch) = N,
           NEW order \in SortedEdits(batch), \A i \in 1..N : FitsIn(lines, batch[i])
    PROVE  AppliedEdits(lines, batch, order) \in Seq(FileLines)
<1>1. order \in [1..N -> 1..N]
  BY DEF SortedEdits, Bijection, Surjection
<1>0. PICK x : AppliedAs(lines, batch, order, N, x)
  BY <1>1, AppliedTexts
<1>2. Landed(lines, batch, order, N, x) /\ AppliedEdits(lines, batch, order) = FlattenSeq(x)
  BY <1>0 DEF AppliedAs
<1>3. x \in [1..Len(lines) -> Seq(FileLines)] /\ Len(lines) \in Nat
  BY <1>2, LenProperties DEF Landed
<1>4. x \in Seq(Seq(FileLines))
  BY <1>3
<1> QED
  BY <1>2, <1>4, FlattenType

LEMMA PieceType ==
    ASSUME NEW lines \in Seq(FileLines), NEW i \in Nat, NEW j \in Nat, i >= 1, j <= Len(lines)
    PROVE  SubSeq(lines, i, j) \in Seq(FileLines)
<1>1. \A k \in i..j : lines[k] \in FileLines
  <2>1. \A k \in i..j : k \in 1..Len(lines)
    BY LenProperties
  <2> QED
    BY <2>1, ElementOfSeq
<1> QED
  BY <1>1, SubSeqProperties

LEMMA ReplacedType ==
    ASSUME NEW text, text.lines \in Seq(FileLines), NEW old, NEW new \in Seq(FileLines), NEW places
    PROVE  ReplacedAt(text, old, new, places).lines \in Seq(FileLines)
<1> DEFINE put == [n \in places |-> new]
<1>1. PICK lines \in Seq(FileLines) : lines = text.lines
  OBVIOUS
<1>2. PICK ends : ReplacedAt(text, old, new, places) = FileText(ReplacedIn(lines, old, put, places), ends)
  BY <1>1 DEF ReplacedAt
<1>3. \A n \in places : put[n] \in Seq(FileLines)
  OBVIOUS
<1> HIDE DEF put
<1> DEFINE piece(n) == IF n \in places THEN put[n]
                       ELSE IF \E p \in places : n \in p..(p + Len(old) - 1) THEN <<>>
                       ELSE <<lines[n]>>
           ss == [n \in 1..Len(lines) |-> piece(n)]
<1>4. \A n \in 1..Len(lines) : piece(n) \in Seq(FileLines)
  <2> TAKE n \in 1..Len(lines)
  <2>1. <<lines[n]>> \in Seq(FileLines) /\ <<>> \in Seq(FileLines)
    BY ElementOfSeq, EmptySeq
  <2> QED
    BY <1>3, <2>1
<1>5. ReplacedIn(lines, old, put, places) = FlattenSeq(ss)
  BY DEF ReplacedIn
<1> HIDE DEF piece
<1>6. ss \in Seq(Seq(FileLines))
  BY <1>4, LenProperties
<1>7. FlattenSeq(ss) \in Seq(FileLines)
  BY <1>6, FlattenType
<1> QED
  BY <1>2, <1>5, <1>7, FileTextType

LEMMA ChangedType ==
    ASSUME NEW lines \in Seq(FileLines), NEW line \in FileLines
    PROVE  /\ \A i \in 1..(Len(lines) + 1) : InsertAt(lines, i, line) \in Seq(FileLines)
           /\ \A i \in 1..Len(lines) : RemoveAt(lines, i) \in Seq(FileLines)
           /\ \A i \in 1..Len(lines) : [lines EXCEPT ![i] = line] \in Seq(FileLines)
<1>1. PICK L \in Nat : L = Len(lines)
  BY LenProperties
<1>2. ASSUME NEW i \in 1..(L + 1)
      PROVE  InsertAt(lines, i, line) \in Seq(FileLines)
  <2>1. SubSeq(lines, 1, i - 1) \in Seq(FileLines) /\ SubSeq(lines, i, L) \in Seq(FileLines)
    BY <1>1, PieceType
  <2>2. <<line>> \in Seq(FileLines)
    OBVIOUS
  <2>3. SubSeq(lines, 1, i - 1) \o <<line>> \in Seq(FileLines)
    BY <2>1, <2>2, ConcatProperties
  <2>4. (SubSeq(lines, 1, i - 1) \o <<line>>) \o SubSeq(lines, i, L) \in Seq(FileLines)
    BY <2>1, <2>3, ConcatProperties
  <2> QED
    BY <1>1, <2>4 DEF InsertAt
<1>3. ASSUME NEW i \in 1..L
      PROVE  RemoveAt(lines, i) \in Seq(FileLines)
  <2>1. SubSeq(lines, 1, i - 1) \in Seq(FileLines) /\ SubSeq(lines, i + 1, L) \in Seq(FileLines)
    BY <1>1, PieceType
  <2>2. SubSeq(lines, 1, i - 1) \o SubSeq(lines, i + 1, L) \in Seq(FileLines)
    BY <2>1, ConcatProperties
  <2> QED
    BY <1>1, <2>2 DEF RemoveAt
<1>4. \A i \in 1..L : [lines EXCEPT ![i] = line] \in Seq(FileLines)
  BY <1>1, ExceptSeq
<1> QED
  BY <1>1, <1>2, <1>3, <1>4

\* The file is a text, what was shown are lines with numbers, and nothing has gone wrong but with
\* the ends of lines.
FileInv ==
    /\ file.lines \in Seq(FileLines) /\ seenLines \subseteq Nat \X FileLines
    /\ flaws \subseteq {"changed another line's end"}

LEMMA WrittenType ==
    ASSUME NEW text, text.lines \in Seq(FileLines), Written(text)
    PROVE  file'.lines \in Seq(FileLines)
<1>1. EmptyFile.lines \in Seq(FileLines)
  BY EmptySeq DEF EmptyFile
<1> QED
  BY <1>1 DEF Written

LEMMA FileInvInit == FileInit => FileInv
<1> SUFFICES ASSUME FileInit PROVE FileInv
  OBVIOUS
<1>1. PICK lines \in [1..2 -> Contents] : file = FileText(lines, Newlines(2))
  BY DEF FileInit
<1>2. lines \in Seq(FileLines)
  <2>1. 2 \in Nat /\ lines \in [1..2 -> FileLines]
    BY DEF FileLines
  <2> QED
    BY <2>1, ListOf
<1>3. file.lines \in Seq(FileLines)
  BY <1>1, <1>2, FileTextType
<1> QED
  BY <1>3 DEF FileInit, FileInv

LEMMA EditsWithoutFlaws ==
    ASSUME FileInv, NEW batch \in Edits, NEW order \in SortedEdits(batch),
           \A i \in 1..Len(batch) : HashMatches(file.lines, batch[i])
    PROVE  /\ AppliedEdits(file.lines, batch, order) \in Seq(FileLines)
           /\ FlawsOf(batch, AppliedEdits(file.lines, batch, order)) = {}
<1>1. PICK lines \in Seq(FileLines) : lines = file.lines
  BY DEF FileInv
<1>2. PICK N \in Nat : N = Len(batch)
  BY EditsType
<1>3. ASSUME NEW i \in 1..N
      PROVE  FitsIn(lines, batch[i]) /\ ShownAt(batch[i].line)
  <2>1. PICK s \in seenLines, t \in Replacements :
           batch[i].line = s[1] /\ batch[i].hash = LineHash(s[2]) /\ batch[i].text = t
    BY <1>2, EditsType DEF OfShown
  <2>2. batch[i].line \in 1..Len(lines) /\ LineHash(lines[batch[i].line]) = batch[i].hash
    BY <1>1, <1>2 DEF HashMatches, InRange
  <2>3. t \in Seq(FileLines)
    BY ReplacementsType
  <2>4. ShownAt(batch[i].line)
    BY <1>1, <2>1, <2>2 DEF ShownAt
  <2> QED
    BY <2>1, <2>2, <2>3, <2>4 DEF FitsIn
<1>4. PICK a : a = AppliedEdits(lines, batch, order)
  OBVIOUS
<1>5. a \in Seq(FileLines)
  BY <1>2, <1>3, <1>4, AppliedType
<1>6. a = Edited(lines, batch)
  BY <1>2, <1>3, <1>4, AppliedIsEdited
<1>7. FlawsOf(batch, a) = {}
  BY <1>1, <1>2, <1>3, <1>6 DEF FlawsOf
<1> QED
  BY <1>1, <1>4, <1>5, <1>7

LEMMA FileInvStep == FileInv /\ [FileNext]_fileVars => FileInv'
<1> SUFFICES ASSUME FileInv, [FileNext]_fileVars PROVE FileInv'
  OBVIOUS
<1>0. file.lines \in Seq(FileLines)
  BY DEF FileInv
<1>1. CASE ReadFile
  <2>1. PICK offset \in 1..MaxLines, limit \in 1..MaxLines : seenLines' = Numbered(file.lines, offset, limit)
    BY <1>1 DEF ReadFile
  <2>2. PICK L \in Nat : L = Len(file.lines)
    BY <1>0, LenProperties
  <2>3. PICK m : m = Min({L, offset + limit - 1})
    OBVIOUS
  <2>4. m \in Nat /\ m <= L
    <3>1. PICK k \in Nat : k = offset + limit - 1
      OBVIOUS
    <3>2. \E x \in {L, k} : \A y \in {L, k} : x <= y
      <4>1. L <= k \/ k <= L
        OBVIOUS
      <4> QED
        BY <4>1
    <3>3. m \in {L, k} /\ \A y \in {L, k} : m <= y
      BY <2>3, <3>1, <3>2 DEF Min
    <3> QED
      BY <3>3
  <2>5. \A i \in offset..m : i \in Nat /\ file.lines[i] \in FileLines
    <3>1. \A i \in offset..m : i \in 1..L
      BY <2>4
    <3> QED
      BY <1>0, <2>2, <3>1, ElementOfSeq
  <2>6. seenLines' \subseteq Nat \X FileLines
    <3>1. seenLines' = {<<i, file.lines[i]>> : i \in offset..m}
      BY <2>1, <2>2, <2>3 DEF Numbered
    <3>2. \A i \in offset..m : <<i, file.lines[i]>> \in Nat \X FileLines
      BY <2>5
    <3> QED
      BY <3>1, <3>2
  <2> QED
    BY <1>1, <2>6 DEF ReadFile, FileInv
<1>2. CASE HashlineEdit
  <2>0. PICK batch \in Edits : \E order \in SortedEdits(batch) :
           /\ \A i \in 1..Len(batch) : HashMatches(file.lines, batch[i])
           /\ Written(Joined(AppliedEdits(file.lines, batch, order)))
           /\ flaws' = flaws \cup FlawsOf(batch, AppliedEdits(file.lines, batch, order)) \cup EndsLost(batch)
    BY <1>2 DEF HashlineEdit
  <2>1. PICK order \in SortedEdits(batch) :
           /\ \A i \in 1..Len(batch) : HashMatches(file.lines, batch[i])
           /\ Written(Joined(AppliedEdits(file.lines, batch, order)))
           /\ flaws' = flaws \cup FlawsOf(batch, AppliedEdits(file.lines, batch, order)) \cup EndsLost(batch)
    BY <2>0
  <2>2. PICK a : a = AppliedEdits(file.lines, batch, order)
    OBVIOUS
  <2>3. a \in Seq(FileLines) /\ FlawsOf(batch, a) = {}
    BY <2>1, <2>2, EditsWithoutFlaws
  <2>4. Written(Joined(a)) /\ flaws' = flaws \cup EndsLost(batch)
    BY <2>1, <2>2, <2>3
  <2>5. file'.lines \in Seq(FileLines)
    BY <2>3, <2>4, JoinedType, WrittenType
  <2>6. EndsLost(batch) \subseteq {"changed another line's end"}
    BY DEF EndsLost
  <2> QED
    BY <1>2, <2>4, <2>5, <2>6 DEF HashlineEdit, FileInv
<1>3. CASE HashlineEditOfNothing
  <2>1. file'.lines \in Seq(FileLines)
    BY <1>0, <1>3, JoinedType, WrittenType DEF HashlineEditOfNothing
  <2> QED
    BY <1>3, <2>1 DEF HashlineEditOfNothing, FileInv
<1>4. CASE EditByString
  <2>1. PICK old \in Replacements, new \in Replacements : Written(ReplacedAt(file, old, new, FoundAt(file, old)))
    BY <1>4 DEF EditByString
  <2>2. ReplacedAt(file, old, new, FoundAt(file, old)).lines \in Seq(FileLines)
    BY <1>0, ReplacementsType, ReplacedType
  <2>3. file'.lines \in Seq(FileLines)
    BY <2>1, <2>2, WrittenType
  <2> QED
    BY <1>4, <2>3 DEF EditByString, FileInv
<1>5. CASE WriteFile
  <2>1. PICK lines \in Replacements : Written(FileText(lines, Newlines(Len(lines) - 1) \o <<"nothing">>))
    BY <1>5 DEF WriteFile
  <2>2. FileText(lines, Newlines(Len(lines) - 1) \o <<"nothing">>).lines \in Seq(FileLines)
    BY ReplacementsType, FileTextType
  <2>3. file'.lines \in Seq(FileLines)
    BY <2>1, <2>2, WrittenType
  <2> QED
    BY <1>5, <2>3 DEF WriteFile, FileInv
<1>6. CASE ChangedByOthers
  <2>1. Contents \subseteq FileLines /\ 0 \in FileLines
    BY DEF FileLines
  <2>2. CASE file' = NoFile
    <3>1. NoFile.lines \in Seq(FileLines)
      BY EmptySeq DEF NoFile
    <3> QED
      BY <1>6, <2>2, <3>1 DEF ChangedByOthers, FileInv
  <2>3. ASSUME NEW lines \in Seq(FileLines), NEW ends, file' = FileText(lines, ends)
        PROVE  FileInv'
    <3>1. file'.lines \in Seq(FileLines)
      BY <2>3, FileTextType
    <3> QED
      BY <1>6, <3>1 DEF ChangedByOthers, FileInv
  <2>4. CASE \E i \in 1..(Len(file.lines) + 1), line \in Contents :
                file' = FileText(InsertAt(file.lines, i, line), InsertAt(file.ends, i, "newline"))
    BY <1>0, <2>1, <2>3, <2>4, ChangedType
  <2>5. CASE \E i \in 1..Len(file.lines) : file' = FileText(RemoveAt(file.lines, i), RemoveAt(file.ends, i))
    BY <1>0, <2>1, <2>3, <2>5, ChangedType
  <2>6. CASE \E i \in 1..Len(file.lines), line \in Contents :
                file' = FileText([file.lines EXCEPT ![i] = line], file.ends)
    BY <1>0, <2>1, <2>3, <2>6, ChangedType
  <2>7. CASE \E i \in 1..Len(file.lines), end \in Ends : file' = FileText(file.lines, [file.ends EXCEPT ![i] = end])
    BY <1>0, <2>3, <2>7
  <2> QED
    BY <1>6, <2>2, <2>4, <2>5, <2>6, <2>7 DEF ChangedByOthers
<1>7. CASE UNCHANGED fileVars
  BY <1>7 DEF fileVars, FileInv
<1> QED
  BY <1>1, <1>2, <1>3, <1>4, <1>5, <1>6, <1>7 DEF FileNext

\* Whatever the hashes and however the file changes after it was read: an edit by hash replaces a
\* line only if one with its hash was shown at its number; edits of a call leave the texts of the
\* lines they do not name, in their order, and do not shift each other (hashline_edit_tool.py).
THEOREM EditsAreSafe == FileSpec => []EditsLandWhereShown
<1>1. FileInv => EditsLandWhereShown
  BY DEF FileInv, EditsLandWhereShown
<1> QED
  BY <1>1, FileInvInit, FileInvStep, PTL DEF FileSpec

-----------------------------------------------------------------------------
(* The elements of lists. *)

LEMMA FlattenNothing ==
    ASSUME NEW n \in Nat
    PROVE  FlattenSeq([i \in 1..n |-> <<>>]) = <<>>
<1>1. PICK ss : ss = [i \in 1..n |-> <<>>]
  OBVIOUS
<1>2. ss \in [1..n -> Seq({})]
  BY <1>1, EmptySeq
<1>3. ss \in Seq(Seq({}))
  BY <1>2, ListOf
<1>4. PICK s \in Seq({}) : s = FlattenSeq(ss)
  BY <1>3, FlattenType
<1>5. s = <<>>
  <2>1. ASSUME s # <<>> PROVE FALSE
    <3>1. Len(s) \in Nat \ {0}
      BY <2>1, EmptySeq
    <3>2. s[1] \in {}
      BY <3>1, ElementOfSeq
    <3> QED
      BY <3>2
  <2> QED
    BY <2>1
<1> QED
  BY <1>1, <1>4, <1>5

\* Functions of the places of two lists, one after the other.
LEMMA PlacesOfConcat ==
    ASSUME NEW S, NEW T, NEW a \in Seq(S), NEW b \in Seq(S), NEW F \in [S -> T],
           NEW u, u = [i \in 1..Len(a) |-> F[a[i]]], NEW v, v = [i \in 1..Len(b) |-> F[b[i]]],
           NEW w, w = [i \in 1..Len(a \o b) |-> F[(a \o b)[i]]]
    PROVE  u \in Seq(T) /\ v \in Seq(T) /\ w = u \o v
<1>1. PICK m \in Nat, n \in Nat : m = Len(a) /\ n = Len(b)
  BY LenProperties
<1>2. (\A i \in 1..m : a[i] \in S) /\ (\A i \in 1..n : b[i] \in S)
  BY <1>1, ElementOfSeq
<1>3. u \in Seq(T) /\ Len(u) = m /\ \A i \in 1..m : u[i] = F[a[i]]
  <2>1. u \in [1..m -> T]
    BY <1>1, <1>2
  <2> QED
    BY <1>1, <2>1, ListOf
<1>4. v \in Seq(T) /\ Len(v) = n /\ \A i \in 1..n : v[i] = F[b[i]]
  <2>1. v \in [1..n -> T]
    BY <1>1, <1>2
  <2> QED
    BY <1>1, <2>1, ListOf
<1>5. PICK c : c = a \o b
  OBVIOUS
<1>6. c \in Seq(S) /\ Len(c) = m + n /\ \A i \in 1..(m + n) : c[i] = IF i <= m THEN a[i] ELSE b[i - m]
  BY <1>1, <1>5, ConcatProperties
<1>7. PICK x : x = u \o v
  OBVIOUS
<1>8. x \in Seq(T) /\ Len(x) = m + n /\ \A i \in 1..(m + n) : x[i] = IF i <= m THEN u[i] ELSE v[i - m]
  BY <1>3, <1>4, <1>7, ConcatProperties
<1>9. \A i \in 1..(m + n) : x[i] = F[c[i]]
  <2> TAKE i \in 1..(m + n)
  <2>1. CASE i <= m
    <3>1. i \in 1..m
      BY <2>1
    <3>2. x[i] = u[i]
      BY <1>8, <2>1
    <3>3. c[i] = a[i]
      BY <1>6, <2>1
    <3> QED
      BY <1>3, <3>1, <3>2, <3>3
  <2>2. CASE ~(i <= m)
    <3>1. i - m \in 1..n
      BY <2>2
    <3>2. x[i] = v[i - m]
      BY <1>8, <2>2
    <3>3. c[i] = b[i - m]
      BY <1>6, <2>2
    <3> QED
      BY <1>4, <3>1, <3>2, <3>3
  <2> QED
    BY <2>1, <2>2
<1>10. x = [i \in 1..(m + n) |-> x[i]]
  BY <1>8, LenProperties
<1>11. x = [i \in 1..(m + n) |-> F[c[i]]]
  BY <1>9, <1>10
<1>12. w = [i \in 1..(m + n) |-> F[c[i]]]
  BY <1>5, <1>6
<1> QED
  BY <1>3, <1>4, <1>7, <1>11, <1>12

-----------------------------------------------------------------------------
(* Requests: what a provider is sent. *)

BlockIds == Nat \cup ToolUseIds
SentBlocks == [type : {"text", "image", "image_url", "tool_use", "tool_result"}, id : BlockIds]
SaidMessages == [role : {"user", "assistant"}, str : BOOLEAN, blocks : Seq(SentBlocks)]
OutgoingMessages == [role : {"user", "assistant", "tool"}, content : Seq(SentBlocks), calls : Seq(SentBlocks)]

\* The blocks of some types.
Piece(b, types) == IF b.type \in types THEN <<b>> ELSE <<>>
OnlyOf(bs, types) == FlattenSeq([k \in 1..Len(bs) |-> Piece(bs[k], types)])

LEMMA OnlyIs ==
    ASSUME NEW m, m.blocks \in Seq(SentBlocks), NEW types
    PROVE  Only(m, types) = OnlyOf(m.blocks, types)
<1>1. DOMAIN m.blocks = 1..Len(m.blocks)
  BY LenProperties
<1> QED
  BY <1>1 DEF Only, OnlyOf, Piece

LEMMA OnlyType ==
    ASSUME NEW bs \in Seq(SentBlocks), NEW types
    PROVE  OnlyOf(bs, types) \in Seq({b \in SentBlocks : b.type \in types})
<1> DEFINE S == {b \in SentBlocks : b.type \in types}
<1>1. \A k \in 1..Len(bs) : Piece(bs[k], types) \in Seq(S)
  <2> TAKE k \in 1..Len(bs)
  <2>1. bs[k] \in SentBlocks
    BY ElementOfSeq
  <2>2. CASE bs[k].type \in types
    BY <2>1, <2>2 DEF Piece
  <2>3. CASE bs[k].type \notin types
    BY <2>3, EmptySeq DEF Piece
  <2> QED
    BY <2>2, <2>3
<1> HIDE DEF S
<1>2. [k \in 1..Len(bs) |-> Piece(bs[k], types)] \in Seq(Seq(S))
  BY <1>1, LenProperties
<1> QED
  BY <1>2, FlattenType DEF OnlyOf, S

LEMMA OnlyAll ==
    ASSUME NEW bs \in Seq(SentBlocks), NEW types, \A k \in 1..Len(bs) : bs[k].type \in types
    PROVE  OnlyOf(bs, types) = bs
<1>1. [k \in 1..Len(bs) |-> Piece(bs[k], types)] = Singles(bs)
  BY DEF Singles, Piece
<1> QED
  BY <1>1, FlattenSingles DEF OnlyOf

LEMMA OnlyNone ==
    ASSUME NEW bs \in Seq(SentBlocks), NEW types, \A k \in 1..Len(bs) : bs[k].type \notin types
    PROVE  OnlyOf(bs, types) = <<>>
<1>1. [k \in 1..Len(bs) |-> Piece(bs[k], types)] = [k \in 1..Len(bs) |-> <<>>]
  BY DEF Piece
<1> QED
  BY <1>1, FlattenNothing, LenProperties DEF OnlyOf

LEMMA OnlyConcat ==
    ASSUME NEW a \in Seq(SentBlocks), NEW b \in Seq(SentBlocks), NEW types
    PROVE  OnlyOf(a \o b, types) = OnlyOf(a, types) \o OnlyOf(b, types)
<1> DEFINE F == [x \in SentBlocks |-> Piece(x, types)]
           p(s) == [k \in 1..Len(s) |-> F[s[k]]]
<1>1. F \in [SentBlocks -> Seq(SentBlocks)]
  <2>1. \A x \in SentBlocks : Piece(x, types) \in Seq(SentBlocks)
    BY EmptySeq DEF Piece
  <2> QED
    BY <2>1
<1>2. \A s \in Seq(SentBlocks) : FlattenSeq(p(s)) = OnlyOf(s, types)
  <2> TAKE s \in Seq(SentBlocks)
  <2>1. \A k \in 1..Len(s) : F[s[k]] = Piece(s[k], types)
    BY ElementOfSeq
  <2>2. p(s) = [k \in 1..Len(s) |-> Piece(s[k], types)]
    BY <2>1
  <2> QED
    BY <2>2 DEF OnlyOf
<1> HIDE DEF F
<1>3. p(a) \in Seq(Seq(SentBlocks)) /\ p(b) \in Seq(Seq(SentBlocks)) /\ p(a \o b) = p(a) \o p(b)
  BY <1>1, PlacesOfConcat
<1> HIDE DEF p
<1>4. a \o b \in Seq(SentBlocks)
  BY ConcatProperties
<1> QED
  <2>1. FlattenSeq(p(a) \o p(b)) = FlattenSeq(p(a)) \o FlattenSeq(p(b))
    BY <1>3, FlattenConcat
  <2>2. FlattenSeq(p(a)) = OnlyOf(a, types) /\ FlattenSeq(p(b)) = OnlyOf(b, types)
    BY <1>2
  <2>3. FlattenSeq(p(a \o b)) = OnlyOf(a \o b, types)
    BY <1>2, <1>4
  <2> QED
    BY <1>3, <2>1, <2>2, <2>3

-----------------------------------------------------------------------------
\* Messages as they are sent.
ApiBlock(b) == IF b.type = "image" THEN [b EXCEPT !.type = "image_url"] ELSE b
ApiBlocks(bs) == [k \in 1..Len(bs) |-> ApiBlock(bs[k])]
ApiOf(m) == [role |-> m.role, str |-> m.str, blocks |-> ApiBlocks(m.blocks)]

LEMMA ApiBlockType ==
    ASSUME NEW b \in SentBlocks
    PROVE  /\ ApiBlock(b) \in SentBlocks /\ ApiBlock(b).id = b.id
           /\ ApiBlock(b).type = IF b.type = "image" THEN "image_url" ELSE b.type
BY DEF ApiBlock, SentBlocks

LEMMA ApiBlocksType ==
    ASSUME NEW bs \in Seq(SentBlocks)
    PROVE  ApiBlocks(bs) \in Seq(SentBlocks) /\ Len(ApiBlocks(bs)) = Len(bs)
           /\ \A k \in 1..Len(bs) : ApiBlocks(bs)[k] = ApiBlock(bs[k]) /\ bs[k] \in SentBlocks
<1>1. \A k \in 1..Len(bs) : ApiBlock(bs[k]) \in SentBlocks /\ bs[k] \in SentBlocks
  BY ElementOfSeq, ApiBlockType
<1>2. ApiBlocks(bs) \in [1..Len(bs) -> SentBlocks] /\ Len(bs) \in Nat
  BY <1>1, LenProperties DEF ApiBlocks
<1>3. ApiBlocks(bs) \in Seq(SentBlocks) /\ Len(ApiBlocks(bs)) = Len(bs)
  BY <1>2, ListOf
<1> QED
  BY <1>1, <1>3 DEF ApiBlocks

LEMMA ApiBlocksConcat ==
    ASSUME NEW a \in Seq(SentBlocks), NEW b \in Seq(SentBlocks)
    PROVE  ApiBlocks(a \o b) = ApiBlocks(a) \o ApiBlocks(b)
<1> DEFINE F == [x \in SentBlocks |-> ApiBlock(x)]
<1>1. F \in [SentBlocks -> SentBlocks]
  BY ApiBlockType
<1>2. \A s \in Seq(SentBlocks) : ApiBlocks(s) = [k \in 1..Len(s) |-> F[s[k]]]
  <2> TAKE s \in Seq(SentBlocks)
  <2>1. \A k \in 1..Len(s) : F[s[k]] = ApiBlock(s[k])
    BY ElementOfSeq
  <2> QED
    BY <2>1 DEF ApiBlocks
<1> HIDE DEF F
<1>3. a \o b \in Seq(SentBlocks)
  BY ConcatProperties
<1>4. ApiBlocks(a) = [k \in 1..Len(a) |-> F[a[k]]] /\ ApiBlocks(b) = [k \in 1..Len(b) |-> F[b[k]]]
      /\ ApiBlocks(a \o b) = [k \in 1..Len(a \o b) |-> F[(a \o b)[k]]]
  BY <1>2, <1>3
<1> QED
  BY <1>1, <1>4, PlacesOfConcat

LEMMA ApiType ==
    ASSUME NEW m \in SaidMessages
    PROVE  ApiOf(m) \in SaidMessages
<1>1. m.role \in {"user", "assistant"} /\ m.str \in BOOLEAN /\ m.blocks \in Seq(SentBlocks)
  BY DEF SaidMessages
<1>2. PICK bs \in Seq(SentBlocks) : bs = ApiBlocks(m.blocks)
  BY <1>1, ApiBlocksType
<1> QED
  BY <1>1, <1>2 DEF ApiOf, SaidMessages

LEMMA ApiIs ==
    ASSUME NEW d \in Seq(SaidMessages)
    PROVE  ToApiMessages(d) = [i \in 1..Len(d) |-> ApiOf(d[i])]
<1>1. ASSUME NEW m \in SaidMessages
      PROVE  ApiOf(m) = [m EXCEPT !.blocks =
                [k \in DOMAIN @ |-> IF @[k].type = "image" THEN [@[k] EXCEPT !.type = "image_url"] ELSE @[k]]]
  <2>1. m.blocks \in Seq(SentBlocks) /\ m = [role |-> m.role, str |-> m.str, blocks |-> m.blocks]
    BY DEF SaidMessages
  <2>2. DOMAIN m.blocks = 1..Len(m.blocks)
    BY <2>1, LenProperties
  <2>3. PICK bs : bs = ApiBlocks(m.blocks)
    OBVIOUS
  <2>4. [k \in DOMAIN m.blocks |-> IF m.blocks[k].type = "image" THEN [m.blocks[k] EXCEPT !.type = "image_url"]
                                   ELSE m.blocks[k]] = bs
    BY <2>2, <2>3 DEF ApiBlocks, ApiBlock
  <2>5. [m EXCEPT !.blocks = bs] = [role |-> m.role, str |-> m.str, blocks |-> bs]
    BY <2>1
  <2> QED
    BY <2>3, <2>4, <2>5 DEF ApiOf
<1>2. DOMAIN d = 1..Len(d) /\ \A i \in 1..Len(d) : d[i] \in SaidMessages
  BY LenProperties, ElementOfSeq
<1> QED
  BY <1>1, <1>2 DEF ToApiMessages

LEMMA ConvertedType ==
    ASSUME NEW m \in SaidMessages
    PROVE  Converted(m) \in Seq(OutgoingMessages)
<1>1. m.role \in {"user", "assistant"} /\ m.str \in BOOLEAN /\ m.blocks \in Seq(SentBlocks)
  BY DEF SaidMessages
<1>2. ASSUME NEW types
      PROVE  Only(m, types) \in Seq(SentBlocks)
  <2>1. OnlyOf(m.blocks, types) \in Seq({b \in SentBlocks : b.type \in types})
    BY <1>1, OnlyType
  <2>2. OnlyOf(m.blocks, types) \in Seq(SentBlocks)
    BY <2>1, SeqMonotonic
  <2> QED
    BY <1>1, <2>2, OnlyIs
<1>3. \A c, k \in Seq(SentBlocks) : Outgoing(m.role, c, k) \in OutgoingMessages
  BY <1>1 DEF Outgoing, OutgoingMessages
<1>4. MainMessage(m) \in Seq(OutgoingMessages)
  <2>1. PICK content \in Seq(SentBlocks) :
           content = Only(m, IF m.role = "assistant" THEN {"text"} ELSE {"text", "image_url"})
    BY <1>2
  <2>2. PICK calls \in Seq(SentBlocks) : calls = Only(m, {"tool_use"})
    BY <1>2
  <2>3. <<Outgoing(m.role, content, calls)>> \in Seq(OutgoingMessages)
    BY <1>3
  <2> QED
    BY <2>1, <2>2, <2>3, EmptySeq DEF MainMessage
<1>5. PICK results \in Seq(SentBlocks) : results = Only(m, {"tool_result"})
  BY <1>2
<1>6. PICK tools : tools = [i \in DOMAIN results |-> Outgoing("tool", <<results[i]>>, <<>>)]
  OBVIOUS
<1>7. tools \in Seq(OutgoingMessages)
  <2>1. DOMAIN results = 1..Len(results) /\ Len(results) \in Nat
    BY LenProperties
  <2>2. \A i \in 1..Len(results) : <<results[i]>> \in Seq(SentBlocks)
    BY ElementOfSeq
  <2>3. \A c \in Seq(SentBlocks) : Outgoing("tool", c, <<>>) \in OutgoingMessages
    BY EmptySeq DEF Outgoing, OutgoingMessages
  <2>4. tools \in [1..Len(results) -> OutgoingMessages]
    BY <1>6, <2>1, <2>2, <2>3
  <2> QED
    BY <2>1, <2>4, ListOf
<1> QED
  BY <1>4, <1>5, <1>6, <1>7, ConcatProperties DEF Converted

\* A history as it is sent to a provider that converts it.
Conv(d) == ToOpenaiMessages(ToApiMessages(d))
\* The blocks of a history, and those of a request.
BlocksSaid(d) == FlattenSeq([i \in DOMAIN d |-> ToApiMessages(d)[i].blocks])
BlocksIn(ms) == FlattenSeq([k \in DOMAIN ms |-> ms[k].content \o ms[k].calls])

LEMMA ConvIs ==
    ASSUME NEW d \in Seq(SaidMessages)
    PROVE  /\ Conv(d) = FlattenSeq([i \in 1..Len(d) |-> Converted(ApiOf(d[i]))])
           /\ BlocksSaid(d) = FlattenSeq([i \in 1..Len(d) |-> ApiOf(d[i]).blocks])
<1>1. PICK a : a = [i \in 1..Len(d) |-> ApiOf(d[i])]
  OBVIOUS
<1>2. ToApiMessages(d) = a
  BY <1>1, ApiIs
<1>3. DOMAIN a = 1..Len(d) /\ DOMAIN d = 1..Len(d) /\ \A i \in 1..Len(d) : a[i] = ApiOf(d[i])
  BY <1>1, LenProperties
<1>4. ToOpenaiMessages(a) = FlattenSeq([i \in 1..Len(d) |-> Converted(ApiOf(d[i]))])
  BY <1>3 DEF ToOpenaiMessages
<1>5. BlocksSaid(d) = FlattenSeq([i \in 1..Len(d) |-> ApiOf(d[i]).blocks])
  BY <1>2, <1>3 DEF BlocksSaid
<1> QED
  BY <1>2, <1>4, <1>5 DEF Conv

\* Flattened functions of the places.
Mapped(F, s) == [i \in 1..Len(s) |-> F[s[i]]]

LEMMA FlattenOfAppend ==
    ASSUME NEW S, NEW T, NEW s \in Seq(S), NEW x \in S, NEW F \in [S -> Seq(T)]
    PROVE  /\ FlattenSeq(Mapped(F, Append(s, x))) = FlattenSeq(Mapped(F, s)) \o F[x]
           /\ FlattenSeq(Mapped(F, s)) \in Seq(T)
<1> DEFINE u == Mapped(F, s)
           w == Mapped(F, Append(s, x))
<1>0. u = [i \in 1..Len(s) |-> F[s[i]]] /\ w = [i \in 1..Len(Append(s, x)) |-> F[Append(s, x)[i]]]
  BY DEF Mapped
<1> HIDE DEF u, w
<1>1. PICK n \in Nat : n = Len(s)
  BY LenProperties
<1>2. PICK t : t = Append(s, x)
  OBVIOUS
<1>3. t \in Seq(S) /\ Len(t) = n + 1 /\ t[n + 1] = x /\ \A i \in 1..n : t[i] = s[i] /\ s[i] \in S
  <2>1. \A i \in 1..n : t[i] = s[i] /\ s[i] \in S
    BY <1>1, <1>2, AppendProperties, ElementOfSeq
  <2> QED
    BY <1>1, <1>2, <2>1, AppendProperties
<1>4. u \in Seq(Seq(T)) /\ Len(u) = n /\ \A i \in 1..n : u[i] = F[s[i]]
  <2>1. u \in [1..n -> Seq(T)]
    BY <1>0, <1>1, <1>3
  <2> QED
    BY <1>0, <1>1, <2>1, ListOf
<1>5. PICK y \in Seq(T) : y = F[x]
  OBVIOUS
<1>6. PICK v : v = Append(u, y)
  OBVIOUS
<1>7. v \in Seq(Seq(T)) /\ Len(v) = n + 1 /\ v[n + 1] = y /\ \A i \in 1..n : v[i] = u[i]
  <2>1. \A i \in 1..n : v[i] = u[i]
    BY <1>4, <1>6, AppendProperties
  <2> QED
    BY <1>4, <1>6, <2>1, AppendProperties
<1>8. \A i \in 1..(n + 1) : v[i] = F[t[i]]
  <2> TAKE i \in 1..(n + 1)
  <2>1. CASE i \in 1..n
    BY <1>3, <1>4, <1>7, <2>1
  <2>2. CASE i = n + 1
    BY <1>3, <1>5, <1>7, <2>2
  <2> QED
    BY <2>1, <2>2
<1>9. v = [i \in 1..(n + 1) |-> v[i]]
  BY <1>7, LenProperties
<1>10. v = [i \in 1..(n + 1) |-> F[t[i]]]
  BY <1>8, <1>9
<1>11. w = v
  BY <1>0, <1>2, <1>3, <1>10
<1>12. FlattenSeq(v) = FlattenSeq(u) \o y /\ FlattenSeq(u) \in Seq(T)
  BY <1>4, <1>6, FlattenAppend, FlattenType
<1> QED
  BY <1>5, <1>11, <1>12 DEF u, w

LEMMA ConvAppend ==
    ASSUME NEW d \in Seq(SaidMessages), NEW m \in SaidMessages
    PROVE  /\ Conv(Append(d, m)) = Conv(d) \o Converted(ApiOf(m))
           /\ Conv(d) \in Seq(OutgoingMessages)
           /\ BlocksSaid(Append(d, m)) = BlocksSaid(d) \o ApiOf(m).blocks
           /\ BlocksSaid(d) \in Seq(SentBlocks)
<1> DEFINE F == [x \in SaidMessages |-> Converted(ApiOf(x))]
           G == [x \in SaidMessages |-> ApiOf(x).blocks]
<1>1. F \in [SaidMessages -> Seq(OutgoingMessages)]
  BY ApiType, ConvertedType
<1>2. G \in [SaidMessages -> Seq(SentBlocks)]
  <2>1. \A x \in SaidMessages : x.blocks \in Seq(SentBlocks)
    BY DEF SaidMessages
  <2> QED
    BY <2>1, ApiType
<1>3. ASSUME NEW s \in Seq(SaidMessages)
      PROVE  /\ Conv(s) = FlattenSeq(Mapped(F, s))
             /\ BlocksSaid(s) = FlattenSeq(Mapped(G, s))
  <2>1. \A i \in 1..Len(s) : F[s[i]] = Converted(ApiOf(s[i])) /\ G[s[i]] = ApiOf(s[i]).blocks
    BY ElementOfSeq
  <2>2. /\ Mapped(F, s) = [i \in 1..Len(s) |-> Converted(ApiOf(s[i]))]
        /\ Mapped(G, s) = [i \in 1..Len(s) |-> ApiOf(s[i]).blocks]
    BY <2>1 DEF Mapped
  <2> QED
    BY <2>2, ConvIs
<1>4. F[m] = Converted(ApiOf(m)) /\ G[m] = ApiOf(m).blocks
  OBVIOUS
<1> HIDE DEF F, G
<1>5. Append(d, m) \in Seq(SaidMessages)
  BY AppendProperties
<1>6. Conv(Append(d, m)) = Conv(d) \o F[m] /\ Conv(d) \in Seq(OutgoingMessages)
  <2>1. /\ FlattenSeq(Mapped(F, Append(d, m))) = FlattenSeq(Mapped(F, d)) \o F[m]
        /\ FlattenSeq(Mapped(F, d)) \in Seq(OutgoingMessages)
    BY <1>1, FlattenOfAppend
  <2> QED
    BY <1>3, <1>5, <2>1
<1>7. BlocksSaid(Append(d, m)) = BlocksSaid(d) \o G[m] /\ BlocksSaid(d) \in Seq(SentBlocks)
  <2>1. /\ FlattenSeq(Mapped(G, Append(d, m))) = FlattenSeq(Mapped(G, d)) \o G[m]
        /\ FlattenSeq(Mapped(G, d)) \in Seq(SentBlocks)
    BY <1>2, FlattenOfAppend
  <2> QED
    BY <1>3, <1>5, <2>1
<1> QED
  BY <1>4, <1>6, <1>7

LEMMA BlocksInConcat ==
    ASSUME NEW a \in Seq(OutgoingMessages), NEW b \in Seq(OutgoingMessages)
    PROVE  BlocksIn(a \o b) = BlocksIn(a) \o BlocksIn(b)
<1> DEFINE F == [x \in OutgoingMessages |-> x.content \o x.calls]
           p(s) == [k \in 1..Len(s) |-> F[s[k]]]
<1>1. F \in [OutgoingMessages -> Seq(SentBlocks)]
  <2>1. \A x \in OutgoingMessages : x.content \o x.calls \in Seq(SentBlocks)
    BY ConcatProperties DEF OutgoingMessages
  <2> QED
    BY <2>1
<1>2. \A s \in Seq(OutgoingMessages) : BlocksIn(s) = FlattenSeq(p(s))
  <2> TAKE s \in Seq(OutgoingMessages)
  <2>1. \A k \in 1..Len(s) : F[s[k]] = s[k].content \o s[k].calls
    BY ElementOfSeq
  <2>2. DOMAIN s = 1..Len(s)
    BY LenProperties
  <2>3. p(s) = [k \in DOMAIN s |-> s[k].content \o s[k].calls]
    BY <2>1, <2>2
  <2> QED
    BY <2>3 DEF BlocksIn
<1> HIDE DEF F
<1>3. p(a) \in Seq(Seq(SentBlocks)) /\ p(b) \in Seq(Seq(SentBlocks)) /\ p(a \o b) = p(a) \o p(b)
  BY <1>1, PlacesOfConcat
<1> HIDE DEF p
<1>4. a \o b \in Seq(OutgoingMessages)
  BY ConcatProperties
<1>5. FlattenSeq(p(a) \o p(b)) = FlattenSeq(p(a)) \o FlattenSeq(p(b))
  BY <1>3, FlattenConcat
<1>6. BlocksIn(a) = FlattenSeq(p(a)) /\ BlocksIn(b) = FlattenSeq(p(b)) /\ BlocksIn(a \o b) = FlattenSeq(p(a \o b))
  BY <1>2, <1>4
<1> QED
  BY <1>3, <1>5, <1>6

-----------------------------------------------------------------------------
\* What a message becomes.
TypesIn(bs, types) == \A i \in 1..Len(bs) : bs[i].type \in types
TextsOf(m) == IF m.role = "assistant" THEN {"text"} ELSE {"text", "image_url"}

LEMMA ApiBlocksSame ==
    ASSUME NEW bs \in Seq(SentBlocks), NEW types, TypesIn(bs, types), "image" \notin types
    PROVE  ApiBlocks(bs) = bs
<1>1. \A k \in 1..Len(bs) : ApiBlock(bs[k]) = bs[k]
  BY DEF TypesIn, ApiBlock
<1>2. bs = [k \in 1..Len(bs) |-> bs[k]]
  BY LenProperties
<1> QED
  BY <1>1, <1>2 DEF ApiBlocks

LEMMA OutgoingIs ==
    ASSUME NEW role, NEW content, NEW calls
    PROVE  /\ Outgoing(role, content, calls).role = role
           /\ Outgoing(role, content, calls).content = content
           /\ Outgoing(role, content, calls).calls = calls
BY DEF Outgoing

LEMMA ConvertedWithoutResults ==
    ASSUME NEW m \in SaidMessages, NEW c \in Seq(SentBlocks), NEW k \in Seq(SentBlocks), m.blocks = c \o k,
           TypesIn(c, IF m.role = "assistant" THEN {"text"} ELSE {"text", "image"}), TypesIn(k, {"tool_use"})
    PROVE  Converted(ApiOf(m)) = <<Outgoing(m.role, ApiBlocks(c), k)>> /\ ApiOf(m).blocks = ApiBlocks(c) \o k
<1>1. PICK a \in SaidMessages : a = ApiOf(m)
  BY ApiType
<1>2. PICK x \in Seq(SentBlocks) : x = ApiBlocks(c)
  BY ApiBlocksType
<1>3. TypesIn(x, TextsOf(m))
  <2>1. Len(x) = Len(c) /\ \A i \in 1..Len(c) : x[i] = ApiBlock(c[i]) /\ c[i] \in SentBlocks
    BY <1>2, ApiBlocksType
  <2>2. \A i \in 1..Len(c) : x[i].type = IF c[i].type = "image" THEN "image_url" ELSE c[i].type
    BY <2>1, ApiBlockType
  <2> QED
    BY <2>1, <2>2 DEF TypesIn, TextsOf
<1>4. a.role = m.role /\ a.blocks = x \o k
  <2>1. ApiBlocks(k) = k
    BY ApiBlocksSame
  <2>2. ApiBlocks(m.blocks) = x \o k
    BY <1>2, <2>1, ApiBlocksConcat
  <2> QED
    BY <1>1, <2>2 DEF ApiOf
<1>5. a.blocks \in Seq(SentBlocks)
  BY DEF SaidMessages
<1>6. ASSUME NEW types
      PROVE  Only(a, types) = OnlyOf(x, types) \o OnlyOf(k, types)
  <2>1. Only(a, types) = OnlyOf(a.blocks, types)
    BY <1>5, OnlyIs
  <2>2. OnlyOf(x \o k, types) = OnlyOf(x, types) \o OnlyOf(k, types)
    BY OnlyConcat
  <2> QED
    BY <1>4, <2>1, <2>2
<1>7. Only(a, TextsOf(m)) = x
  <2>1. OnlyOf(x, TextsOf(m)) = x
    BY <1>3, OnlyAll DEF TypesIn
  <2>2. OnlyOf(k, TextsOf(m)) = <<>>
    BY OnlyNone DEF TypesIn, TextsOf
  <2> QED
    BY <1>6, <2>1, <2>2, ConcatEmptySeq
<1>8. Only(a, {"tool_use"}) = k
  <2>1. OnlyOf(x, {"tool_use"}) = <<>>
    BY <1>3, OnlyNone DEF TypesIn, TextsOf
  <2>2. OnlyOf(k, {"tool_use"}) = k
    BY OnlyAll DEF TypesIn
  <2> QED
    BY <1>6, <2>1, <2>2, ConcatEmptySeq
<1>9. Only(a, {"tool_result"}) = <<>>
  <2>1. OnlyOf(x, {"tool_result"}) = <<>>
    BY <1>3, OnlyNone DEF TypesIn, TextsOf
  <2>2. OnlyOf(k, {"tool_result"}) = <<>>
    BY OnlyNone DEF TypesIn
  <2>3. <<>> \o <<>> = <<>>
    BY EmptySeq, ConcatEmptySeq
  <2> QED
    BY <1>6, <2>1, <2>2, <2>3
<1>10. PICK o \in OutgoingMessages : o = Outgoing(m.role, x, k)
  BY DEF Outgoing, OutgoingMessages, SaidMessages
<1>11. MainMessage(a) = <<o>>
  BY <1>4, <1>7, <1>8, <1>9, <1>10 DEF MainMessage, TextsOf
<1>12. Converted(a) = <<o>> \o <<>>
  <2>1. PICK tools : tools = [i \in DOMAIN (<<>>) |-> Outgoing("tool", <<(<<>>)[i]>>, <<>>)]
    OBVIOUS
  <2>2. DOMAIN (<<>>) = {}
    OBVIOUS
  <2>3. tools = <<>>
    BY <2>1, <2>2
  <2> QED
    BY <1>9, <1>11, <2>1, <2>3 DEF Converted
<1>13. <<o>> \o <<>> = <<o>>
  BY ConcatEmptySeq
<1> QED
  BY <1>1, <1>2, <1>4, <1>10, <1>12, <1>13

\* The results of a list of calls.
Results(r) == [i \in 1..Len(r) |-> Outgoing("tool", <<r[i]>>, <<>>)]

LEMMA ConvertedResults ==
    ASSUME NEW m \in SaidMessages, ~m.str, m.blocks # <<>>, TypesIn(m.blocks, {"tool_result"})
    PROVE  Converted(ApiOf(m)) = Results(m.blocks) /\ ApiOf(m).blocks = m.blocks
<1>1. PICK a \in SaidMessages : a = ApiOf(m)
  BY ApiType
<1>2. PICK r \in Seq(SentBlocks) : r = m.blocks
  BY DEF SaidMessages
<1>3. a.blocks = r /\ a.str = m.str
  <2>1. ApiBlocks(r) = r
    BY <1>2, ApiBlocksSame
  <2> QED
    BY <1>1, <1>2, <2>1 DEF ApiOf
<1>4. \A types : Only(a, types) = OnlyOf(r, types)
  BY <1>3, OnlyIs
<1>5. Only(a, {"tool_result"}) = r
  BY <1>2, <1>4, OnlyAll DEF TypesIn
<1>6. Only(a, {"tool_use"}) = <<>>
  BY <1>2, <1>4, OnlyNone DEF TypesIn
<1>7. Only(a, IF a.role = "assistant" THEN {"text"} ELSE {"text", "image_url"}) = <<>>
  BY <1>2, <1>4, OnlyNone DEF TypesIn
<1>8. MainMessage(a) = <<>>
  BY <1>2, <1>3, <1>5, <1>6, <1>7 DEF MainMessage
<1>9. Converted(a) = <<>> \o Results(r)
  <2>1. DOMAIN r = 1..Len(r)
    BY LenProperties
  <2> QED
    BY <1>5, <1>8, <2>1 DEF Converted, Results
<1>10. Results(r) \in Seq(OutgoingMessages)
  <2>1. \A i \in 1..Len(r) : Outgoing("tool", <<r[i]>>, <<>>) \in OutgoingMessages
    <3>1. \A i \in 1..Len(r) : <<r[i]>> \in Seq(SentBlocks)
      BY ElementOfSeq
    <3> QED
      BY <3>1, EmptySeq DEF Outgoing, OutgoingMessages
  <2>2. Results(r) \in [1..Len(r) -> OutgoingMessages] /\ Len(r) \in Nat
    BY <2>1, LenProperties DEF Results
  <2> QED
    BY <2>2, ListOf
<1> QED
  BY <1>1, <1>2, <1>3, <1>9, <1>10, ConcatEmptySeq

LEMMA BlocksOfConverted ==
    /\ \A role, c, k : c \in Seq(SentBlocks) /\ k \in Seq(SentBlocks) => BlocksIn(<<Outgoing(role, c, k)>>) = c \o k
    /\ \A r \in Seq(SentBlocks) : BlocksIn(Results(r)) = r
<1>1. ASSUME NEW role, NEW c \in Seq(SentBlocks), NEW k \in Seq(SentBlocks)
      PROVE  BlocksIn(<<Outgoing(role, c, k)>>) = c \o k
  <2>1. PICK o : o = Outgoing(role, c, k)
    OBVIOUS
  <2>2. o.content = c /\ o.calls = k
    BY <2>1, OutgoingIs
  <2>3. PICK s : s = <<o>>
    OBVIOUS
  <2>4. DOMAIN s = 1..1 /\ s[1] = o
    BY <2>3
  <2>5. PICK ss : ss = [i \in DOMAIN s |-> s[i].content \o s[i].calls]
    OBVIOUS
  <2>7. PICK e \in Seq(SentBlocks) : e = c \o k
    BY ConcatProperties
  <2>6. ss = <<c \o k>>
    <3>1. \A i \in 1..1 : s[i].content \o s[i].calls = e
      <4> TAKE i \in 1..1
      <4>1. i = 1
        OBVIOUS
      <4>2. s[i] = o
        BY <2>4, <4>1
      <4>3. o.content \o o.calls = e
        BY <2>2, <2>7
      <4> QED
        BY <4>2, <4>3
    <3>2. ss = [i \in 1..1 |-> e]
      BY <2>4, <2>5, <3>1
    <3> QED
      BY <2>7, <3>2
  <2> QED
    BY <2>1, <2>3, <2>5, <2>6, <2>7, FlattenOne DEF BlocksIn
<1>2. ASSUME NEW r \in Seq(SentBlocks)
      PROVE  BlocksIn(Results(r)) = r
  <2>1. PICK s : s = Results(r)
    OBVIOUS
  <2>2. DOMAIN s = 1..Len(r)
    BY <2>1 DEF Results
  <2>3. \A i \in 1..Len(r) : s[i].content \o s[i].calls = <<r[i]>>
    <3> TAKE i \in 1..Len(r)
    <3>1. s[i] = Outgoing("tool", <<r[i]>>, <<>>)
      BY <2>1 DEF Results
    <3>2. s[i].content = <<r[i]>> /\ s[i].calls = <<>>
      BY <3>1, OutgoingIs
    <3>3. <<r[i]>> \in Seq(SentBlocks)
      BY ElementOfSeq
    <3> QED
      BY <3>2, <3>3, ConcatEmptySeq
  <2>4. PICK ss : ss = [i \in DOMAIN s |-> s[i].content \o s[i].calls]
    OBVIOUS
  <2>5. ss = Singles(r)
    BY <2>2, <2>3, <2>4 DEF Singles
  <2> QED
    BY <2>1, <2>4, <2>5, FlattenSingles DEF BlocksIn
<1> QED
  BY <1>1, <1>2

-----------------------------------------------------------------------------
\* Results behind their calls.
Answers(ms, k, j) ==
    /\ Cardinality({i \in DOMAIN ms[j].calls : ms[j].calls[i].id = ms[k].content[1].id}) = 1
    /\ \A i \in (j + 1)..(k - 1) : ms[i].role = "tool" /\ ms[i].content # ms[k].content
Follows(ms) == \A k \in DOMAIN ms : ms[k].role = "tool" => \E j \in 1..(k - 1) : Answers(ms, k, j)

LEMMA FollowsBefore ==
    ASSUME NEW a \in Seq(OutgoingMessages), NEW b \in Seq(OutgoingMessages), Follows(a),
           NEW k \in 1..Len(a), (a \o b)[k].role = "tool"
    PROVE  \E j \in 1..(k - 1) : Answers(a \o b, k, j)
<1>1. PICK c : c = a \o b
  OBVIOUS
<1>2. \A i \in 1..Len(a) : c[i] = a[i]
  BY <1>1, ConcatProperties
<1>3. DOMAIN a = 1..Len(a)
  BY LenProperties
<1>4. a[k].role = "tool"
  BY <1>1, <1>2
<1>5. PICK j \in 1..(k - 1) : Answers(a, k, j)
  BY <1>3, <1>4 DEF Follows
<1>6. c[k] = a[k] /\ c[j] = a[j] /\ \A i \in (j + 1)..(k - 1) : c[i] = a[i]
  BY <1>2
<1>7. Answers(c, k, j)
  BY <1>5, <1>6 DEF Answers
<1> QED
  BY <1>1, <1>7

LEMMA FollowsOne ==
    ASSUME NEW a \in Seq(OutgoingMessages), NEW x \in OutgoingMessages, Follows(a), x.role # "tool"
    PROVE  Follows(a \o <<x>>)
<1>0. <<x>> \in Seq(OutgoingMessages)
  OBVIOUS
<1>1. PICK b \in Seq(OutgoingMessages) : b = <<x>>
  BY <1>0
<1>2. PICK c : c = a \o b
  OBVIOUS
<1>3. DOMAIN c = 1..(Len(a) + 1) /\ c[Len(a) + 1] = x
  <2>1. Len(b) = 1 /\ b[1] = x /\ Len(a) \in Nat
    BY <1>1, LenProperties
  <2>2. /\ c \in Seq(OutgoingMessages) /\ Len(c) = Len(a) + Len(b)
        /\ \A i \in 1..(Len(a) + Len(b)) : c[i] = IF i <= Len(a) THEN a[i] ELSE b[i - Len(a)]
    BY <1>2, ConcatProperties
  <2>3. Len(a) + 1 \in 1..(Len(a) + Len(b)) /\ ~(Len(a) + 1 <= Len(a)) /\ Len(a) + 1 - Len(a) = 1
    BY <2>1
  <2>4. c[Len(a) + 1] = b[1]
    BY <2>2, <2>3
  <2>5. DOMAIN c = 1..Len(c)
    BY <2>2, LenProperties
  <2> QED
    BY <2>1, <2>2, <2>4, <2>5
<1>4. ASSUME NEW k \in DOMAIN c, c[k].role = "tool"
      PROVE  \E j \in 1..(k - 1) : Answers(c, k, j)
  <2>1. k \in 1..Len(a)
    BY <1>3, <1>4, LenProperties
  <2> QED
    BY <1>2, <1>4, <2>1, FollowsBefore
<1> QED
  BY <1>1, <1>2, <1>4 DEF Follows

DistinctIds(c) == \A i, j \in 1..Len(c) : i # j => c[i].id # c[j].id

LEMMA FollowsResults ==
    ASSUME NEW a \in Seq(OutgoingMessages), Follows(a), a # <<>>, DistinctIds(a[Len(a)].calls),
           NEW r \in Seq(SentBlocks), Len(r) <= Len(a[Len(a)].calls),
           \A i \in 1..Len(r) : r[i].id = a[Len(a)].calls[i].id, Results(r) \in Seq(OutgoingMessages)
    PROVE  Follows(a \o Results(r))
<1>1. PICK c : c = a \o Results(r)
  OBVIOUS
<1>2. PICK L \in Nat : L = Len(a) /\ L \in 1..L
  BY EmptySeq
<1>3. PICK n \in Nat : n = Len(r)
  BY LenProperties
<1>4. PICK calls \in Seq(SentBlocks) : calls = a[L].calls
  <2>1. a[L] \in OutgoingMessages
    BY <1>2, ElementOfSeq
  <2> QED
    BY <2>1 DEF OutgoingMessages
<1>5. PICK b \in Seq(OutgoingMessages) : b = Results(r)
  OBVIOUS
<1>6. Len(b) = n /\ \A i \in 1..n : b[i] = Outgoing("tool", <<r[i]>>, <<>>)
  BY <1>3, <1>5 DEF Results
<1>7. DOMAIN c = 1..(L + n)
  <2>1. c \in Seq(OutgoingMessages) /\ Len(c) = L + n
    <3>1. a \o b \in Seq(OutgoingMessages) /\ Len(a \o b) = Len(a) + Len(b)
      BY <1>5, ConcatProperties
    <3> QED
      BY <1>1, <1>2, <1>5, <1>6, <3>1
  <2> QED
    BY <2>1, LenProperties
<1>8. \A i \in 1..n : c[L + i].role = "tool" /\ c[L + i].content = <<r[i]>>
  <2> TAKE i \in 1..n
  <2>1. c[L + i] = b[L + i - L]
    <3>1. L + i \in 1..(L + n) /\ ~(L + i <= L)
      OBVIOUS
    <3> QED
      BY <1>1, <1>2, <1>5, <1>6, <3>1, ConcatProperties
  <2>2. c[L + i] = Outgoing("tool", <<r[i]>>, <<>>)
    BY <1>6, <2>1
  <2> QED
    BY <2>2, OutgoingIs
<1>9. c[L] = a[L]
  BY <1>1, <1>2, <1>5, <1>6, ConcatProperties
<1>10. ASSUME NEW k \in DOMAIN c, c[k].role = "tool"
       PROVE  \E j \in 1..(k - 1) : Answers(c, k, j)
  <2>1. CASE k \in 1..L
    BY <1>1, <1>2, <1>5, <1>10, <2>1, FollowsBefore
  <2>2. CASE k \in (L + 1)..(L + n)
    <3>1. PICK i \in 1..n : k = L + i
      <4>1. k - L \in 1..n /\ k = L + (k - L)
        BY <2>2
      <4> QED
        BY <4>1
    <3>2. c[k].content[1].id = calls[i].id
      <4>1. r[i].id = calls[i].id
        BY <1>2, <1>3, <1>4
      <4>2. c[k].content[1] = r[i]
        BY <1>8, <3>1
      <4> QED
        BY <4>1, <4>2
    <3>3. i \in 1..Len(calls) /\ DOMAIN calls = 1..Len(calls)
      BY <1>2, <1>3, <1>4, LenProperties
    <3>4. {q \in DOMAIN calls : calls[q].id = calls[i].id} = {i}
      BY <1>2, <1>4, <3>3 DEF DistinctIds
    <3>5. Cardinality({i}) = 1
      BY FS_Singleton
    <3>6. Cardinality({q \in DOMAIN c[L].calls : c[L].calls[q].id = c[k].content[1].id}) = 1
      BY <1>4, <1>9, <3>2, <3>4, <3>5
    <3>7. ASSUME NEW q \in (L + 1)..(k - 1)
          PROVE  c[q].role = "tool" /\ c[q].content # c[k].content
      <4>1. PICK p \in 1..n : q = L + p /\ p # i
        <5>1. q - L \in 1..n /\ q = L + (q - L) /\ q - L # i
          BY <3>1
        <5> QED
          BY <5>1
      <4>2. c[q].role = "tool" /\ c[q].content = <<r[p]>> /\ c[k].content = <<r[i]>>
        BY <1>8, <3>1, <4>1
      <4>3. r[p].id # r[i].id
        <5>1. r[p].id = calls[p].id /\ r[i].id = calls[i].id
          BY <1>2, <1>3, <1>4
        <5>2. p \in 1..Len(calls) /\ i \in 1..Len(calls)
          BY <1>2, <1>3, <1>4, LenProperties
        <5> QED
          BY <1>2, <1>4, <4>1, <5>1, <5>2 DEF DistinctIds
      <4>4. <<r[p]>> # <<r[i]>>
        BY <4>3
      <4> QED
        BY <4>2, <4>4
    <3>8. Answers(c, k, L)
      BY <3>6, <3>7 DEF Answers
    <3>9. L \in 1..(k - 1)
      BY <1>2, <3>1
    <3> QED
      BY <3>8, <3>9
  <2>3. k \in 1..L \/ k \in (L + 1)..(L + n)
    BY <1>7
  <2> QED
    BY <2>1, <2>2, <2>3
<1> QED
  BY <1>1, <1>10 DEF Follows

-----------------------------------------------------------------------------
\* A history that is sent in its order, with nothing left out.
SoundHistory(d) ==
    d \in Seq(SaidMessages) /\ Follows(Conv(d)) /\ BlocksIn(Conv(d)) = BlocksSaid(d)

LEMMA SaidType ==
    ASSUME NEW role \in {"user", "assistant"}, NEW str \in BOOLEAN, NEW bs \in Seq(SentBlocks)
    PROVE  /\ Said(role, str, bs) \in SaidMessages
           /\ Said(role, str, bs).role = role /\ Said(role, str, bs).str = str /\ Said(role, str, bs).blocks = bs
BY DEF Said, SaidMessages

LEMMA ConvType ==
    ASSUME NEW d \in Seq(SaidMessages)
    PROVE  Conv(d) \in Seq(OutgoingMessages)
<1>1. Said("user", TRUE, <<>>) \in SaidMessages
  BY EmptySeq, SaidType
<1> QED
  BY <1>1, ConvAppend

LEMMA SoundEmpty == SoundHistory(<<>>)
<1>1. <<>> \in Seq(SaidMessages) /\ Len(<<>>) = 0 /\ 1..0 = {}
  BY EmptySeq
<1>2. PICK d \in Seq(SaidMessages) : d = <<>> /\ 1..Len(d) = {}
  BY <1>1
<1>3. Conv(d) = FlattenSeq(<<>>) /\ BlocksSaid(d) = FlattenSeq(<<>>)
  <2>1. /\ [i \in 1..Len(d) |-> Converted(ApiOf(d[i]))] = <<>>
        /\ [i \in 1..Len(d) |-> ApiOf(d[i]).blocks] = <<>>
    BY <1>2
  <2> QED
    BY <2>1, ConvIs
<1>4. Conv(d) = <<>> /\ BlocksSaid(d) = <<>>
  BY <1>3, FlattenEmpty
<1>5. DOMAIN (<<>>) = {}
  OBVIOUS
<1>6. BlocksIn(<<>>) = <<>>
  <2>1. PICK s : s = <<>>
    OBVIOUS
  <2>2. [k \in DOMAIN s |-> s[k].content \o s[k].calls] = <<>>
    BY <1>5, <2>1
  <2> QED
    BY <2>1, <2>2, FlattenEmpty DEF BlocksIn
<1> QED
  BY <1>2, <1>4, <1>5, <1>6 DEF SoundHistory, Follows

LEMMA SoundWithoutResults ==
    ASSUME NEW d, SoundHistory(d), NEW m \in SaidMessages,
           NEW c \in Seq(SentBlocks), NEW k \in Seq(SentBlocks), m.blocks = c \o k,
           TypesIn(c, IF m.role = "assistant" THEN {"text"} ELSE {"text", "image"}), TypesIn(k, {"tool_use"})
    PROVE  /\ SoundHistory(Append(d, m))
           /\ Conv(Append(d, m)) # <<>>
           /\ Conv(Append(d, m))[Len(Conv(Append(d, m)))].calls = k
<1>1. d \in Seq(SaidMessages) /\ Follows(Conv(d)) /\ BlocksIn(Conv(d)) = BlocksSaid(d)
  BY DEF SoundHistory
<1>2. PICK a \in Seq(OutgoingMessages) : a = Conv(d)
  BY <1>1, ConvAppend
<1>3. PICK x \in Seq(SentBlocks) : x = ApiBlocks(c)
  BY ApiBlocksType
<1>4. PICK o \in OutgoingMessages : o = Outgoing(m.role, x, k)
  BY DEF Outgoing, OutgoingMessages, SaidMessages
<1>5. o.role # "tool" /\ o.calls = k
  BY <1>4, OutgoingIs DEF SaidMessages
<1>6. Converted(ApiOf(m)) = <<o>> /\ ApiOf(m).blocks = x \o k
  BY <1>3, <1>4, ConvertedWithoutResults
<1>7. PICK e : e = Append(d, m)
  OBVIOUS
<1>8. Conv(e) = a \o <<o>> /\ BlocksSaid(e) = BlocksSaid(d) \o (x \o k) /\ e \in Seq(SaidMessages)
  BY <1>1, <1>2, <1>6, <1>7, ConvAppend, AppendProperties
<1>9. Follows(a \o <<o>>)
  BY <1>1, <1>2, <1>5, FollowsOne
<1>10. BlocksIn(a \o <<o>>) = BlocksIn(a) \o (x \o k)
  <2>1. <<o>> \in Seq(OutgoingMessages)
    OBVIOUS
  <2>2. BlocksIn(<<o>>) = x \o k
    BY <1>4, BlocksOfConverted
  <2> QED
    BY <2>1, <2>2, BlocksInConcat
<1>11. a \o <<o>> = Append(a, o)
  BY AppendIsConcat
<1>12. Append(a, o) # <<>> /\ Len(Append(a, o)) = Len(a) + 1 /\ Append(a, o)[Len(a) + 1] = o
  BY AppendProperties
<1> QED
  BY <1>1, <1>2, <1>5, <1>7, <1>8, <1>9, <1>10, <1>11, <1>12 DEF SoundHistory

\* The last message has calls, and the last of the request has them too.
CallsOf(d) == Only(Last(d), {"tool_use"})
CallsLast(d) ==
    /\ d # <<>> /\ Conv(d) # <<>>
    /\ CallsOf(d) \in Seq(SentBlocks) /\ DistinctIds(CallsOf(d))
    /\ Conv(d)[Len(Conv(d))].calls = CallsOf(d)

LEMMA SoundWithResults ==
    ASSUME NEW d, SoundHistory(d), CallsLast(d), NEW n \in 0..Len(CallsOf(d)), NEW m,
           m = Said("user", FALSE, [i \in 1..n |-> Block("tool_result", CallsOf(d)[i].id)])
    PROVE  SoundHistory(Append(d, m))
<1>1. d \in Seq(SaidMessages) /\ Follows(Conv(d)) /\ BlocksIn(Conv(d)) = BlocksSaid(d)
  BY DEF SoundHistory
<1>2. PICK a \in Seq(OutgoingMessages) : a = Conv(d)
  BY <1>1, ConvType
<1>3. PICK calls \in Seq(SentBlocks) : calls = CallsOf(d)
  BY DEF CallsLast
<1>4. n \in Nat /\ n <= Len(calls) /\ Len(calls) \in Nat
  BY <1>3, LenProperties
<1>5. PICK r : r = [i \in 1..n |-> Block("tool_result", calls[i].id)]
  OBVIOUS
<1>6. \A i \in 1..n : r[i].type = "tool_result" /\ r[i].id = calls[i].id /\ r[i] \in SentBlocks
  <2> TAKE i \in 1..n
  <2>1. i \in 1..Len(calls)
    BY <1>4
  <2>2. calls[i] \in SentBlocks
    BY <2>1, ElementOfSeq
  <2>3. r[i] = Block("tool_result", calls[i].id)
    BY <1>5
  <2> QED
    BY <2>2, <2>3 DEF Block, SentBlocks
<1>7. r \in Seq(SentBlocks) /\ Len(r) = n
  <2>1. r \in [1..n -> SentBlocks]
    BY <1>5, <1>6
  <2> QED
    BY <1>4, <2>1, ListOf
<1>8. m = Said("user", FALSE, r)
  BY <1>3, <1>5
<1>9. m \in SaidMessages /\ m.role = "user" /\ m.str = FALSE /\ m.blocks = r
  <2>1. PICK o : o = Said("user", FALSE, r)
    OBVIOUS
  <2>2. o \in SaidMessages /\ o.role = "user" /\ o.str = FALSE /\ o.blocks = r
    BY <1>7, <2>1, SaidType
  <2> QED
    BY <1>8, <2>1, <2>2
<1>10. CASE r = <<>>
  <2>1. <<>> \in Seq(SentBlocks) /\ <<>> \o <<>> = <<>> /\ Len(<<>>) = 0
    BY EmptySeq, ConcatEmptySeq
  <2>2. TypesIn(<<>>, IF m.role = "assistant" THEN {"text"} ELSE {"text", "image"}) /\ TypesIn(<<>>, {"tool_use"})
    BY <2>1 DEF TypesIn
  <2>3. m.blocks = <<>> \o <<>>
    BY <1>9, <1>10, <2>1
  <2> QED
    BY <1>9, <2>1, <2>2, <2>3, SoundWithoutResults
<1>11. CASE r # <<>>
  <2>1. TypesIn(r, {"tool_result"})
    BY <1>6, <1>7 DEF TypesIn
  <2>2. Converted(ApiOf(m)) = Results(r) /\ ApiOf(m).blocks = r
    BY <1>9, <1>11, <2>1, ConvertedResults
  <2>3. PICK b \in Seq(OutgoingMessages) : b = Results(r)
    BY <1>9, <2>2, ApiType, ConvertedType
  <2>4. PICK e : e = Append(d, m)
    OBVIOUS
  <2>5. Conv(e) = a \o b /\ BlocksSaid(e) = BlocksSaid(d) \o r /\ e \in Seq(SaidMessages)
    BY <1>1, <1>2, <1>9, <2>2, <2>3, <2>4, ConvAppend, AppendProperties
  <2>6. Follows(a \o b)
    <3>1. a # <<>> /\ a[Len(a)].calls = calls /\ DistinctIds(calls)
      BY <1>2, <1>3 DEF CallsLast
    <3>2. Follows(a \o Results(r))
      BY <1>1, <1>2, <1>4, <1>6, <1>7, <2>3, <3>1, FollowsResults
    <3> QED
      BY <2>3, <3>2
  <2>7. BlocksIn(a \o b) = BlocksIn(a) \o r
    <3>1. BlocksIn(b) = r
      BY <1>7, <2>3, BlocksOfConverted
    <3> QED
      BY <3>1, BlocksInConcat
  <2> QED
    BY <1>1, <1>2, <2>4, <2>5, <2>6, <2>7 DEF SoundHistory
<1> QED
  BY <1>10, <1>11

-----------------------------------------------------------------------------
\* Histories without calls and results are handed on without them.
PlainTypes == {"text", "image"}
PlainHistory(d) == \A i \in 1..Len(d) : TypesIn(d[i].blocks, PlainTypes)
PlainSent(ms) == \A k \in DOMAIN ms : \A i \in DOMAIN ms[k].content : ms[k].content[i].type \in {"text", "image_url"}

LEMMA PlainApi ==
    ASSUME NEW m \in SaidMessages, TypesIn(m.blocks, PlainTypes)
    PROVE  TypesIn(ApiOf(m).blocks, {"text", "image_url"})
<1>1. PICK bs \in Seq(SentBlocks) : bs = m.blocks
  BY DEF SaidMessages
<1>2. PICK x : x = ApiBlocks(bs)
  OBVIOUS
<1>3. Len(x) = Len(bs) /\ \A k \in 1..Len(bs) : x[k] = ApiBlock(bs[k]) /\ bs[k] \in SentBlocks
  BY <1>2, ApiBlocksType
<1>4. \A k \in 1..Len(bs) : x[k].type = IF bs[k].type = "image" THEN "image_url" ELSE bs[k].type
  BY <1>3, ApiBlockType
<1>5. TypesIn(x, {"text", "image_url"})
  BY <1>1, <1>3, <1>4 DEF TypesIn, PlainTypes
<1> QED
  BY <1>1, <1>2, <1>5 DEF ApiOf

\* Messages of a request without calls and results in their content.
PlainOutgoing == {x \in OutgoingMessages : TypesIn(x.content, {"text", "image_url"})}

LEMMA PlainIsSent ==
    ASSUME NEW ms \in Seq(PlainOutgoing)
    PROVE  PlainSent(ms)
<1> SUFFICES ASSUME NEW k \in DOMAIN ms, NEW i \in DOMAIN ms[k].content
             PROVE  ms[k].content[i].type \in {"text", "image_url"}
  BY DEF PlainSent
<1>1. ms[k] \in PlainOutgoing
  BY LenProperties, ElementOfSeq
<1>2. PICK c \in Seq(SentBlocks) : c = ms[k].content /\ TypesIn(c, {"text", "image_url"})
  BY <1>1 DEF PlainOutgoing, OutgoingMessages
<1>3. DOMAIN c = 1..Len(c)
  BY LenProperties
<1> QED
  BY <1>2, <1>3 DEF TypesIn

LEMMA HandedOnPlain ==
    ASSUME NEW m \in SaidMessages, TypesIn(m.blocks, PlainTypes)
    PROVE  Outgoing(ApiOf(m).role, ApiOf(m).blocks, <<>>) \in PlainOutgoing
<1>1. PICK a \in SaidMessages : a = ApiOf(m)
  BY ApiType
<1>2. a.role \in {"user", "assistant"} /\ a.blocks \in Seq(SentBlocks) /\ TypesIn(a.blocks, {"text", "image_url"})
  BY <1>1, PlainApi DEF SaidMessages
<1>3. PICK o : o = Outgoing(a.role, a.blocks, <<>>)
  OBVIOUS
<1>4. o.content = a.blocks
  BY <1>3, OutgoingIs
<1>5. o \in OutgoingMessages
  BY <1>2, <1>3, EmptySeq DEF Outgoing, OutgoingMessages
<1> QED
  BY <1>1, <1>2, <1>3, <1>4, <1>5 DEF PlainOutgoing

LEMMA HandedOnPlainly ==
    ASSUME NEW d \in Seq(SaidMessages), PlainHistory(d)
    PROVE  /\ HandedOn(ToApiMessages(d)) \in Seq(PlainOutgoing)
           /\ GoogleStream(ToApiMessages(d)).messages \in Seq(PlainOutgoing)
<1>1. PICK api : api = ToApiMessages(d)
  OBVIOUS
<1>2. DOMAIN api = 1..Len(d) /\ Len(d) \in Nat /\ \A i \in 1..Len(d) : api[i] = ApiOf(d[i])
  BY <1>1, ApiIs, LenProperties
<1>3. \A i \in 1..Len(d) : Outgoing(api[i].role, api[i].blocks, <<>>) \in PlainOutgoing
  BY <1>2, ElementOfSeq, HandedOnPlain DEF PlainHistory
<1>4. HandedOn(api) \in Seq(PlainOutgoing)
  <2>1. HandedOn(api) \in [1..Len(d) -> PlainOutgoing]
    BY <1>2, <1>3 DEF HandedOn
  <2> QED
    BY <1>2, <2>1, ListOf
<1> DEFINE piece(i) == IF api[i].str THEN HandedOn(<<api[i]>>) ELSE <<>>
<1>5. \A i \in 1..Len(d) : piece(i) \in Seq(PlainOutgoing)
  <2> TAKE i \in 1..Len(d)
  <2>1. PICK one : one = <<api[i]>>
    OBVIOUS
  <2>2. DOMAIN one = 1..1 /\ one[1] = api[i]
    BY <2>1
  <2>3. \A k \in 1..1 : Outgoing(one[k].role, one[k].blocks, <<>>) \in PlainOutgoing
    <3> TAKE k \in 1..1
    <3>1. one[k] = api[i]
      BY <2>2
    <3> QED
      BY <1>3, <3>1
  <2>4. HandedOn(one) \in [1..1 -> PlainOutgoing] /\ 1 \in Nat
    BY <2>2, <2>3 DEF HandedOn
  <2>5. HandedOn(one) \in Seq(PlainOutgoing) /\ <<>> \in Seq(PlainOutgoing)
    BY <2>4, ListOf, EmptySeq
  <2> QED
    BY <2>1, <2>5
<1>6. GoogleStream(api).messages = FlattenSeq([i \in 1..Len(d) |-> piece(i)])
  BY <1>2 DEF GoogleStream
<1> HIDE DEF piece
<1>7. [i \in 1..Len(d) |-> piece(i)] \in [1..Len(d) -> Seq(PlainOutgoing)]
  BY <1>5
<1>8. [i \in 1..Len(d) |-> piece(i)] \in Seq(Seq(PlainOutgoing))
  BY <1>2, <1>7, ListOf
<1>9. GoogleStream(api).messages \in Seq(PlainOutgoing)
  BY <1>6, <1>8, FlattenType
<1> QED
  BY <1>1, <1>4, <1>9

Readers == Converting \cup {"anthropic"}

LEMMA RequestsAre ==
    ASSUME NEW api, NEW p \in Selectable
    PROVE  /\ p \in Converting => RequestTo(p, api).messages = ToOpenaiMessages(api)
           /\ p \notin Readers => /\ ~RequestTo(p, api).reads
                                  /\ \/ RequestTo(p, api).messages = HandedOn(api)
                                     \/ RequestTo(p, api).messages = GoogleStream(api).messages
<1>1. p \in {"opencode", "openrouter", "lmstudio", "anthropic", "openai", "gpt4free", "llamacpp", "ollama", "xai", "google"}
  BY RequestsAssumption
<1>2. ASSUME p \in Converting
      PROVE  RequestTo(p, api).messages = ToOpenaiMessages(api)
  BY <1>2 DEF Converting, RequestTo, OpencodeStream, OpenrouterStream, LmstudioStream, ToOpenaiMessages
<1>3. ASSUME p = "google"
      PROVE  RequestTo(p, api).messages = GoogleStream(api).messages /\ ~RequestTo(p, api).reads
  BY <1>3 DEF RequestTo, GoogleStream
<1>4. ASSUME p \in {"openai", "gpt4free", "llamacpp", "ollama", "xai"}
      PROVE  RequestTo(p, api).messages = HandedOn(api) /\ ~RequestTo(p, api).reads
  BY <1>4 DEF RequestTo, OpenaiStream, Gpt4freeStream, LlamacppStream, OllamaStream, XaiStream
<1> QED
  BY <1>1, <1>2, <1>3, <1>4 DEF Readers, Converting

-----------------------------------------------------------------------------
\* Providers whose answers have no calls, and nobody yet.
NonReaders == (Selectable \ Readers) \cup {"nobody"}

RequestsInv ==
    /\ SoundHistory(dialogue)
    /\ due = "tools" => CallsLast(dialogue) /\ served \notin NonReaders
    /\ due = "answer" => \E p \in Selectable : sent = RequestTo(p, ToApiMessages(dialogue)) /\ served \in {p, "several"}
    /\ served \in NonReaders => PlainHistory(dialogue)

LEMMA RequestsInvSound == RequestsInv => RequestsSound
<1> SUFFICES ASSUME RequestsInv, due = "answer"
             PROVE  /\ served \in Converting => ResultsFollowCalls /\ AllIsSent
                    /\ served \in Selectable \ Readers => NoForeignBlocks
  BY DEF RequestsSound, Readers
<1>1. PICK p \in Selectable : sent = RequestTo(p, ToApiMessages(dialogue)) /\ served \in {p, "several"}
  BY DEF RequestsInv
<1>2. p # "several" /\ "several" \notin Selectable /\ "several" \notin Converting
  BY RequestsAssumption DEF Converting
<1>3. PICK api : api = ToApiMessages(dialogue)
  OBVIOUS
<1>4. ASSUME served \in Converting
      PROVE  ResultsFollowCalls /\ AllIsSent
  <2>1. sent.messages = Conv(dialogue)
    BY <1>1, <1>2, <1>3, <1>4, RequestsAre DEF Conv
  <2>2. Follows(sent.messages) /\ BlocksIn(sent.messages) = BlocksSaid(dialogue)
    BY <2>1 DEF RequestsInv, SoundHistory
  <2> QED
    BY <2>2 DEF Follows, Answers, BlocksIn, BlocksSaid, ResultsFollowCalls, AllIsSent
<1>5. ASSUME served \in Selectable \ Readers
      PROVE  NoForeignBlocks
  <2>1. p = served /\ p \notin Readers /\ PlainHistory(dialogue)
    BY <1>1, <1>2, <1>5 DEF RequestsInv, NonReaders
  <2>2. sent.messages = HandedOn(api) \/ sent.messages = GoogleStream(api).messages
    BY <1>1, <1>3, <2>1, RequestsAre
  <2>3. sent.messages \in Seq(PlainOutgoing)
    BY <1>3, <2>1, <2>2, HandedOnPlainly DEF RequestsInv, SoundHistory
  <2>4. PlainSent(sent.messages)
    BY <2>3, PlainIsSent
  <2> QED
    BY <2>4 DEF PlainSent, NoForeignBlocks
<1> QED
  BY <1>4, <1>5

LEMMA RequestsInvInit == RequestsInit => RequestsInv
<1> SUFFICES ASSUME RequestsInit PROVE RequestsInv
  OBVIOUS
<1>1. Len(<<>>) = 0 /\ 1..0 = {}
  BY EmptySeq
<1>2. PlainHistory(<<>>)
  BY <1>1 DEF PlainHistory
<1> QED
  BY <1>2, SoundEmpty DEF RequestsInit, RequestsInv

LEMMA PlainAppend ==
    ASSUME NEW d \in Seq(SaidMessages), NEW m \in SaidMessages, PlainHistory(d), TypesIn(m.blocks, PlainTypes)
    PROVE  PlainHistory(Append(d, m))
<1>1. PICK e : e = Append(d, m)
  OBVIOUS
<1>2. Len(d) \in Nat /\ Len(e) = Len(d) + 1 /\ e[Len(d) + 1] = m /\ \A i \in 1..Len(d) : e[i] = d[i]
  BY <1>1, AppendProperties, LenProperties
<1>3. \A i \in 1..Len(e) : TypesIn(e[i].blocks, PlainTypes)
  <2> TAKE i \in 1..Len(e)
  <2>1. CASE i \in 1..Len(d)
    BY <1>2, <2>1 DEF PlainHistory
  <2>2. CASE i = Len(d) + 1
    BY <1>2, <2>2
  <2> QED
    BY <1>2, <2>1, <2>2
<1> QED
  BY <1>1, <1>3 DEF PlainHistory

LEMMA AddsTexts ==
    ASSUME NEW d, SoundHistory(d), NEW role \in {"user", "assistant"}, NEW str \in BOOLEAN,
           NEW c \in Seq(SentBlocks), TypesIn(c, IF role = "assistant" THEN {"text"} ELSE {"text", "image"})
    PROVE  /\ SoundHistory(Append(d, Said(role, str, c)))
           /\ PlainHistory(d) => PlainHistory(Append(d, Said(role, str, c)))
<1>1. PICK m : m = Said(role, str, c)
  OBVIOUS
<1>2. m \in SaidMessages /\ m.role = role /\ m.blocks = c
  BY <1>1, SaidType
<1>3. <<>> \in Seq(SentBlocks) /\ c \o <<>> = c /\ Len(<<>>) = 0
  BY EmptySeq, ConcatEmptySeq
<1>4. TypesIn(<<>>, {"tool_use"})
  BY <1>3 DEF TypesIn
<1>5. SoundHistory(Append(d, m))
  <2>1. m.blocks = c \o <<>>
    BY <1>2, <1>3
  <2>2. TypesIn(c, IF m.role = "assistant" THEN {"text"} ELSE {"text", "image"})
    BY <1>2
  <2> QED
    BY <1>2, <1>3, <1>4, <2>1, <2>2, SoundWithoutResults
<1>6. TypesIn(m.blocks, PlainTypes)
  BY <1>2 DEF TypesIn, PlainTypes
<1>7. PlainHistory(d) => PlainHistory(Append(d, m))
  BY <1>2, <1>6, PlainAppend DEF SoundHistory
<1> QED
  BY <1>1, <1>5, <1>7

LEMMA NewBlocks ==
    ASSUME NEW n \in Nat
    PROVE  /\ <<Block("text", n)>> \in Seq(SentBlocks) /\ TypesIn(<<Block("text", n)>>, {"text"})
           /\ TypesIn(<<Block("text", n)>>, PlainTypes)
           /\ <<Block("image", n)>> \in Seq(SentBlocks) /\ TypesIn(<<Block("image", n)>>, PlainTypes)
           /\ <<Block("text", n), Block("image", n)>> \in Seq(SentBlocks)
           /\ TypesIn(<<Block("text", n), Block("image", n)>>, PlainTypes)
<1>1. PICK b \in SentBlocks : b = Block("text", n) /\ b.type = "text"
  <2>1. Block("text", n) \in SentBlocks /\ Block("text", n).type = "text"
    BY DEF Block, SentBlocks, BlockIds
  <2> QED
    BY <2>1, Zenon
<1>2. PICK c \in SentBlocks : c = Block("image", n) /\ c.type = "image"
  <2>1. Block("image", n) \in SentBlocks /\ Block("image", n).type = "image"
    BY DEF Block, SentBlocks, BlockIds
  <2> QED
    BY <2>1, Zenon
<1>3. <<b>> \in Seq(SentBlocks) /\ TypesIn(<<b>>, {"text"}) /\ TypesIn(<<b>>, PlainTypes)
  BY <1>1 DEF TypesIn, PlainTypes
<1>4. <<c>> \in Seq(SentBlocks) /\ TypesIn(<<c>>, PlainTypes)
  BY <1>2 DEF TypesIn, PlainTypes
<1>5. <<b, c>> \in Seq(SentBlocks) /\ TypesIn(<<b, c>>, PlainTypes)
  <2>1. \A i \in 1..2 : <<b, c>>[i].type \in PlainTypes
    BY <1>1, <1>2 DEF PlainTypes
  <2> QED
    BY <2>1 DEF TypesIn
<1> QED
  BY <1>1, <1>2, <1>3, <1>4, <1>5

LEMMA AddsCalls ==
    ASSUME NEW d, SoundHistory(d), NEW c \in Seq(SentBlocks), TypesIn(c, {"text"}),
           NEW k \in Seq(SentBlocks), TypesIn(k, {"tool_use"}), DistinctIds(k)
    PROVE  LET e == Append(d, Said("assistant", FALSE, c \o k)) IN SoundHistory(e) /\ CallsLast(e)
<1>1. PICK m : m = Said("assistant", FALSE, c \o k)
  OBVIOUS
<1>2. m \in SaidMessages /\ m.role = "assistant" /\ m.blocks = c \o k /\ c \o k \in Seq(SentBlocks)
  BY <1>1, SaidType, ConcatProperties
<1>3. PICK e : e = Append(d, m)
  OBVIOUS
<1>4. TypesIn(c, IF m.role = "assistant" THEN {"text"} ELSE {"text", "image"})
  BY <1>2
<1>5. SoundHistory(e) /\ Conv(e) # <<>> /\ Conv(e)[Len(Conv(e))].calls = k
  BY <1>2, <1>3, <1>4, SoundWithoutResults
<1>6. e # <<>> /\ Last(e) = m
  <2>1. e # <<>> /\ Len(e) = Len(d) + 1 /\ e[Len(d) + 1] = m
    BY <1>2, <1>3, AppendProperties DEF SoundHistory
  <2> QED
    BY <2>1 DEF Last
<1>7. CallsOf(e) = k
  <2>1. CallsOf(e) = OnlyOf(c \o k, {"tool_use"})
    BY <1>2, <1>6, OnlyIs DEF CallsOf
  <2>2. OnlyOf(c \o k, {"tool_use"}) = OnlyOf(c, {"tool_use"}) \o OnlyOf(k, {"tool_use"})
    BY OnlyConcat
  <2>3. OnlyOf(c, {"tool_use"}) = <<>>
    BY OnlyNone DEF TypesIn
  <2>4. OnlyOf(k, {"tool_use"}) = k
    BY OnlyAll DEF TypesIn
  <2> QED
    BY <2>1, <2>2, <2>3, <2>4, ConcatEmptySeq
<1>8. CallsLast(e)
  BY <1>5, <1>6, <1>7 DEF CallsLast
<1> QED
  BY <1>1, <1>3, <1>5, <1>8

LEMMA CallsType ==
    ASSUME NEW ids \in SetToAllKPermutations(ToolUseIds)
    PROVE  LET calls == [i \in DOMAIN ids |-> Block("tool_use", ids[i])]
           IN  calls \in Seq(SentBlocks) /\ TypesIn(calls, {"tool_use"}) /\ DistinctIds(calls)
<1>1. PICK S \in SUBSET ToolUseIds : ids \in SetToSeqs(S)
  BY DEF SetToAllKPermutations
<1>2. IsFiniteSet(S)
  BY FS_Subset, RequestsAssumption
<1>3. PICK n \in Nat : n = Cardinality(S)
  BY <1>2, FS_CardinalityType
<1>4. ids \in [1..n -> S] /\ \A i, j \in 1..n : i # j => ids[i] # ids[j]
  BY <1>1, <1>3 DEF SetToSeqs
<1>5. PICK calls : calls = [i \in DOMAIN ids |-> Block("tool_use", ids[i])]
  OBVIOUS
<1>6. DOMAIN ids = 1..n
  BY <1>4
<1>7. \A i \in 1..n : calls[i] \in SentBlocks /\ calls[i].type = "tool_use" /\ calls[i].id = ids[i]
  <2> TAKE i \in 1..n
  <2>1. calls[i] = Block("tool_use", ids[i]) /\ ids[i] \in ToolUseIds
    BY <1>4, <1>5, <1>6
  <2> QED
    BY <2>1 DEF Block, SentBlocks, BlockIds
<1>8. calls \in Seq(SentBlocks) /\ Len(calls) = n
  <2>1. calls \in [1..n -> SentBlocks]
    BY <1>5, <1>6, <1>7
  <2> QED
    BY <2>1, ListOf
<1>9. TypesIn(calls, {"tool_use"}) /\ DistinctIds(calls)
  BY <1>4, <1>7, <1>8 DEF TypesIn, DistinctIds
<1> QED
  BY <1>5, <1>8, <1>9

LEMMA RequestsInvStep == RequestsInv /\ [RequestsNext]_requestVars => RequestsInv'
<1> SUFFICES ASSUME RequestsInv, [RequestsNext]_requestVars PROVE RequestsInv'
  OBVIOUS
<1>1. PICK n \in Nat : n = Len(dialogue) + 1
  BY LenProperties DEF RequestsInv, SoundHistory
<1>2. \A type : New(type) = Block(type, n)
  BY <1>1 DEF New
<1>3. SoundHistory(dialogue)
  BY DEF RequestsInv
<1>4. ASSUME UserSays
      PROVE  RequestsInv'
  <2>1. PICK str \in BOOLEAN, c \in {<<Block("text", n)>>, <<Block("image", n)>>, <<Block("text", n), Block("image", n)>>} :
           dialogue' = Append(dialogue, Said("user", str, c))
    BY <1>2, <1>4 DEF UserSays, Adds
  <2>2. c \in Seq(SentBlocks) /\ TypesIn(c, PlainTypes)
    BY NewBlocks
  <2>3. PICK e : e = Append(dialogue, Said("user", str, c))
    OBVIOUS
  <2>4. SoundHistory(e) /\ (PlainHistory(dialogue) => PlainHistory(e))
    <3>1. TypesIn(c, IF "user" = "assistant" THEN {"text"} ELSE {"text", "image"})
      BY <2>2 DEF PlainTypes
    <3> QED
      BY <1>3, <2>2, <2>3, <3>1, AddsTexts
  <2>5. dialogue' = e /\ due' = "request" /\ served' = served
    BY <1>4, <2>1, <2>3 DEF UserSays
  <2> QED
    BY <2>4, <2>5 DEF RequestsInv
<1>5. ASSUME NEW e, dialogue' = e, NEW c, c = <<Block("text", n)>>,
             \/ e = Append(dialogue, Said("assistant", TRUE, c)) \/ e = Append(dialogue, Said("assistant", FALSE, c))
             \/ e = Append(dialogue, Said("user", TRUE, c))
      PROVE  SoundHistory(e) /\ (PlainHistory(dialogue) => PlainHistory(e))
  <2>1. c \in Seq(SentBlocks) /\ TypesIn(c, {"text"}) /\ TypesIn(c, {"text", "image"})
    BY <1>5, NewBlocks DEF PlainTypes
  <2> QED
    BY <1>3, <1>5, <2>1, AddsTexts
<1>6. ASSUME TeamAnswers
      PROVE  RequestsInv'
  <2>1. PICK e, c : dialogue' = e /\ c = <<Block("text", n)>> /\ e = Append(dialogue, Said("assistant", TRUE, c))
    BY <1>2, <1>6 DEF TeamAnswers, Adds
  <2>2. SoundHistory(e) /\ (PlainHistory(dialogue) => PlainHistory(e))
    BY <1>5, <2>1
  <2>3. due' = "user" /\ served' = served
    BY <1>6 DEF TeamAnswers
  <2> QED
    BY <2>1, <2>2, <2>3 DEF RequestsInv
<1>7. ASSUME AsksModel
      PROVE  RequestsInv'
  <2>1. PICK p \in Selectable :
           /\ sent' = RequestTo(p, ToApiMessages(dialogue))
           /\ served' = IF served \in {"nobody", p} THEN p ELSE "several"
    BY <1>7 DEF AsksModel
  <2>2. due' = "answer" /\ dialogue' = dialogue
    BY <1>7 DEF AsksModel
  <2>3. served' \in {p, "several"}
    BY <2>1
  <2>4. served' \in NonReaders => served \in NonReaders
    <3>1. "several" \notin Selectable /\ "nobody" \notin Selectable
      BY RequestsAssumption
    <3> QED
      BY <2>1, <3>1 DEF NonReaders
  <2> QED
    BY <2>1, <2>2, <2>3, <2>4 DEF RequestsInv
<1>8. ASSUME ModelAnswers
      PROVE  RequestsInv'
  <2>1. served' = served /\ due = "answer"
    BY <1>8 DEF ModelAnswers
  <2>2. CASE Adds(Said("assistant", FALSE, <<New("text")>>)) /\ due' = "user"
    <3>1. PICK e, c : dialogue' = e /\ c = <<Block("text", n)>> /\ e = Append(dialogue, Said("assistant", FALSE, c))
      BY <1>2, <2>2 DEF Adds
    <3>2. SoundHistory(e) /\ (PlainHistory(dialogue) => PlainHistory(e))
      BY <1>5, <3>1
    <3> QED
      BY <2>1, <2>2, <3>1, <3>2 DEF RequestsInv
  <2>3. CASE /\ sent.reads /\ due' = "tools"
             /\ \E ids \in SetToAllKPermutations(ToolUseIds) \ {<<>>}, text \in BOOLEAN :
                   LET calls == [i \in DOMAIN ids |-> Block("tool_use", ids[i])]
                   IN  Adds(Said("assistant", FALSE, (IF text THEN <<New("text")>> ELSE <<>>) \o calls))
    <3>1. PICK ids \in SetToAllKPermutations(ToolUseIds), text \in BOOLEAN :
             LET calls == [i \in DOMAIN ids |-> Block("tool_use", ids[i])]
             IN  Adds(Said("assistant", FALSE, (IF text THEN <<New("text")>> ELSE <<>>) \o calls))
      BY <2>3
    <3>2. PICK k : k = [i \in DOMAIN ids |-> Block("tool_use", ids[i])]
      OBVIOUS
    <3>3. k \in Seq(SentBlocks) /\ TypesIn(k, {"tool_use"}) /\ DistinctIds(k)
      BY <3>2, CallsType
    <3>4. PICK c : c = IF text THEN <<Block("text", n)>> ELSE <<>>
      OBVIOUS
    <3>5. c \in Seq(SentBlocks) /\ TypesIn(c, {"text"})
      <4>1. <<>> \in Seq(SentBlocks) /\ TypesIn(<<>>, {"text"})
        BY EmptySeq DEF TypesIn
      <4> QED
        BY <3>4, <4>1, NewBlocks
    <3>6. PICK e : e = Append(dialogue, Said("assistant", FALSE, c \o k))
      OBVIOUS
    <3>7. dialogue' = e
      BY <1>2, <3>1, <3>2, <3>4, <3>6 DEF Adds
    <3>8. SoundHistory(e) /\ CallsLast(e)
      BY <1>3, <3>3, <3>5, <3>6, AddsCalls
    <3>9. served \notin NonReaders
      <4>1. PICK p \in Selectable : sent = RequestTo(p, ToApiMessages(dialogue)) /\ served \in {p, "several"}
        BY <2>1 DEF RequestsInv
      <4>2. p \in Readers
        BY <2>3, <4>1, RequestsAre
      <4>3. p # "nobody" /\ "several" \notin Selectable
        BY RequestsAssumption
      <4> QED
        BY <4>1, <4>2, <4>3 DEF NonReaders
    <3> QED
      BY <2>1, <2>3, <3>7, <3>8, <3>9 DEF RequestsInv
  <2>4. CASE Adds(Said("user", TRUE, <<New("text")>>)) /\ due' = "request"
    <3>1. PICK e, c : dialogue' = e /\ c = <<Block("text", n)>> /\ e = Append(dialogue, Said("user", TRUE, c))
      BY <1>2, <2>4 DEF Adds
    <3>2. SoundHistory(e) /\ (PlainHistory(dialogue) => PlainHistory(e))
      BY <1>5, <3>1
    <3> QED
      BY <2>1, <2>4, <3>1, <3>2 DEF RequestsInv
  <2>5. CASE dialogue' = dialogue /\ due' = "user"
    BY <2>1, <2>5 DEF RequestsInv
  <2>6. \/ Adds(Said("assistant", FALSE, <<New("text")>>)) /\ due' = "user"
        \/ /\ sent.reads /\ due' = "tools"
           /\ \E ids \in SetToAllKPermutations(ToolUseIds) \ {<<>>}, text \in BOOLEAN :
                 LET calls == [i \in DOMAIN ids |-> Block("tool_use", ids[i])]
                 IN  Adds(Said("assistant", FALSE, (IF text THEN <<New("text")>> ELSE <<>>) \o calls))
        \/ Adds(Said("user", TRUE, <<New("text")>>)) /\ due' = "request"
        \/ dialogue' = dialogue /\ due' = "user"
    BY <1>8 DEF ModelAnswers
  <2> QED
    BY <2>2, <2>3, <2>4, <2>5, <2>6
<1>9. ASSUME ToolsRun
      PROVE  RequestsInv'
  <2>1. CallsLast(dialogue) /\ served \notin NonReaders
    BY <1>9 DEF ToolsRun, RequestsInv
  <2>2. PICK k \in 0..Len(CallsOf(dialogue)) :
           /\ Adds(Said("user", FALSE, [i \in 1..k |-> Block("tool_result", CallsOf(dialogue)[i].id)]))
           /\ due' = IF k < Len(CallsOf(dialogue)) THEN "user" ELSE "request"
    BY <1>9 DEF ToolsRun, CallsOf
  <2>3. PICK m : m = Said("user", FALSE, [i \in 1..k |-> Block("tool_result", CallsOf(dialogue)[i].id)])
    OBVIOUS
  <2>4. SoundHistory(Append(dialogue, m))
    BY <1>3, <2>1, <2>3, SoundWithResults
  <2>5. dialogue' = Append(dialogue, m) /\ served' = served /\ due' \in {"user", "request"}
    BY <1>9, <2>2, <2>3 DEF ToolsRun, Adds
  <2> QED
    BY <2>1, <2>4, <2>5 DEF RequestsInv
<1>10. ASSUME TurnStops
       PROVE  RequestsInv'
  BY <1>10 DEF TurnStops, RequestsInv
<1>11. ASSUME UNCHANGED requestVars
       PROVE  RequestsInv'
  BY <1>11 DEF requestVars, RequestsInv
<1> QED
  BY <1>4, <1>6, <1>7, <1>8, <1>9, <1>10, <1>11 DEF RequestsNext

\* Of any number of turns, calls and providers: where a provider is asked through the gateway a
\* result comes behind the call it answers, and every block of the history is sent in its place;
\* a provider that cannot call is never sent a call or a result unless another has answered too.
THEOREM RequestsAreSound == RequestsSpec => []RequestsSound
<1> QED
  BY RequestsInvInit, RequestsInvStep, RequestsInvSound, PTL DEF RequestsSpec

-----------------------------------------------------------------------------
(* Compaction: the messages at some places. *)

\* The pieces At puts one after the other.
PieceAt(h, places, i) == IF i \in places THEN <<h[i]>> ELSE <<>>
PiecesAt(h, places) == [i \in 1..Len(h) |-> PieceAt(h, places, i)]

LEMMA PiecesType ==
    ASSUME NEW S, NEW h \in Seq(S), NEW places
    PROVE  PiecesAt(h, places) \in Seq(Seq(S)) /\ Len(PiecesAt(h, places)) = Len(h)
<1>1. PICK n \in Nat : n = Len(h)
  BY LenProperties
<1>2. ASSUME NEW i \in 1..n
      PROVE  PieceAt(h, places, i) \in Seq(S)
  <2>1. h[i] \in S
    BY <1>1, ElementOfSeq
  <2>2. <<h[i]>> \in Seq(S) /\ <<>> \in Seq(S)
    BY <2>1
  <2> QED
    BY <2>2 DEF PieceAt
<1>3. [i \in 1..n |-> PieceAt(h, places, i)] \in [1..n -> Seq(S)]
  BY <1>2
<1>4. PICK f : f = [i \in 1..n |-> PieceAt(h, places, i)]
  OBVIOUS
<1>5. f \in Seq(Seq(S)) /\ Len(f) = n
  BY <1>3, <1>4, ListOf
<1> QED
  BY <1>1, <1>4, <1>5 DEF PiecesAt

\* What one message more adds to the messages at some places.
LEMMA AtAppend ==
    ASSUME NEW S, NEW h \in Seq(S), NEW x \in S, NEW places
    PROVE  /\ At(h, places) \in Seq(S)
           /\ Len(h) + 1 \in places => At(Append(h, x), places) = Append(At(h, places), x)
           /\ Len(h) + 1 \notin places => At(Append(h, x), places) = At(h, places)
<1>1. PICK n \in Nat : n = Len(h)
  BY LenProperties
<1>2. PICK t : t = Append(h, x)
  OBVIOUS
<1>3. t \in Seq(S) /\ Len(t) = n + 1 /\ t[n + 1] = x /\ \A i \in 1..n : t[i] = h[i]
  BY <1>1, <1>2, AppendProperties
<1>4. PICK u : u = PiecesAt(h, places)
  OBVIOUS
<1>5. PICK y : y = PieceAt(t, places, n + 1)
  OBVIOUS
<1>6. PICK w : w = PiecesAt(t, places)
  OBVIOUS
<1>7. u \in Seq(Seq(S)) /\ Len(u) = n /\ w \in Seq(Seq(S)) /\ Len(w) = n + 1
  BY <1>1, <1>3, <1>4, <1>6, PiecesType
<1>8. w[n + 1] = y /\ y \in Seq(S)
  <2>1. w[n + 1] = y
    BY <1>3, <1>5, <1>6 DEF PiecesAt
  <2>2. w[n + 1] \in Seq(S)
    BY <1>7, ElementOfSeq
  <2> QED
    BY <2>1, <2>2
<1>9. \A i \in 1..n : w[i] = u[i]
  <2> TAKE i \in 1..n
  <2>1. t[i] = h[i]
    BY <1>3
  <2>2. w[i] = PieceAt(t, places, i) /\ u[i] = PieceAt(h, places, i)
    BY <1>1, <1>3, <1>4, <1>6 DEF PiecesAt
  <2> QED
    BY <2>1, <2>2 DEF PieceAt
<1>10. w = Append(u, y)
  <2>1. PICK v : v = Append(u, y)
    OBVIOUS
  <2>2. v \in Seq(Seq(S)) /\ Len(v) = n + 1 /\ v[n + 1] = y /\ \A i \in 1..n : v[i] = u[i]
    BY <1>7, <1>8, <2>1, AppendProperties
  <2>3. \A i \in 1..(n + 1) : v[i] = w[i]
    <3> TAKE i \in 1..(n + 1)
    <3>1. i \in 1..n \/ i = n + 1
      OBVIOUS
    <3> QED
      BY <1>8, <1>9, <2>2, <3>1
  <2>4. v = w
    BY <1>7, <2>2, <2>3, SeqEqual
  <2> QED
    BY <2>1, <2>4
<1>11. At(h, places) = FlattenSeq(u) /\ At(t, places) = FlattenSeq(w)
  BY <1>4, <1>6 DEF At, PiecesAt, PieceAt
<1>12. FlattenSeq(w) = FlattenSeq(u) \o y /\ FlattenSeq(u) \in Seq(S)
  BY <1>7, <1>8, <1>10, FlattenAppend, FlattenType
<1>13. PICK a \in Seq(S) : a = At(h, places)
  BY <1>11, <1>12
<1>14. At(t, places) = a \o y
  BY <1>11, <1>12, <1>13
<1>15. n + 1 \in places => At(t, places) = Append(a, x)
  <2> HAVE n + 1 \in places
  <2>1. y = <<x>>
    BY <1>3, <1>5 DEF PieceAt
  <2>2. a \o <<x>> = Append(a, x)
    BY AppendIsConcat
  <2> QED
    BY <1>14, <2>1, <2>2
<1>16. n + 1 \notin places => At(t, places) = a
  <2> HAVE n + 1 \notin places
  <2>1. y = <<>>
    BY <1>5 DEF PieceAt
  <2>2. a \o <<>> = a
    BY ConcatEmptySeq
  <2> QED
    BY <1>14, <2>1, <2>2
<1> QED
  BY <1>1, <1>2, <1>13, <1>15, <1>16

LEMMA AtEmpty == ASSUME NEW places PROVE At(<<>>, places) = <<>>
<1>1. Len(<<>>) = 0
  OBVIOUS
<1>2. PiecesAt(<<>>, places) = <<>>
  <2>1. PICK u : u = PiecesAt(<<>>, places)
    OBVIOUS
  <2>2. u \in Seq(Seq({})) /\ Len(u) = 0
    BY <1>1, <2>1, PiecesType, EmptySeq
  <2> QED
    BY <2>1, <2>2, EmptySeq
<1>3. At(<<>>, places) = FlattenSeq(PiecesAt(<<>>, places))
  BY DEF At, PiecesAt, PieceAt
<1> QED
  BY <1>2, <1>3, FlattenEmpty

LEMMA AtType ==
    ASSUME NEW S, NEW h \in Seq(S), NEW places
    PROVE  At(h, places) \in Seq(S)
<1>1. CASE h = <<>>
  BY <1>1, AtEmpty, EmptySeq
<1>2. CASE h # <<>>
  <2>1. PICK x \in S : TRUE
    <3>1. Len(h) \in Nat /\ Len(h) # 0
      BY <1>2, EmptySeq, LenProperties
    <3>2. h[1] \in S
      BY <3>1, ElementOfSeq
    <3> QED
      BY <3>2
  <2> QED
    BY AtAppend
<1> QED
  BY <1>1, <1>2

-----------------------------------------------------------------------------
(* What At keeps. *)

\* A message is in a list.
Holds(m, s) == \E k \in 1..Len(s) : s[k] = m
HoldsAt(m, h, places) == \E i \in 1..Len(h) : i \in places /\ h[i] = m

LEMMA HoldsAppend ==
    ASSUME NEW S, NEW s \in Seq(S), NEW x \in S, NEW m
    PROVE  Holds(m, Append(s, x)) <=> Holds(m, s) \/ m = x
<1>1. PICK n \in Nat : n = Len(s)
  BY LenProperties
<1>2. PICK t : t = Append(s, x)
  OBVIOUS
<1>3. Len(t) = n + 1 /\ t[n + 1] = x /\ \A i \in 1..n : t[i] = s[i]
  BY <1>1, <1>2, AppendProperties
<1>4. \A i \in 1..(n + 1) : i \in 1..n \/ i = n + 1
  OBVIOUS
<1>5. (\E k \in 1..(n + 1) : t[k] = m) <=> (\E k \in 1..n : s[k] = m) \/ m = x
  <2>1. ASSUME NEW k \in 1..(n + 1), t[k] = m PROVE (\E i \in 1..n : s[i] = m) \/ m = x
    BY <1>3, <1>4, <2>1
  <2>2. ASSUME NEW k \in 1..n, s[k] = m PROVE \E i \in 1..(n + 1) : t[i] = m
    <3>1. k \in 1..(n + 1) /\ t[k] = m
      BY <1>3, <2>2
    <3> QED
      BY <3>1
  <2>3. ASSUME m = x PROVE \E i \in 1..(n + 1) : t[i] = m
    <3>1. n + 1 \in 1..(n + 1) /\ t[n + 1] = m
      BY <1>3, <2>3
    <3> QED
      BY <3>1
  <2> QED
    BY <2>1, <2>2, <2>3
<1> QED
  BY <1>1, <1>2, <1>3, <1>5 DEF Holds

LEMMA HoldsAtAppend ==
    ASSUME NEW S, NEW h \in Seq(S), NEW x \in S, NEW places, NEW m
    PROVE  HoldsAt(m, Append(h, x), places) <=> HoldsAt(m, h, places) \/ (m = x /\ Len(h) + 1 \in places)
<1>1. PICK n \in Nat : n = Len(h)
  BY LenProperties
<1>2. PICK t : t = Append(h, x)
  OBVIOUS
<1>3. Len(t) = n + 1 /\ t[n + 1] = x /\ \A i \in 1..n : t[i] = h[i]
  BY <1>1, <1>2, AppendProperties
<1>4. \A i \in 1..(n + 1) : i \in 1..n \/ i = n + 1
  OBVIOUS
<1>5. ASSUME NEW k \in 1..(n + 1), k \in places, t[k] = m
      PROVE  (\E i \in 1..n : i \in places /\ h[i] = m) \/ (m = x /\ n + 1 \in places)
  BY <1>3, <1>4, <1>5
<1>6. ASSUME NEW k \in 1..n, k \in places, h[k] = m PROVE \E i \in 1..(n + 1) : i \in places /\ t[i] = m
  <2>1. k \in 1..(n + 1) /\ t[k] = m
    BY <1>3, <1>6
  <2> QED
    BY <1>6, <2>1
<1>7. ASSUME m = x, n + 1 \in places PROVE \E i \in 1..(n + 1) : i \in places /\ t[i] = m
  <2>1. n + 1 \in 1..(n + 1) /\ t[n + 1] = m
    BY <1>3, <1>7
  <2> QED
    BY <1>7, <2>1
<1>8. (\E i \in 1..(n + 1) : i \in places /\ t[i] = m)
      <=> (\E i \in 1..n : i \in places /\ h[i] = m) \/ (m = x /\ n + 1 \in places)
  BY <1>5, <1>6, <1>7
<1> QED
  BY <1>1, <1>2, <1>3, <1>8 DEF HoldsAt

\* At has the messages at the places, and no others.
LEMMA AtHolds ==
    ASSUME NEW S, NEW h \in Seq(S), NEW places, NEW m
    PROVE  Holds(m, At(h, places)) <=> HoldsAt(m, h, places)
<1> DEFINE Same(s) == Holds(m, At(s, places)) <=> HoldsAt(m, s, places)
           T == {s \in Seq(S) : Same(s)}
<1>1. <<>> \in T
  <2>1. Same(<<>>)
    BY AtEmpty DEF Holds, HoldsAt
  <2> QED
    BY <2>1, EmptySeq
<1>2. ASSUME NEW s \in Seq(S), NEW x \in S, s \in T
      PROVE  Append(s, x) \in T
  <2>1. Same(s)
    BY <1>2
  <2>2. PICK t \in Seq(S) : t = Append(s, x)
    BY AppendProperties
  <2>3. PICK a \in Seq(S) : a = At(s, places)
    BY AtType
  <2>4. HoldsAt(m, t, places) <=> HoldsAt(m, s, places) \/ (m = x /\ Len(s) + 1 \in places)
    BY <2>2, HoldsAtAppend
  <2>5. CASE Len(s) + 1 \in places
    <3>1. At(t, places) = Append(a, x)
      BY <2>2, <2>3, <2>5, AtAppend
    <3>2. Holds(m, At(t, places)) <=> Holds(m, a) \/ m = x
      BY <3>1, HoldsAppend
    <3>3. Same(t)
      BY <2>1, <2>3, <2>4, <2>5, <3>2
    <3> QED
      BY <2>2, <3>3
  <2>6. CASE Len(s) + 1 \notin places
    <3>1. At(t, places) = a
      BY <2>2, <2>3, <2>6, AtAppend
    <3>2. Same(t)
      BY <2>1, <2>3, <2>4, <2>6, <3>1
    <3> QED
      BY <2>2, <3>2
  <2> QED
    BY <2>5, <2>6
<1> HIDE DEF T
<1>3. Seq(S) \subseteq T
  BY <1>1, <1>2, Lists
<1> QED
  BY <1>3 DEF T

-----------------------------------------------------------------------------
(* Compaction: pruning. *)

\* The messages of a history, and those the repair makes up.
HistoryTexts == Texts \cup {Plain, "not available"}
HistoryMessages == {m \in [n : Nat, role : {"system", "user", "assistant", "toolResult"}, text : HistoryTexts,
                           call : Nat, calls : SUBSET CallIds, error : BOOLEAN, ended : BOOLEAN] :
                       m.calls # {} => m.role = "assistant"}
InOrder(s) == \A i, j \in 1..Len(s) : i < j => s[i].n < s[j].n

LEMMA InOrderAppend ==
    ASSUME NEW s \in Seq(HistoryMessages), NEW x \in HistoryMessages
    PROVE  InOrder(Append(s, x)) <=> InOrder(s) /\ \A m : Holds(m, s) => m.n < x.n
<1>1. PICK n \in Nat : n = Len(s)
  BY LenProperties
<1>2. PICK t : t = Append(s, x)
  OBVIOUS
<1>3. Len(t) = n + 1 /\ t[n + 1] = x /\ \A i \in 1..n : t[i] = s[i]
  BY <1>1, <1>2, AppendProperties
<1>4. ASSUME InOrder(t) PROVE InOrder(s) /\ \A m : Holds(m, s) => m.n < x.n
  <2>1. \A i, j \in 1..n : i < j => s[i].n < s[j].n
    <3> TAKE i, j \in 1..n
    <3>1. i \in 1..(n + 1) /\ j \in 1..(n + 1) /\ t[i] = s[i] /\ t[j] = s[j]
      BY <1>3
    <3> QED
      BY <1>3, <1>4, <3>1 DEF InOrder
  <2>2. ASSUME NEW m, Holds(m, s) PROVE m.n < x.n
    <3>1. PICK k \in 1..n : s[k] = m
      BY <1>1, <2>2 DEF Holds
    <3>2. k \in 1..(n + 1) /\ n + 1 \in 1..(n + 1) /\ k < n + 1 /\ t[k] = m
      BY <1>3, <3>1
    <3> QED
      BY <1>3, <1>4, <3>2 DEF InOrder
  <2> QED
    BY <1>1, <2>1, <2>2 DEF InOrder
<1>5. ASSUME InOrder(s), \A m : Holds(m, s) => m.n < x.n PROVE InOrder(t)
  <2>1. ASSUME NEW i \in 1..(n + 1), NEW j \in 1..(n + 1), i < j PROVE t[i].n < t[j].n
    <3>1. i \in 1..n /\ t[i] = s[i]
      BY <1>3, <2>1
    <3>2. CASE j = n + 1
      <4>1. Holds(s[i], s)
        BY <1>1, <3>1 DEF Holds
      <4> QED
        BY <1>3, <1>5, <3>1, <3>2, <4>1
    <3>3. CASE j # n + 1
      <4>1. j \in 1..n /\ t[j] = s[j]
        BY <1>3, <3>3
      <4> QED
        BY <1>1, <1>5, <2>1, <3>1, <4>1 DEF InOrder
    <3> QED
      BY <3>2, <3>3
  <2> QED
    BY <1>3, <2>1 DEF InOrder
<1> QED
  BY <1>2, <1>4, <1>5

\* At keeps the order.
LEMMA AtInOrder ==
    ASSUME NEW h \in Seq(HistoryMessages), NEW places, InOrder(h)
    PROVE  InOrder(At(h, places))
<1> DEFINE Ordered(s) == InOrder(s) => InOrder(At(s, places))
           T == {s \in Seq(HistoryMessages) : Ordered(s)}
<1>1. <<>> \in T
  <2>1. Ordered(<<>>)
    BY AtEmpty DEF InOrder
  <2> QED
    BY <2>1, EmptySeq
<1>2. ASSUME NEW s \in Seq(HistoryMessages), NEW x \in HistoryMessages, s \in T
      PROVE  Append(s, x) \in T
  <2>1. Ordered(s)
    BY <1>2
  <2>2. PICK t \in Seq(HistoryMessages) : t = Append(s, x)
    BY AppendProperties
  <2>3. PICK a \in Seq(HistoryMessages) : a = At(s, places)
    BY AtType
  <2>4. ASSUME InOrder(t) PROVE InOrder(At(t, places))
    <3>1. InOrder(s) /\ \A m : Holds(m, s) => m.n < x.n
      BY <2>2, <2>4, InOrderAppend
    <3>2. InOrder(a)
      BY <2>1, <2>3, <3>1
    <3>3. CASE Len(s) + 1 \in places
      <4>1. \A m : Holds(m, a) => Holds(m, s)
        <5> TAKE m
        <5>1. Holds(m, a) => HoldsAt(m, s, places)
          BY <2>3, AtHolds
        <5> QED
          BY <5>1 DEF Holds, HoldsAt
      <4>2. InOrder(Append(a, x))
        BY <3>1, <3>2, <4>1, InOrderAppend
      <4>3. At(t, places) = Append(a, x)
        BY <2>2, <2>3, <3>3, AtAppend
      <4> QED
        BY <4>2, <4>3
    <3>4. CASE Len(s) + 1 \notin places
      BY <2>2, <2>3, <3>2, <3>4, AtAppend
    <3> QED
      BY <3>3, <3>4
  <2> QED
    BY <2>2, <2>4
<1> HIDE DEF T
<1>3. Seq(HistoryMessages) \subseteq T
  BY <1>1, <1>2, Lists
<1> QED
  BY <1>3 DEF T

\* No strategy takes a critical message.
LEMMA SafeApplyKeeps ==
    ASSUME NEW h \in Seq(HistoryMessages), InOrder(h), NEW pruned
    PROVE  /\ SafeApply(h, pruned) \in Seq(HistoryMessages) /\ InOrder(SafeApply(h, pruned))
           /\ \A m : Holds(m, h) /\ IsCritical(m) => Holds(m, SafeApply(h, pruned))
<1>1. PICK places : places = {i \in 1..Len(h) : IsCritical(h[i]) \/ h[i].n \in Numbers(pruned)}
  OBVIOUS
<1>2. SafeApply(h, pruned) = At(h, places)
  BY <1>1 DEF SafeApply
<1>3. ASSUME NEW m, Holds(m, h), IsCritical(m) PROVE HoldsAt(m, h, places)
  BY <1>1, <1>3 DEF Holds, HoldsAt
<1>4. \A m : HoldsAt(m, h, places) => Holds(m, At(h, places))
  BY AtHolds
<1> QED
  BY <1>2, <1>3, <1>4, AtType, AtInOrder

LEMMA PruningKeeps ==
    ASSUME NEW h \in Seq(HistoryMessages), InOrder(h)
    PROVE  /\ PruneWithStrategies(h) \in Seq(HistoryMessages) /\ InOrder(PruneWithStrategies(h))
           /\ \A m : Holds(m, h) /\ IsCritical(m) => Holds(m, PruneWithStrategies(h))
<1>1. PICK first : first = SafeApply(h, Deduplicated(Rest(h)))
  OBVIOUS
<1>2. PICK second : second = SafeApply(first, Superseded(Rest(first)))
  OBVIOUS
<1>3. PICK third : third = SafeApply(second, Purged(Rest(second)))
  OBVIOUS
<1>4. /\ first \in Seq(HistoryMessages) /\ InOrder(first)
      /\ \A m : Holds(m, h) /\ IsCritical(m) => Holds(m, first)
  BY <1>1, SafeApplyKeeps
<1>5. /\ second \in Seq(HistoryMessages) /\ InOrder(second)
      /\ \A m : Holds(m, first) /\ IsCritical(m) => Holds(m, second)
  BY <1>2, <1>4, SafeApplyKeeps
<1>6. /\ third \in Seq(HistoryMessages) /\ InOrder(third)
      /\ \A m : Holds(m, second) /\ IsCritical(m) => Holds(m, third)
  BY <1>3, <1>5, SafeApplyKeeps
<1>7. PruneWithStrategies(h) = third
  BY <1>1, <1>2, <1>3 DEF PruneWithStrategies
<1> QED
  BY <1>4, <1>5, <1>6, <1>7

-----------------------------------------------------------------------------
(* Compaction: the repair. *)

\* Every element of a finite set has a place in the sequence SetToSeq makes of it.
LEMMA SetInSequence ==
    ASSUME NEW S, IsFiniteSet(S), NEW n, n = Cardinality(S)
    PROVE  /\ n \in Nat /\ SetToSeq(S) \in [1..n -> S]
           /\ \A x \in S : \E k \in 1..n : SetToSeq(S)[k] = x
<1>1. n \in Nat /\ ExistsBijection(1..n, S)
  BY FS_CardinalityType
<1>2. PICK f : f \in Bijection(1..n, S)
  BY <1>1 DEF ExistsBijection
<1>3. f \in [1..n -> S] /\ IsInjective(f)
  BY <1>2 DEF Bijection, Injection, IsInjective
<1>4. PICK g : g = SetToSeq(S)
  OBVIOUS
<1>5. g \in [1..n -> S] /\ IsInjective(g)
  BY <1>3, <1>4 DEF SetToSeq
<1>6. g \in Injection(1..n, S)
  BY <1>5 DEF Injection, IsInjective
<1>7. Cardinality(1..n) = n
  <2>1. 1 \in Int /\ n \in Int
    BY <1>1
  <2>2. Cardinality(1..n) = IF 1 > n THEN 0 ELSE n - 1 + 1
    BY <2>1, FS_Interval
  <2> QED
    BY <1>1, <2>2
<1>8. g \in Surjection(1..n, S)
  BY <1>6, <1>7, FS_Injection
<1>9. \A x \in S : \E k \in 1..n : g[k] = x
  BY <1>8 DEF Surjection
<1> QED
  BY <1>1, <1>4, <1>5, <1>9

-----------------------------------------------------------------------------
\* The calls of the message at a place have their results right after it.
AnsweredAt(s, i) ==
    s[i].calls # {} =>
       /\ i + Cardinality(s[i].calls) <= Len(s)
       /\ \A id \in s[i].calls : \E k \in 1..Cardinality(s[i].calls) : IsResult(s[i + k]) /\ s[i + k].call = id
AllAnswered(s) == \A i \in 1..Len(s) : AnsweredAt(s, i)

LEMMA FewCalls ==
    ASSUME NEW m \in HistoryMessages
    PROVE  IsFiniteSet(m.calls) /\ Cardinality(m.calls) \in Nat
<1>1. m.calls \in SUBSET CallIds
  BY DEF HistoryMessages
<1>2. IsFiniteSet(m.calls)
  BY <1>1, CompactionAssumption, FS_Subset
<1> QED
  BY <1>2, FS_CardinalityType

LEMMA AnsweredConcat ==
    ASSUME NEW a \in Seq(HistoryMessages), NEW b \in Seq(HistoryMessages), AllAnswered(a), AllAnswered(b)
    PROVE  AllAnswered(a \o b)
<1>1. PICK m \in Nat, n \in Nat : m = Len(a) /\ n = Len(b)
  BY LenProperties
<1>2. PICK c : c = a \o b
  OBVIOUS
<1>3. Len(c) = m + n /\ \A i \in 1..(m + n) : c[i] = IF i <= m THEN a[i] ELSE b[i - m]
  BY <1>1, <1>2, ConcatProperties
<1>4. \A i \in 1..m : c[i] = a[i]
  BY <1>3
<1>5. \A i \in 1..n : c[m + i] = b[i]
  BY <1>3
<1>6. ASSUME NEW i \in 1..m PROVE AnsweredAt(c, i)
  <2>1. c[i] = a[i] /\ AnsweredAt(a, i) /\ a[i] \in HistoryMessages
    BY <1>1, <1>4, ElementOfSeq DEF AllAnswered
  <2>2. PICK N \in Nat : N = Cardinality(a[i].calls)
    BY <2>1, FewCalls
  <2>3. ASSUME a[i].calls # {}
        PROVE  /\ i + N <= m + n
               /\ \A id \in a[i].calls : \E k \in 1..N : IsResult(c[i + k]) /\ c[i + k].call = id
    <3>1. i + N <= m
      BY <1>1, <2>1, <2>2, <2>3 DEF AnsweredAt
    <3>2. \A id \in a[i].calls : \E k \in 1..N : IsResult(a[i + k]) /\ a[i + k].call = id
      BY <2>1, <2>2, <2>3 DEF AnsweredAt
    <3>3. \A k \in 1..N : c[i + k] = a[i + k]
      BY <1>4, <3>1
    <3>4. \A id \in a[i].calls : \E k \in 1..N : IsResult(c[i + k]) /\ c[i + k].call = id
      <4> TAKE id \in a[i].calls
      <4>1. PICK k \in 1..N : IsResult(a[i + k]) /\ a[i + k].call = id
        BY <3>2
      <4> QED
        BY <3>3, <4>1
    <3>5. i + N <= m + n
      BY <3>1
    <3> QED
      BY <3>4, <3>5
  <2> QED
    BY <1>3, <2>1, <2>2, <2>3 DEF AnsweredAt
<1>7. ASSUME NEW j \in 1..n PROVE AnsweredAt(c, m + j)
  <2>1. c[m + j] = b[j] /\ AnsweredAt(b, j) /\ b[j] \in HistoryMessages
    BY <1>1, <1>5, ElementOfSeq DEF AllAnswered
  <2>2. PICK N \in Nat : N = Cardinality(b[j].calls)
    BY <2>1, FewCalls
  <2>3. ASSUME b[j].calls # {}
        PROVE  /\ m + j + N <= m + n
               /\ \A id \in b[j].calls : \E k \in 1..N : IsResult(c[m + j + k]) /\ c[m + j + k].call = id
    <3>1. j + N <= n
      BY <1>1, <2>1, <2>2, <2>3 DEF AnsweredAt
    <3>2. \A id \in b[j].calls : \E k \in 1..N : IsResult(b[j + k]) /\ b[j + k].call = id
      BY <2>1, <2>2, <2>3 DEF AnsweredAt
    <3>3. \A k \in 1..N : c[m + j + k] = b[j + k]
      <4> TAKE k \in 1..N
      <4>1. j + k \in 1..n /\ m + j + k = m + (j + k)
        BY <3>1
      <4> QED
        BY <1>5, <4>1
    <3>4. \A id \in b[j].calls : \E k \in 1..N : IsResult(c[m + j + k]) /\ c[m + j + k].call = id
      <4> TAKE id \in b[j].calls
      <4>1. PICK k \in 1..N : IsResult(b[j + k]) /\ b[j + k].call = id
        BY <3>2
      <4> QED
        BY <3>3, <4>1
    <3>5. m + j + N <= m + n
      BY <3>1
    <3> QED
      BY <3>4, <3>5
  <2> QED
    BY <1>3, <2>1, <2>2, <2>3 DEF AnsweredAt
<1>8. ASSUME NEW i \in 1..(m + n) PROVE AnsweredAt(c, i)
  <2>1. CASE i <= m
    BY <1>6, <2>1
  <2>2. CASE ~(i <= m)
    <3>1. i - m \in 1..n /\ m + (i - m) = i
      BY <2>2
    <3> QED
      BY <1>7, <3>1
  <2> QED
    BY <2>1, <2>2
<1> QED
  BY <1>2, <1>3, <1>8 DEF AllAnswered

\* What the repair puts in the place of a message.
AnsweredBlocks == {b \in Seq(HistoryMessages) : AllAnswered(b)}

LEMMA AnsweredFlatten ==
    ASSUME NEW ss \in Seq(AnsweredBlocks)
    PROVE  FlattenSeq(ss) \in AnsweredBlocks
<1> DEFINE T == {tt \in Seq(AnsweredBlocks) : FlattenSeq(tt) \in AnsweredBlocks}
<1>1. <<>> \in T
  <2>1. Len(<<>>) = 0 /\ <<>> \in Seq(HistoryMessages) /\ <<>> \in Seq(AnsweredBlocks)
    BY EmptySeq
  <2>2. AllAnswered(<<>>)
    BY <2>1 DEF AllAnswered
  <2> QED
    BY <2>1, <2>2, FlattenEmpty DEF AnsweredBlocks
<1>2. ASSUME NEW tt \in Seq(AnsweredBlocks), NEW x \in AnsweredBlocks, tt \in T
      PROVE  Append(tt, x) \in T
  <2>1. Append(tt, x) \in Seq(AnsweredBlocks)
    BY AppendProperties
  <2>2. tt \in Seq(Seq(HistoryMessages))
    <3>1. AnsweredBlocks \subseteq Seq(HistoryMessages)
      BY DEF AnsweredBlocks
    <3>2. Len(tt) \in Nat /\ tt = [i \in 1..Len(tt) |-> tt[i]] /\ \A i \in 1..Len(tt) : tt[i] \in AnsweredBlocks
      BY LenProperties, ElementOfSeq
    <3>3. \A i \in 1..Len(tt) : tt[i] \in Seq(HistoryMessages)
      BY <3>1, <3>2
    <3>4. tt \in [1..Len(tt) -> Seq(HistoryMessages)]
      BY <3>2, <3>3
    <3> QED
      BY <3>2, <3>4, ListOf
  <2>3. x \in Seq(HistoryMessages) /\ AllAnswered(x)
    BY DEF AnsweredBlocks
  <2>4. FlattenSeq(Append(tt, x)) = FlattenSeq(tt) \o x
    BY <2>2, <2>3, FlattenAppend
  <2>5. FlattenSeq(tt) \in Seq(HistoryMessages) /\ AllAnswered(FlattenSeq(tt))
    BY <1>2 DEF AnsweredBlocks
  <2>6. FlattenSeq(tt) \o x \in Seq(HistoryMessages)
    BY <2>3, <2>5, ConcatProperties
  <2>7. AllAnswered(FlattenSeq(tt) \o x)
    BY <2>3, <2>5, AnsweredConcat
  <2> QED
    BY <2>1, <2>4, <2>6, <2>7 DEF AnsweredBlocks
<1> HIDE DEF T
<1>3. Seq(AnsweredBlocks) \subseteq T
  BY <1>1, <1>2, Lists
<1> QED
  BY <1>3 DEF T

-----------------------------------------------------------------------------
\* The parts of RepairToolPairing, by name.
KeptResult(h, i) == Matches(h, i) /\ \A j \in 1..(i - 1) : ~(Matches(h, j) /\ h[j].call = h[i].call)
ResultsFound(h, a, id) == {i \in 1..Len(h) : KeptResult(h, i) /\ Asker(h, i) = a /\ h[i].call = id}
ResultOf(h, a, id) == IF ResultsFound(h, a, id) = {} THEN Synthetic(id)
                      ELSE h[CHOOSE i \in ResultsFound(h, a, id) : TRUE]
ResultsOf(h, a) == [k \in 1..Len(SetToSeq(h[a].calls)) |-> ResultOf(h, a, SetToSeq(h[a].calls)[k])]
RepairBlock(h, i) == IF h[i].role = "assistant" THEN <<h[i]>> \o ResultsOf(h, i)
                     ELSE IF Asker(h, i) = 0 THEN <<h[i]>> ELSE <<>>

LEMMA RepairIs ==
    ASSUME NEW h
    PROVE  RepairToolPairing(h) = FlattenSeq([i \in 1..Len(h) |-> RepairBlock(h, i)])
BY DEF RepairToolPairing, RepairBlock, ResultsOf, ResultOf, ResultsFound, KeptResult

LEMMA ResultOfType ==
    ASSUME NEW h \in Seq(HistoryMessages), NEW a \in 1..Len(h), NEW id \in h[a].calls
    PROVE  /\ ResultOf(h, a, id) \in HistoryMessages
           /\ IsResult(ResultOf(h, a, id)) /\ ResultOf(h, a, id).call = id
<1>1. id \in Nat
  <2>1. h[a] \in HistoryMessages
    BY ElementOfSeq
  <2>2. h[a].calls \in SUBSET CallIds
    BY <2>1 DEF HistoryMessages
  <2> QED
    BY <2>2, CompactionAssumption
<1>2. CASE ResultsFound(h, a, id) = {}
  <2>1. /\ Synthetic(id) \in HistoryMessages
        /\ IsResult(Synthetic(id)) /\ Synthetic(id).call = id
    BY <1>1 DEF Synthetic, HistoryMessages, HistoryTexts, IsResult
  <2> QED
    BY <1>2, <2>1 DEF ResultOf
<1>3. CASE ResultsFound(h, a, id) # {}
  <2>1. PICK i : i = CHOOSE found \in ResultsFound(h, a, id) : TRUE
    OBVIOUS
  <2>2. i \in ResultsFound(h, a, id)
    BY <1>3, <2>1
  <2>3. ResultOf(h, a, id) = h[i]
    BY <1>3, <2>1 DEF ResultOf
  <2>4. i \in 1..Len(h) /\ h[i].call = id /\ Asker(h, i) # 0
    BY <2>2 DEF ResultsFound, KeptResult, Matches
  <2>5. IsResult(h[i])
    BY <2>4 DEF Asker
  <2>6. h[i] \in HistoryMessages
    BY <2>4, ElementOfSeq
  <2> QED
    BY <2>3, <2>4, <2>5, <2>6
<1> QED
  BY <1>2, <1>3

LEMMA OneAnswered ==
    ASSUME NEW m \in HistoryMessages, m.calls = {}
    PROVE  <<m>> \in AnsweredBlocks
<1>1. <<m>> \in Seq(HistoryMessages) /\ Len(<<m>>) = 1 /\ <<m>>[1] = m
  OBVIOUS
<1>2. AnsweredAt(<<m>>, 1)
  BY <1>1 DEF AnsweredAt
<1>3. AllAnswered(<<m>>)
  BY <1>1, <1>2 DEF AllAnswered
<1> QED
  BY <1>1, <1>3 DEF AnsweredBlocks

LEMMA BlockAnswered ==
    ASSUME NEW h \in Seq(HistoryMessages), NEW a \in 1..Len(h)
    PROVE  RepairBlock(h, a) \in AnsweredBlocks
<1>1. PICK m \in HistoryMessages : m = h[a]
  BY ElementOfSeq
<1>2. CASE m.role = "assistant"
  <2>1. PICK N \in Nat : N = Cardinality(m.calls)
    BY FewCalls
  <2>2. PICK order : order = SetToSeq(m.calls)
    OBVIOUS
  <2>3. order \in [1..N -> m.calls] /\ \A id \in m.calls : \E k \in 1..N : order[k] = id
    BY <2>1, <2>2, FewCalls, SetInSequence
  <2>4. Len(order) = N
    BY <2>3, ListOf
  <2>5. PICK r : r = ResultsOf(h, a)
    OBVIOUS
  <2>6. r = [k \in 1..N |-> ResultOf(h, a, order[k])]
    BY <1>1, <2>2, <2>4, <2>5 DEF ResultsOf
  <2>7. ASSUME NEW k \in 1..N
        PROVE  r[k] \in HistoryMessages /\ IsResult(r[k]) /\ r[k].call = order[k]
    <3>1. order[k] \in h[a].calls
      BY <1>1, <2>3
    <3>2. r[k] = ResultOf(h, a, order[k])
      BY <2>6
    <3> QED
      BY <3>1, <3>2, ResultOfType
  <2>8. r \in Seq(HistoryMessages) /\ Len(r) = N
    <3>1. r \in [1..N -> HistoryMessages]
      BY <2>6, <2>7
    <3> QED
      BY <3>1, ListOf
  <2>9. PICK b : b = <<m>> \o r
    OBVIOUS
  <2>10. <<m>> \in Seq(HistoryMessages) /\ Len(<<m>>) = 1 /\ <<m>>[1] = m
    OBVIOUS
  <2>11. b \in Seq(HistoryMessages) /\ Len(b) = 1 + N
    BY <2>8, <2>9, <2>10, ConcatProperties
  <2>12. \A i \in 1..(1 + N) : b[i] = IF i <= 1 THEN <<m>>[i] ELSE r[i - 1]
    BY <2>8, <2>9, <2>10, ConcatProperties
  <2>13. b[1] = m
    BY <2>10, <2>12
  <2>14. \A k \in 1..N : b[1 + k] = r[k]
    <3> TAKE k \in 1..N
    <3>1. 1 + k \in 1..(1 + N) /\ ~(1 + k <= 1) /\ 1 + k - 1 = k
      OBVIOUS
    <3>2. b[1 + k] = r[1 + k - 1]
      BY <2>12, <3>1
    <3> QED
      BY <3>1, <3>2
  <2>15. AnsweredAt(b, 1)
    <3>1. \A id \in m.calls : \E k \in 1..N : IsResult(b[1 + k]) /\ b[1 + k].call = id
      <4> TAKE id \in m.calls
      <4>1. PICK k \in 1..N : order[k] = id
        BY <2>3
      <4> QED
        BY <2>7, <2>14, <4>1
    <3> QED
      BY <2>1, <2>11, <2>13, <3>1 DEF AnsweredAt
  <2>16. ASSUME NEW k \in 1..N PROVE AnsweredAt(b, 1 + k)
    <3>1. r[k].role = "toolResult" /\ r[k].calls = {}
      BY <2>7 DEF HistoryMessages, IsResult
    <3> QED
      BY <2>14, <3>1 DEF AnsweredAt
  <2>17. AllAnswered(b)
    <3>1. \A i \in 1..(1 + N) : i = 1 \/ (i - 1 \in 1..N /\ 1 + (i - 1) = i)
      OBVIOUS
    <3> QED
      BY <2>11, <2>15, <2>16, <3>1 DEF AllAnswered
  <2>18. RepairBlock(h, a) = b
    BY <1>1, <1>2, <2>5, <2>9 DEF RepairBlock
  <2> QED
    BY <2>11, <2>17, <2>18 DEF AnsweredBlocks
<1>3. CASE m.role # "assistant"
  <2>1. m.calls = {}
    BY <1>3 DEF HistoryMessages
  <2>2. <<m>> \in AnsweredBlocks
    BY <2>1, OneAnswered
  <2>3. <<>> \in AnsweredBlocks
    <3>1. Len(<<>>) = 0 /\ <<>> \in Seq(HistoryMessages)
      BY EmptySeq
    <3> QED
      BY <3>1 DEF AnsweredBlocks, AllAnswered
  <2>4. RepairBlock(h, a) = <<m>> \/ RepairBlock(h, a) = <<>>
    BY <1>1, <1>3 DEF RepairBlock
  <2> QED
    BY <2>2, <2>3, <2>4
<1> QED
  BY <1>2, <1>3

LEMMA RepairAnswers ==
    ASSUME NEW h \in Seq(HistoryMessages)
    PROVE  RepairToolPairing(h) \in Seq(HistoryMessages) /\ AllAnswered(RepairToolPairing(h))
<1>1. PICK n \in Nat : n = Len(h)
  BY LenProperties
<1>2. PICK ss : ss = [i \in 1..n |-> RepairBlock(h, i)]
  OBVIOUS
<1>3. ss \in [1..n -> AnsweredBlocks]
  BY <1>1, <1>2, BlockAnswered
<1>4. ss \in Seq(AnsweredBlocks)
  BY <1>3, ListOf
<1>5. RepairToolPairing(h) = FlattenSeq(ss)
  BY <1>1, <1>2, RepairIs
<1> QED
  BY <1>4, <1>5, AnsweredFlatten DEF AnsweredBlocks

-----------------------------------------------------------------------------
(* Compaction: how often a message is there. *)

\* The places where a list has a message.
PlacesWith(m, h, places) == {i \in 1..Len(h) : i \in places /\ h[i] = m}
CountAt(m, h, places) == Cardinality(PlacesWith(m, h, places))

LEMMA PlacesFinite ==
    ASSUME NEW S, NEW h \in Seq(S), NEW places, NEW m
    PROVE  IsFiniteSet(PlacesWith(m, h, places)) /\ CountAt(m, h, places) \in Nat
<1>1. Len(h) \in Int /\ 1 \in Int
  BY LenProperties
<1>2. IsFiniteSet(1..Len(h))
  BY <1>1, FS_Interval
<1>3. PlacesWith(m, h, places) \in SUBSET (1..Len(h))
  BY DEF PlacesWith
<1>4. IsFiniteSet(PlacesWith(m, h, places))
  BY <1>2, <1>3, FS_Subset
<1> QED
  BY <1>4, FS_CardinalityType DEF CountAt

LEMMA CountAppend ==
    ASSUME NEW S, NEW h \in Seq(S), NEW x \in S, NEW places, NEW m
    PROVE  /\ x = m /\ Len(h) + 1 \in places => CountAt(m, Append(h, x), places) = CountAt(m, h, places) + 1
           /\ ~(x = m /\ Len(h) + 1 \in places) => CountAt(m, Append(h, x), places) = CountAt(m, h, places)
<1>1. PICK n \in Nat : n = Len(h)
  BY LenProperties
<1>2. PICK t : t = Append(h, x)
  OBVIOUS
<1>3. Len(t) = n + 1 /\ t[n + 1] = x /\ \A i \in 1..n : t[i] = h[i]
  BY <1>1, <1>2, AppendProperties
<1>4. PICK A : A = PlacesWith(m, h, places)
  OBVIOUS
<1>5. IsFiniteSet(A) /\ A \subseteq 1..n
  <2>1. IsFiniteSet(A)
    BY <1>4, PlacesFinite
  <2>2. A \subseteq 1..n
    BY <1>1, <1>4 DEF PlacesWith
  <2> QED
    BY <2>1, <2>2
<1>6. \A i \in 1..(n + 1) : i \in 1..n \/ i = n + 1
  OBVIOUS
<1>7. ASSUME x = m, n + 1 \in places PROVE CountAt(m, t, places) = CountAt(m, h, places) + 1
  <2>1. PlacesWith(m, t, places) = A \cup {n + 1}
    <3>1. ASSUME NEW i \in PlacesWith(m, t, places) PROVE i \in A \cup {n + 1}
      BY <1>1, <1>3, <1>4, <1>6, <3>1 DEF PlacesWith
    <3>2. ASSUME NEW i \in A PROVE i \in PlacesWith(m, t, places)
      <4>1. i \in 1..n /\ i \in 1..(n + 1) /\ i \in places /\ h[i] = m
        BY <1>1, <1>4, <3>2 DEF PlacesWith
      <4> QED
        BY <1>3, <4>1 DEF PlacesWith
    <3>3. n + 1 \in PlacesWith(m, t, places)
      BY <1>3, <1>7 DEF PlacesWith
    <3> QED
      BY <3>1, <3>2, <3>3
  <2>2. n + 1 \notin A
    BY <1>5
  <2>3. Cardinality(A \cup {n + 1}) = Cardinality(A) + 1
    BY <1>5, <2>2, FS_AddElement
  <2> QED
    BY <1>4, <2>1, <2>3 DEF CountAt
<1>8. ASSUME ~(x = m /\ n + 1 \in places) PROVE CountAt(m, t, places) = CountAt(m, h, places)
  <2>1. PlacesWith(m, t, places) = A
    <3>1. ASSUME NEW i \in PlacesWith(m, t, places) PROVE i \in A
      <4>1. i \in 1..(n + 1) /\ i \in places /\ t[i] = m
        BY <1>3, <3>1 DEF PlacesWith
      <4>2. i \in 1..n
        BY <1>3, <1>6, <1>8, <4>1
      <4> QED
        BY <1>1, <1>3, <1>4, <4>1, <4>2 DEF PlacesWith
    <3>2. ASSUME NEW i \in A PROVE i \in PlacesWith(m, t, places)
      <4>1. i \in 1..n /\ i \in 1..(n + 1) /\ i \in places /\ h[i] = m
        BY <1>1, <1>4, <3>2 DEF PlacesWith
      <4> QED
        BY <1>3, <4>1 DEF PlacesWith
    <3> QED
      BY <3>1, <3>2
  <2> QED
    BY <1>4, <2>1 DEF CountAt
<1> QED
  BY <1>1, <1>2, <1>7, <1>8

\* How often a message is in a list.
LEMMA OccurrencesAre ==
    ASSUME NEW S, NEW s \in Seq(S), NEW m
    PROVE  Occurrences(m, s) = CountAt(m, s, Nat) /\ Occurrences(m, s) \in Nat
<1>1. Len(s) \in Nat
  BY LenProperties
<1>2. PlacesWith(m, s, Nat) = {i \in 1..Len(s) : s[i] = m}
  BY <1>1 DEF PlacesWith
<1>3. Occurrences(m, s) = CountAt(m, s, Nat)
  BY <1>2 DEF Occurrences, CountAt
<1> QED
  BY <1>3, PlacesFinite

LEMMA OccurrencesAppend ==
    ASSUME NEW S, NEW s \in Seq(S), NEW x \in S, NEW m
    PROVE  /\ x = m => Occurrences(m, Append(s, x)) = Occurrences(m, s) + 1
           /\ x # m => Occurrences(m, Append(s, x)) = Occurrences(m, s)
<1>1. Append(s, x) \in Seq(S) /\ Len(s) + 1 \in Nat
  BY AppendProperties, LenProperties
<1>2. Occurrences(m, s) = CountAt(m, s, Nat) /\ Occurrences(m, Append(s, x)) = CountAt(m, Append(s, x), Nat)
  BY <1>1, OccurrencesAre
<1> QED
  BY <1>1, <1>2, CountAppend

LEMMA OccurrencesNone == ASSUME NEW m PROVE Occurrences(m, <<>>) = 0
<1>1. Len(<<>>) = 0
  OBVIOUS
<1>2. {i \in 1..Len(<<>>) : <<>>[i] = m} = {}
  BY <1>1
<1> QED
  BY <1>2, FS_EmptySet DEF Occurrences

LEMMA OccurrencesConcat ==
    ASSUME NEW S, NEW a \in Seq(S), NEW b \in Seq(S), NEW m
    PROVE  Occurrences(m, a \o b) = Occurrences(m, a) + Occurrences(m, b)
<1> DEFINE Sums(s) == Occurrences(m, a \o s) = Occurrences(m, a) + Occurrences(m, s)
           T == {s \in Seq(S) : Sums(s)}
<1>0. Occurrences(m, a) \in Nat
  BY OccurrencesAre
<1>1. <<>> \in T
  <2>1. a \o <<>> = a /\ <<>> \in Seq(S)
    BY ConcatEmptySeq, EmptySeq
  <2> QED
    BY <1>0, <2>1, OccurrencesNone
<1>2. ASSUME NEW s \in Seq(S), NEW x \in S, s \in T
      PROVE  Append(s, x) \in T
  <2>1. Append(s, x) \in Seq(S)
    BY AppendProperties
  <2>2. PICK c \in Seq(S) : c = a \o s
    BY ConcatProperties
  <2>3. a \o Append(s, x) = Append(c, x)
    <3>1. Append(s, x) = s \o <<x>> /\ Append(c, x) = c \o <<x>> /\ <<x>> \in Seq(S)
      BY AppendIsConcat
    <3>2. (a \o s) \o <<x>> = a \o (s \o <<x>>)
      BY <3>1, ConcatAssociative
    <3> QED
      BY <2>2, <3>1, <3>2
  <2>4. Occurrences(m, c) = Occurrences(m, a) + Occurrences(m, s) /\ Occurrences(m, s) \in Nat
    BY <1>2, <2>2, OccurrencesAre
  <2>5. CASE x = m
    <3>1. Occurrences(m, Append(c, x)) = Occurrences(m, c) + 1
      BY <2>5, OccurrencesAppend
    <3>2. Occurrences(m, Append(s, x)) = Occurrences(m, s) + 1
      BY <2>5, OccurrencesAppend
    <3>3. Sums(Append(s, x))
      BY <1>0, <2>3, <2>4, <3>1, <3>2
    <3> QED
      BY <2>1, <3>3
  <2>6. CASE x # m
    <3>1. Occurrences(m, Append(c, x)) = Occurrences(m, c)
      BY <2>6, OccurrencesAppend
    <3>2. Occurrences(m, Append(s, x)) = Occurrences(m, s)
      BY <2>6, OccurrencesAppend
    <3>3. Sums(Append(s, x))
      BY <2>3, <2>4, <3>1, <3>2
    <3> QED
      BY <2>1, <3>3
  <2> QED
    BY <2>5, <2>6
<1> HIDE DEF T
<1>3. Seq(S) \subseteq T
  BY <1>1, <1>2, Lists
<1> QED
  BY <1>3 DEF T

LEMMA OccurrencesReverse ==
    ASSUME NEW S, NEW s \in Seq(S), NEW m
    PROVE  Reverse(s) \in Seq(S) /\ Occurrences(m, Reverse(s)) = Occurrences(m, s)
<1>1. PICK n \in Nat : n = Len(s)
  BY LenProperties
<1>2. PICK r : r = Reverse(s)
  OBVIOUS
<1>3. r = [i \in 1..n |-> s[(n - i) + 1]]
  BY <1>1, <1>2 DEF Reverse
<1>4. \A i \in 1..n : (n - i) + 1 \in 1..n
  OBVIOUS
<1>5. r \in [1..n -> S]
  BY <1>1, <1>3, <1>4, ElementOfSeq
<1>6. r \in Seq(S) /\ Len(r) = n
  BY <1>5, ListOf
<1>7. PICK A : A = {i \in 1..n : s[i] = m}
  OBVIOUS
<1>8. PICK B : B = {i \in 1..n : r[i] = m}
  OBVIOUS
<1>9. PICK f : f = [i \in A |-> (n - i) + 1]
  OBVIOUS
<1>10. \A i \in 1..n : r[i] = s[(n - i) + 1]
  BY <1>3
<1>11. f \in [A -> B]
  <2>1. ASSUME NEW i \in A PROVE (n - i) + 1 \in B
    <3>1. i \in 1..n /\ s[i] = m
      BY <1>7
    <3>2. (n - i) + 1 \in 1..n /\ (n - ((n - i) + 1)) + 1 = i
      BY <3>1
    <3>3. r[(n - i) + 1] = s[(n - ((n - i) + 1)) + 1]
      BY <1>10, <3>2
    <3> QED
      BY <1>8, <3>1, <3>2, <3>3
  <2> QED
    BY <1>9, <2>1
<1>12. \A i, j \in A : f[i] = f[j] => i = j
  BY <1>7, <1>9
<1>13. \A k \in B : \E i \in A : f[i] = k
  <2> TAKE k \in B
  <2>1. k \in 1..n /\ r[k] = m
    BY <1>8
  <2>2. (n - k) + 1 \in 1..n /\ (n - ((n - k) + 1)) + 1 = k
    BY <2>1
  <2>3. (n - k) + 1 \in A
    BY <1>7, <1>10, <2>1, <2>2
  <2>4. f[(n - k) + 1] = k
    BY <1>9, <2>2, <2>3
  <2> QED
    BY <2>3, <2>4
<1>14. f \in Bijection(A, B)
  BY <1>11, <1>12, <1>13 DEF Bijection, Injection, Surjection, IsInjective
<1>15. IsFiniteSet(A)
  <2>1. 1 \in Int /\ n \in Int
    OBVIOUS
  <2>2. IsFiniteSet(1..n) /\ A \in SUBSET (1..n)
    BY <1>7, <2>1, FS_Interval
  <2> QED
    BY <2>2, FS_Subset
<1>16. Cardinality(A) = Cardinality(B)
  <2>1. ExistsBijection(A, B)
    BY <1>14 DEF ExistsBijection
  <2> QED
    BY <1>15, <2>1, FS_Bijection
<1>17. Occurrences(m, r) = Cardinality(B) /\ Occurrences(m, s) = Cardinality(A)
  BY <1>1, <1>6, <1>7, <1>8 DEF Occurrences
<1> QED
  BY <1>2, <1>6, <1>16, <1>17

\* At has a message as often as the places do.
LEMMA OccurrencesAt ==
    ASSUME NEW S, NEW h \in Seq(S), NEW places, NEW m
    PROVE  Occurrences(m, At(h, places)) = CountAt(m, h, places)
<1> DEFINE Same(s) == Occurrences(m, At(s, places)) = CountAt(m, s, places)
           T == {s \in Seq(S) : Same(s)}
<1>1. <<>> \in T
  <2>1. PlacesWith(m, <<>>, places) = {}
    BY DEF PlacesWith
  <2>2. CountAt(m, <<>>, places) = 0
    BY <2>1, FS_EmptySet DEF CountAt
  <2> QED
    BY <2>2, AtEmpty, OccurrencesNone, EmptySeq
<1>2. ASSUME NEW s \in Seq(S), NEW x \in S, s \in T
      PROVE  Append(s, x) \in T
  <2>1. Same(s)
    BY <1>2
  <2>2. PICK t \in Seq(S) : t = Append(s, x)
    BY AppendProperties
  <2>3. PICK a \in Seq(S) : a = At(s, places)
    BY AtType
  <2>4. CASE Len(s) + 1 \in places
    <3>1. At(t, places) = Append(a, x)
      BY <2>2, <2>3, <2>4, AtAppend
    <3>2. CASE x = m
      <4>1. Occurrences(m, Append(a, x)) = Occurrences(m, a) + 1
        BY <3>2, OccurrencesAppend
      <4>2. CountAt(m, t, places) = CountAt(m, s, places) + 1
        BY <2>2, <2>4, <3>2, CountAppend
      <4> QED
        BY <2>1, <2>2, <2>3, <3>1, <4>1, <4>2
    <3>3. CASE x # m
      <4>1. Occurrences(m, Append(a, x)) = Occurrences(m, a)
        BY <3>3, OccurrencesAppend
      <4>2. CountAt(m, t, places) = CountAt(m, s, places)
        BY <2>2, <3>3, CountAppend
      <4> QED
        BY <2>1, <2>2, <2>3, <3>1, <4>1, <4>2
    <3> QED
      BY <3>2, <3>3
  <2>5. CASE Len(s) + 1 \notin places
    <3>1. At(t, places) = a
      BY <2>2, <2>3, <2>5, AtAppend
    <3>2. CountAt(m, t, places) = CountAt(m, s, places)
      BY <2>2, <2>5, CountAppend
    <3> QED
      BY <2>1, <2>2, <2>3, <3>1, <3>2
  <2> QED
    BY <2>4, <2>5
<1> HIDE DEF T
<1>3. Seq(S) \subseteq T
  BY <1>1, <1>2, Lists
<1> QED
  BY <1>3 DEF T

-----------------------------------------------------------------------------
(* Compaction: what is preserved. *)

\* The places of the messages that are kept, and of those that are summarized.
SystemPlaces(h) == {i \in 1..Len(h) : h[i].role = "system"}
TurnPlaces(h) == {i \in 1..Len(h) : Recent(h, i) /\ h[i].role \in Turn}
ResultPlaces(h) == {i \in 1..Len(h) : Recent(h, i) /\ IsResult(h[i])}
OtherPlaces(h) == {i \in 1..Len(h) : h[i].role # "system" /\ ~Recent(h, i)}

LEMMA TwoSets ==
    ASSUME NEW A, NEW B, IsFiniteSet(A), IsFiniteSet(B), A \cap B = {}
    PROVE  IsFiniteSet(A \cup B) /\ Cardinality(A \cup B) = Cardinality(A) + Cardinality(B)
<1>1. Cardinality(A \cup B) = Cardinality(A) + Cardinality(B) - Cardinality(A \cap B) /\ IsFiniteSet(A \cup B)
  BY FS_Union
<1>2. Cardinality(A \cap B) = 0
  BY FS_EmptySet
<1>3. Cardinality(A) \in Nat /\ Cardinality(B) \in Nat
  BY FS_CardinalityType
<1> QED
  BY <1>1, <1>2, <1>3

\* Every message is of one of the four kinds.
LEMMA KindsOfPlaces ==
    ASSUME NEW h \in Seq(HistoryMessages), NEW m
    PROVE  Occurrences(m, h) = CountAt(m, h, SystemPlaces(h)) + CountAt(m, h, TurnPlaces(h))
                               + CountAt(m, h, ResultPlaces(h)) + CountAt(m, h, OtherPlaces(h))
<1>1. PICK A : A = PlacesWith(m, h, SystemPlaces(h))
  OBVIOUS
<1>2. PICK B : B = PlacesWith(m, h, TurnPlaces(h))
  OBVIOUS
<1>3. PICK C : C = PlacesWith(m, h, ResultPlaces(h))
  OBVIOUS
<1>4. PICK D : D = PlacesWith(m, h, OtherPlaces(h))
  OBVIOUS
<1>5. IsFiniteSet(A) /\ IsFiniteSet(B) /\ IsFiniteSet(C) /\ IsFiniteSet(D)
  BY <1>1, <1>2, <1>3, <1>4, PlacesFinite
<1>6. ASSUME NEW i \in 1..Len(h)
      PROVE  h[i].role \in {"system", "user", "assistant", "toolResult"}
  <2>1. h[i] \in HistoryMessages
    BY ElementOfSeq
  <2> QED
    BY <2>1 DEF HistoryMessages
<1>7. \A i \in 1..Len(h) : Recent(h, i) => h[i].role \in Turn \/ IsResult(h[i])
  BY DEF Recent
<1>8. A \cap B = {}
  BY <1>1, <1>2 DEF PlacesWith, SystemPlaces, TurnPlaces, Turn
<1>9. (A \cup B) \cap C = {}
  BY <1>1, <1>2, <1>3 DEF PlacesWith, SystemPlaces, TurnPlaces, ResultPlaces, Turn, IsResult
<1>10. ((A \cup B) \cup C) \cap D = {}
  BY <1>1, <1>2, <1>3, <1>4 DEF PlacesWith, SystemPlaces, TurnPlaces, ResultPlaces, OtherPlaces
<1>11. ((A \cup B) \cup C) \cup D = {i \in 1..Len(h) : h[i] = m}
  <2>1. ASSUME NEW i \in 1..Len(h), h[i] = m PROVE i \in ((A \cup B) \cup C) \cup D
    <3>1. CASE h[i].role = "system"
      BY <1>1, <2>1, <3>1 DEF PlacesWith, SystemPlaces
    <3>2. CASE h[i].role # "system" /\ ~Recent(h, i)
      BY <1>4, <2>1, <3>2 DEF PlacesWith, OtherPlaces
    <3>3. CASE Recent(h, i) /\ h[i].role \in Turn
      BY <1>2, <2>1, <3>3 DEF PlacesWith, TurnPlaces
    <3>4. CASE Recent(h, i) /\ IsResult(h[i])
      BY <1>3, <2>1, <3>4 DEF PlacesWith, ResultPlaces
    <3> QED
      BY <1>7, <3>1, <3>2, <3>3, <3>4
  <2>2. ASSUME NEW i \in ((A \cup B) \cup C) \cup D PROVE i \in 1..Len(h) /\ h[i] = m
    BY <1>1, <1>2, <1>3, <1>4, <2>2 DEF PlacesWith
  <2> QED
    BY <2>1, <2>2
<1>12. IsFiniteSet(A \cup B) /\ Cardinality(A \cup B) = Cardinality(A) + Cardinality(B)
  BY <1>5, <1>8, TwoSets
<1>13. /\ IsFiniteSet((A \cup B) \cup C)
       /\ Cardinality((A \cup B) \cup C) = Cardinality(A \cup B) + Cardinality(C)
  BY <1>5, <1>9, <1>12, TwoSets
<1>14. Cardinality(((A \cup B) \cup C) \cup D) = Cardinality((A \cup B) \cup C) + Cardinality(D)
  BY <1>5, <1>10, <1>13, TwoSets
<1>15. Occurrences(m, h) = Cardinality(((A \cup B) \cup C) \cup D)
  BY <1>11 DEF Occurrences
<1> QED
  BY <1>1, <1>2, <1>3, <1>4, <1>12, <1>13, <1>14, <1>15 DEF CountAt

\* What is preserved and what is summarized have a message as often as the history.
LEMMA PreservedAndSummarized ==
    ASSUME NEW h \in Seq(HistoryMessages), NEW m
    PROVE  /\ Preserved(h) \in Seq(HistoryMessages) /\ Summarizable(h) \in Seq(HistoryMessages)
           /\ Occurrences(m, h) = Occurrences(m, Preserved(h)) + Occurrences(m, Summarizable(h))
<1>1. PICK a \in Seq(HistoryMessages) : a = At(h, SystemPlaces(h))
  BY AtType
<1>2. PICK b \in Seq(HistoryMessages) : b = At(h, TurnPlaces(h))
  BY AtType
<1>3. PICK c \in Seq(HistoryMessages) : c = At(h, ResultPlaces(h))
  BY AtType
<1>4. PICK d \in Seq(HistoryMessages) : d = At(h, OtherPlaces(h))
  BY AtType
<1>5. PICK r \in Seq(HistoryMessages) : r = Reverse(a)
  BY OccurrencesReverse
<1>6. Summarizable(h) = d
  BY <1>4 DEF Summarizable, OtherPlaces
<1>7. Preserved(h) = (r \o b) \o c
  BY <1>1, <1>2, <1>3, <1>5 DEF Preserved, SystemPlaces, TurnPlaces, ResultPlaces
<1>8. r \o b \in Seq(HistoryMessages) /\ (r \o b) \o c \in Seq(HistoryMessages)
  BY ConcatProperties
<1>9. Occurrences(m, r \o b) = Occurrences(m, r) + Occurrences(m, b)
  BY OccurrencesConcat
<1>10. Occurrences(m, (r \o b) \o c) = Occurrences(m, r \o b) + Occurrences(m, c)
  BY <1>8, OccurrencesConcat
<1>11. Occurrences(m, r) = Occurrences(m, a)
  BY <1>5, OccurrencesReverse
<1>12. /\ Occurrences(m, a) = CountAt(m, h, SystemPlaces(h))
       /\ Occurrences(m, b) = CountAt(m, h, TurnPlaces(h))
       /\ Occurrences(m, c) = CountAt(m, h, ResultPlaces(h))
       /\ Occurrences(m, d) = CountAt(m, h, OtherPlaces(h))
  BY <1>1, <1>2, <1>3, <1>4, OccurrencesAt
<1> QED
  BY <1>6, <1>7, <1>8, <1>9, <1>10, <1>11, <1>12, KindsOfPlaces

-----------------------------------------------------------------------------
(* Compaction: the split. *)

\* What the split keeps while it walks.
Walks == [chunks : Seq(Seq(HistoryMessages)), current : Seq(HistoryMessages), tokens : Nat,
          pending : Seq(HistoryMessages)]
Carried(m, acc) == Occurrences(m, FlattenSeq(acc.chunks)) + Occurrences(m, acc.current)
                   + Occurrences(m, acc.pending)

LEMMA CarriedType ==
    ASSUME NEW acc \in Walks, NEW m
    PROVE  /\ Occurrences(m, FlattenSeq(acc.chunks)) \in Nat
           /\ Occurrences(m, acc.current) \in Nat /\ Occurrences(m, acc.pending) \in Nat
           /\ Carried(m, acc) \in Nat
<1>1. /\ acc.chunks \in Seq(Seq(HistoryMessages)) /\ acc.current \in Seq(HistoryMessages)
      /\ acc.pending \in Seq(HistoryMessages)
  BY DEF Walks
<1>2. FlattenSeq(acc.chunks) \in Seq(HistoryMessages)
  BY <1>1, FlattenType
<1>3. /\ Occurrences(m, FlattenSeq(acc.chunks)) \in Nat
      /\ Occurrences(m, acc.current) \in Nat /\ Occurrences(m, acc.pending) \in Nat
  BY <1>1, <1>2, OccurrencesAre
<1> QED
  BY <1>3 DEF Carried

LEMMA ChunkCarried ==
    ASSUME NEW chunks \in Seq(Seq(HistoryMessages)), NEW c \in Seq(HistoryMessages), NEW m
    PROVE  /\ Append(chunks, c) \in Seq(Seq(HistoryMessages))
           /\ Occurrences(m, FlattenSeq(Append(chunks, c)))
              = Occurrences(m, FlattenSeq(chunks)) + Occurrences(m, c)
<1>1. FlattenSeq(Append(chunks, c)) = FlattenSeq(chunks) \o c
  BY FlattenAppend
<1>2. FlattenSeq(chunks) \in Seq(HistoryMessages)
  BY FlattenType
<1>3. Occurrences(m, FlattenSeq(chunks) \o c) = Occurrences(m, FlattenSeq(chunks)) + Occurrences(m, c)
  BY <1>2, OccurrencesConcat
<1> QED
  BY <1>1, <1>3, AppendProperties

LEMMA BoundaryCarries ==
    ASSUME NEW acc \in Walks, NEW m
    PROVE  Boundary(acc) \in Walks /\ Carried(m, Boundary(acc)) = Carried(m, acc)
<1>1. PICK ch \in Seq(Seq(HistoryMessages)), cu \in Seq(HistoryMessages), pe \in Seq(HistoryMessages) :
        ch = acc.chunks /\ cu = acc.current /\ pe = acc.pending
  BY DEF Walks
<1>2. PICK c \in Seq(HistoryMessages) : c = cu \o pe
  BY ConcatProperties
<1>3. PICK d \in Seq(Seq(HistoryMessages)) : d = Append(ch, c)
  BY ChunkCarried
<1>4. PICK b : b = Boundary(acc)
  OBVIOUS
<1>5. b = [chunks |-> d, current |-> <<>>, tokens |-> 0, pending |-> <<>>]
  BY <1>1, <1>2, <1>3, <1>4 DEF Boundary
<1>6. b \in Walks /\ b.chunks = d /\ b.current = <<>> /\ b.pending = <<>>
  BY <1>5, EmptySeq DEF Walks
<1>7. Occurrences(m, FlattenSeq(d)) = Occurrences(m, FlattenSeq(ch)) + Occurrences(m, c)
  BY <1>3, ChunkCarried
<1>8. Occurrences(m, c) = Occurrences(m, cu) + Occurrences(m, pe)
  BY <1>2, OccurrencesConcat
<1>9. Carried(m, b) = Occurrences(m, FlattenSeq(d)) + 0 + 0
  BY <1>6, OccurrencesNone DEF Carried
<1>10. Carried(m, acc) = Occurrences(m, FlattenSeq(ch)) + Occurrences(m, cu) + Occurrences(m, pe)
  BY <1>1 DEF Carried
<1>11. Occurrences(m, FlattenSeq(ch)) \in Nat /\ Occurrences(m, cu) \in Nat /\ Occurrences(m, pe) \in Nat
  BY <1>1, CarriedType
<1> QED
  BY <1>4, <1>6, <1>7, <1>8, <1>9, <1>10, <1>11

LEMMA OwnChunkCarries ==
    ASSUME NEW acc \in Walks, NEW m
    PROVE  OwnChunk(acc) \in Walks /\ Carried(m, OwnChunk(acc)) = Carried(m, acc)
<1>1. PICK ch \in Seq(Seq(HistoryMessages)), cu \in Seq(HistoryMessages), pe \in Seq(HistoryMessages) :
        ch = acc.chunks /\ cu = acc.current /\ pe = acc.pending
  BY DEF Walks
<1>2. PICK d \in Seq(Seq(HistoryMessages)) : d = Append(ch, pe)
  BY ChunkCarried
<1>3. PICK b : b = OwnChunk(acc)
  OBVIOUS
<1>4. b = [acc EXCEPT !.chunks = d, !.pending = <<>>]
  BY <1>1, <1>2, <1>3 DEF OwnChunk
<1>5. <<>> \in Seq(HistoryMessages)
  BY EmptySeq
<1>6. b \in Walks /\ b.chunks = d /\ b.current = cu /\ b.pending = <<>>
  BY <1>1, <1>4, <1>5 DEF Walks
<1>7. Occurrences(m, FlattenSeq(d)) = Occurrences(m, FlattenSeq(ch)) + Occurrences(m, pe)
  BY <1>2, ChunkCarried
<1>8. Carried(m, b) = Occurrences(m, FlattenSeq(d)) + Occurrences(m, cu) + 0
  BY <1>6, OccurrencesNone DEF Carried
<1>9. Carried(m, acc) = Occurrences(m, FlattenSeq(ch)) + Occurrences(m, cu) + Occurrences(m, pe)
  BY <1>1 DEF Carried
<1>10. Occurrences(m, FlattenSeq(ch)) \in Nat /\ Occurrences(m, cu) \in Nat /\ Occurrences(m, pe) \in Nat
  BY <1>1, CarriedType
<1> QED
  BY <1>3, <1>6, <1>7, <1>8, <1>9, <1>10

LEMMA AddedCarries ==
    ASSUME NEW acc \in Walks, NEW x \in HistoryMessages, NEW m
    PROVE  /\ AddedTo(acc, x) \in Walks
           /\ x = m => Carried(m, AddedTo(acc, x)) = Carried(m, acc) + 1
           /\ x # m => Carried(m, AddedTo(acc, x)) = Carried(m, acc)
<1>1. PICK o : o = IF x.calls # {} /\ x.ended /\ acc.pending # <<>> THEN OwnChunk(acc) ELSE acc
  OBVIOUS
<1>2. o \in Walks /\ Carried(m, o) = Carried(m, acc)
  BY <1>1, OwnChunkCarries
<1>3. PICK b : b = AddedTo(acc, x)
  OBVIOUS
<1>4. CASE IsResult(x)
  <2>1. b = [acc EXCEPT !.pending = Append(@, x)]
    BY <1>3, <1>4 DEF AddedTo
  <2>2. acc.pending \in Seq(HistoryMessages)
    BY DEF Walks
  <2>3. PICK p \in Seq(HistoryMessages) : p = Append(acc.pending, x)
    BY <2>2, AppendProperties
  <2>4. b = [acc EXCEPT !.pending = p]
    BY <2>1, <2>3
  <2>5. b \in Walks /\ b.chunks = acc.chunks /\ b.current = acc.current /\ b.pending = p
    BY <2>4 DEF Walks
  <2>6. /\ x = m => Occurrences(m, p) = Occurrences(m, acc.pending) + 1
        /\ x # m => Occurrences(m, p) = Occurrences(m, acc.pending)
    BY <2>2, <2>3, OccurrencesAppend
  <2>7. Carried(m, b) = Occurrences(m, FlattenSeq(acc.chunks)) + Occurrences(m, acc.current) + Occurrences(m, p)
    BY <2>5 DEF Carried
  <2>8. Carried(m, acc) = Occurrences(m, FlattenSeq(acc.chunks)) + Occurrences(m, acc.current)
                          + Occurrences(m, acc.pending)
    BY DEF Carried
  <2> QED
    BY <1>3, <2>5, <2>6, <2>7, <2>8, CarriedType
<1>5. CASE ~IsResult(x)
  <2>1. b = [o EXCEPT !.current = Append(@, x), !.tokens = @ + Tokens(x)]
    BY <1>1, <1>3, <1>5 DEF AddedTo
  <2>2. o.current \in Seq(HistoryMessages) /\ o.tokens \in Nat
    BY <1>2 DEF Walks
  <2>3. PICK c \in Seq(HistoryMessages) : c = Append(o.current, x)
    BY <2>2, AppendProperties
  <2>4. PICK t \in Nat : t = o.tokens + Tokens(x)
    BY <2>2 DEF Tokens
  <2>5. b = [o EXCEPT !.current = c, !.tokens = t]
    BY <2>1, <2>3, <2>4
  <2>6. b \in Walks /\ b.chunks = o.chunks /\ b.current = c /\ b.pending = o.pending
    BY <1>2, <2>5 DEF Walks
  <2>7. /\ x = m => Occurrences(m, c) = Occurrences(m, o.current) + 1
        /\ x # m => Occurrences(m, c) = Occurrences(m, o.current)
    BY <2>2, <2>3, OccurrencesAppend
  <2>8. Carried(m, b) = Occurrences(m, FlattenSeq(o.chunks)) + Occurrences(m, c) + Occurrences(m, o.pending)
    BY <2>6 DEF Carried
  <2>9. Carried(m, o) = Occurrences(m, FlattenSeq(o.chunks)) + Occurrences(m, o.current)
                          + Occurrences(m, o.pending)
    BY DEF Carried
  <2> QED
    BY <1>2, <1>3, <2>6, <2>7, <2>8, <2>9, CarriedType
<1> QED
  BY <1>4, <1>5

-----------------------------------------------------------------------------
\* One place more.
LEMMA CountUpto ==
    ASSUME NEW S, NEW h \in Seq(S), NEW m, NEW k \in Nat, k + 1 <= Len(h)
    PROVE  /\ h[k + 1] = m => CountAt(m, h, 1..(k + 1)) = CountAt(m, h, 1..k) + 1
           /\ h[k + 1] # m => CountAt(m, h, 1..(k + 1)) = CountAt(m, h, 1..k)
<1>1. PICK n \in Nat : n = Len(h)
  BY LenProperties
<1>2. PICK A : A = PlacesWith(m, h, 1..k)
  OBVIOUS
<1>3. A = {i \in 1..k : h[i] = m}
  BY <1>1, <1>2 DEF PlacesWith
<1>4. IsFiniteSet(A)
  BY <1>2, PlacesFinite
<1>5. \A i \in 1..(k + 1) : i \in 1..k \/ i = k + 1
  OBVIOUS
<1>6. PlacesWith(m, h, 1..(k + 1)) = {i \in 1..(k + 1) : h[i] = m}
  BY <1>1 DEF PlacesWith
<1>7. ASSUME h[k + 1] = m PROVE CountAt(m, h, 1..(k + 1)) = CountAt(m, h, 1..k) + 1
  <2>1. {i \in 1..(k + 1) : h[i] = m} = A \cup {k + 1}
    BY <1>3, <1>5, <1>7
  <2>2. k + 1 \notin A
    BY <1>3
  <2>3. Cardinality(A \cup {k + 1}) = Cardinality(A) + 1
    BY <1>4, <2>2, FS_AddElement
  <2> QED
    BY <1>2, <1>6, <2>1, <2>3 DEF CountAt
<1>8. ASSUME h[k + 1] # m PROVE CountAt(m, h, 1..(k + 1)) = CountAt(m, h, 1..k)
  <2>1. {i \in 1..(k + 1) : h[i] = m} = A
    BY <1>3, <1>5, <1>8
  <2> QED
    BY <1>2, <1>6, <2>1 DEF CountAt
<1> QED
  BY <1>7, <1>8

LEMMA CountNone == ASSUME NEW h, NEW m PROVE CountAt(m, h, 1..0) = 0
<1>1. PlacesWith(m, h, 1..0) = {}
  BY DEF PlacesWith
<1> QED
  BY <1>1, FS_EmptySet DEF CountAt

\* The split takes one message more.
WalkStart == [chunks |-> <<>>, current |-> <<>>, tokens |-> 0, pending |-> <<>>]
WalkStep(target, acc, x) ==
    AddedTo(IF acc.tokens + Tokens(x) > target /\ acc.current # <<>> THEN Boundary(acc) ELSE acc, x)

LEMMA WalkStepCarries ==
    ASSUME NEW acc \in Walks, NEW x \in HistoryMessages, NEW m, NEW target
    PROVE  /\ WalkStep(target, acc, x) \in Walks
           /\ x = m => Carried(m, WalkStep(target, acc, x)) = Carried(m, acc) + 1
           /\ x # m => Carried(m, WalkStep(target, acc, x)) = Carried(m, acc)
<1>1. PICK o : o = IF acc.tokens + Tokens(x) > target /\ acc.current # <<>> THEN Boundary(acc) ELSE acc
  OBVIOUS
<1>2. o \in Walks /\ Carried(m, o) = Carried(m, acc)
  BY <1>1, BoundaryCarries
<1>3. WalkStep(target, acc, x) = AddedTo(o, x)
  BY <1>1 DEF WalkStep
<1> QED
  BY <1>2, <1>3, AddedCarries

LEMMA WalkStartCarries ==
    ASSUME NEW m
    PROVE  WalkStart \in Walks /\ Carried(m, WalkStart) = 0
<1>1. <<>> \in Seq(HistoryMessages) /\ <<>> \in Seq(Seq(HistoryMessages))
  BY EmptySeq
<1>2. /\ WalkStart \in Walks /\ WalkStart.chunks = <<>> /\ WalkStart.current = <<>>
      /\ WalkStart.pending = <<>>
  BY <1>1 DEF WalkStart, Walks
<1>3. Carried(m, WalkStart) = 0 + 0 + 0
  BY <1>2, FlattenEmpty, OccurrencesNone DEF Carried
<1> QED
  BY <1>2, <1>3

\* What the split leaves after the last message.
SplitAfter(h, w) ==
    IF Len(h) <= parts THEN [i \in 1..Len(h) |-> <<h[i]>>]
    ELSE IF w.current \o w.pending = <<>> THEN w.chunks ELSE Append(w.chunks, w.current \o w.pending)
Walked(h, w) ==
    /\ w \in Walks /\ \A m : Carried(m, w) = Occurrences(m, h)
    /\ SplitByTokenShare(h) = SplitAfter(h, w)

LEMMA SplitWalks ==
    ASSUME NEW h \in Seq(HistoryMessages)
    PROVE  \E w : Walked(h, w)
<1> DEFINE target == TokensOf(h) \div parts
           step(k, acc) == AddedTo(IF acc.tokens + Tokens(h[k]) > target /\ acc.current # <<>>
                                 THEN Boundary(acc) ELSE acc, h[k])
           Runs(f) == f = [k \in 0..Len(h) |-> IF k = 0 THEN WalkStart ELSE step(k, f[k - 1])]
<1>1. PICK N \in Nat : N = Len(h)
  BY LenProperties
<1>2. ASSUME NEW k \in 1..N, NEW acc \in Walks, NEW m
      PROVE  /\ step(k, acc) \in Walks
             /\ h[k] = m => Carried(m, step(k, acc)) = Carried(m, acc) + 1
             /\ h[k] # m => Carried(m, step(k, acc)) = Carried(m, acc)
  <2>1. PICK x \in HistoryMessages : x = h[k]
    BY <1>1, ElementOfSeq
  <2>2. PICK t : t = target
    OBVIOUS
  <2>3. step(k, acc) = WalkStep(t, acc, x)
    BY <2>1, <2>2 DEF WalkStep
  <2> HIDE DEF step
  <2> QED
    BY <2>1, <2>3, WalkStepCarries
<1>3. \E f : Runs(f)
  <2> DEFINE F == [p \in (1..N) \X Walks |-> step(p[1], p[2])]
  <2>1. WalkStart \in Walks
    BY WalkStartCarries
  <2> HIDE DEF step
  <2>2. F \in [(1..N) \X Walks -> Walks]
    BY <1>2
  <2>3. \A k \in 1..N, x \in Walks : F[<<k, x>>] = step(k, x)
    OBVIOUS
  <2> HIDE DEF F
  <2>4. PICK f \in [0..N -> Walks] : Stepping(f, N, WalkStart, F)
    BY <2>1, <2>2, Steps
  <2>5. \A k \in 0..N : f[k] = IF k = 0 THEN WalkStart ELSE step(k, f[k - 1])
    <3>1. ASSUME NEW k \in 1..N
          PROVE  f[k] = step(k, f[k - 1])
      <4>1. f[k - 1] \in Walks
        OBVIOUS
      <4> QED
        BY <2>3, <2>4, <4>1 DEF Stepping
    <3>2. f[0] = WalkStart
      BY <2>4 DEF Stepping
    <3>3. \A k \in 0..N : k = 0 \/ k \in 1..N
      OBVIOUS
    <3> QED
      BY <3>1, <3>2, <3>3
  <2>6. f = [k \in 0..N |-> f[k]]
    OBVIOUS
  <2> QED
    BY <1>1, <2>5, <2>6
<1> DEFINE g == CHOOSE f : Runs(f)
<1>4. Runs(g)
  BY <1>3
<1>5. SplitByTokenShare(h) = SplitAfter(h, g[Len(h)])
  BY DEF SplitByTokenShare, SplitAfter, WalkStart
<1> HIDE DEF g, step
<1>6. \A k \in 0..N : g[k] = IF k = 0 THEN WalkStart ELSE step(k, g[k - 1])
  BY <1>1, <1>4
<1>7. g[0] = WalkStart /\ \A k \in 1..N : g[k] = step(k, g[k - 1])
  BY <1>6
<1>8. ASSUME NEW m
      PROVE  g[N] \in Walks /\ Carried(m, g[N]) = CountAt(m, h, 1..N)
  <2> DEFINE T == {k \in 0..N : g[k] \in Walks /\ Carried(m, g[k]) = CountAt(m, h, 1..k)}
  <2>1. 0 \in T
    BY <1>7, WalkStartCarries, CountNone
  <2>2. ASSUME NEW k \in 0..(N - 1), k \in T
        PROVE  k + 1 \in T
    <3>1. k + 1 \in 1..N /\ (k + 1) - 1 = k /\ k \in Nat /\ k + 1 \in 0..N
      OBVIOUS
    <3>2. g[k] \in Walks /\ Carried(m, g[k]) = CountAt(m, h, 1..k)
      BY <2>2
    <3>3. g[k + 1] = step(k + 1, g[k])
      BY <1>7, <3>1
    <3>4. /\ g[k + 1] \in Walks
          /\ h[k + 1] = m => Carried(m, g[k + 1]) = Carried(m, g[k]) + 1
          /\ h[k + 1] # m => Carried(m, g[k + 1]) = Carried(m, g[k])
      BY <1>2, <3>1, <3>2, <3>3
    <3>5. /\ h[k + 1] = m => CountAt(m, h, 1..(k + 1)) = CountAt(m, h, 1..k) + 1
          /\ h[k + 1] # m => CountAt(m, h, 1..(k + 1)) = CountAt(m, h, 1..k)
      BY <1>1, <3>1, CountUpto
    <3>6. Carried(m, g[k + 1]) = CountAt(m, h, 1..(k + 1))
      BY <3>2, <3>4, <3>5
    <3> QED
      BY <3>1, <3>4, <3>6
  <2> HIDE DEF T
  <2>3. 0..N \subseteq T
    BY <2>1, <2>2, Induction
  <2>4. N \in T
    BY <2>3
  <2> QED
    BY <2>4 DEF T
<1>9. ASSUME NEW m PROVE CountAt(m, h, 1..N) = Occurrences(m, h)
  <2>1. PlacesWith(m, h, 1..N) = {i \in 1..Len(h) : h[i] = m}
    BY <1>1 DEF PlacesWith
  <2> QED
    BY <2>1 DEF CountAt, Occurrences
<1>10. PICK w : w = g[N]
  OBVIOUS
<1>11. w \in Walks
  BY <1>8, <1>10
<1>12. \A m : Carried(m, w) = Occurrences(m, h)
  BY <1>8, <1>9, <1>10
<1>13. SplitByTokenShare(h) = SplitAfter(h, w)
  BY <1>1, <1>5, <1>10
<1>14. Walked(h, w)
  BY <1>11, <1>12, <1>13 DEF Walked
<1> QED
  BY <1>14

\* The chunks have every message as often as what was split.
LEMMA SplitKeeps ==
    ASSUME NEW h \in Seq(HistoryMessages), NEW m
    PROVE  Occurrences(m, FlattenSeq(SplitByTokenShare(h))) = Occurrences(m, h)
<1>1. PICK w : Walked(h, w)
  BY SplitWalks
<1>2. w \in Walks /\ Carried(m, w) = Occurrences(m, h) /\ SplitByTokenShare(h) = SplitAfter(h, w)
  BY <1>1 DEF Walked
<1>3. PICK s : s = SplitByTokenShare(h)
  OBVIOUS
<1>4. CASE Len(h) <= parts
  <2>1. s = Singles(h)
    BY <1>2, <1>3, <1>4 DEF SplitAfter, Singles
  <2> QED
    BY <1>3, <2>1, FlattenSingles
<1>5. CASE ~(Len(h) <= parts)
  <2>1. PICK ch \in Seq(Seq(HistoryMessages)), cu \in Seq(HistoryMessages), pe \in Seq(HistoryMessages) :
          ch = w.chunks /\ cu = w.current /\ pe = w.pending
    BY <1>2 DEF Walks
  <2>2. PICK last \in Seq(HistoryMessages) : last = cu \o pe
    BY ConcatProperties
  <2>3. Occurrences(m, last) = Occurrences(m, cu) + Occurrences(m, pe)
    BY <2>2, OccurrencesConcat
  <2>4. Occurrences(m, h) = Occurrences(m, FlattenSeq(ch)) + Occurrences(m, cu) + Occurrences(m, pe)
    BY <1>2, <2>1 DEF Carried
  <2>5. Occurrences(m, FlattenSeq(ch)) \in Nat /\ Occurrences(m, cu) \in Nat /\ Occurrences(m, pe) \in Nat
    BY <1>2, <2>1, CarriedType
  <2>6. CASE last = <<>>
    <3>1. s = ch
      BY <1>2, <1>3, <1>5, <2>1, <2>2, <2>6 DEF SplitAfter
    <3>2. Occurrences(m, last) = 0
      BY <2>6, OccurrencesNone
    <3> QED
      BY <1>3, <2>3, <2>4, <2>5, <3>1, <3>2
  <2>7. CASE last # <<>>
    <3>1. s = Append(ch, last)
      BY <1>2, <1>3, <1>5, <2>1, <2>2, <2>7 DEF SplitAfter
    <3>2. Occurrences(m, FlattenSeq(Append(ch, last))) = Occurrences(m, FlattenSeq(ch)) + Occurrences(m, last)
      BY ChunkCarried
    <3> QED
      BY <1>3, <2>3, <2>4, <2>5, <3>1, <3>2
  <2> QED
    BY <2>6, <2>7
<1> QED
  BY <1>4, <1>5

-----------------------------------------------------------------------------
(* Compaction: the inductive invariant. *)

\* The messages of a history are numbered, and what run_compaction returned is made of them.
CompactedFrom(h, c) ==
    /\ c.pruned = PruneWithStrategies(h)
    /\ c.repaired = RepairToolPairing(c.pruned)
    /\ c.preserved = Preserved(c.repaired)
    /\ \/ c.chunks = <<Summarizable(c.repaired)>>
       \/ c.chunks = SplitByTokenShare(Summarizable(c.repaired))
CountedUp(h) == h \in Seq(HistoryMessages) /\ \A i \in 1..Len(h) : h[i].n = i
CompactionInv ==
    /\ CountedUp(history)
    /\ compacted.summary = "never" => compacted.repaired = <<>>
    /\ compacted.summary # "never" => CompactedFrom(history, compacted)

LEMMA NumberedAppend ==
    ASSUME NEW h, CountedUp(h), NEW x \in HistoryMessages, x.n = Len(h) + 1
    PROVE  CountedUp(Append(h, x))
<1>1. PICK n \in Nat : n = Len(h) /\ h \in Seq(HistoryMessages) /\ \A i \in 1..n : h[i].n = i
  BY LenProperties DEF CountedUp
<1>2. PICK t : t = Append(h, x)
  OBVIOUS
<1>3. t \in Seq(HistoryMessages) /\ Len(t) = n + 1 /\ t[n + 1] = x /\ \A i \in 1..n : t[i] = h[i]
  BY <1>1, <1>2, AppendProperties
<1>4. \A i \in 1..(n + 1) : t[i].n = i
  <2> TAKE i \in 1..(n + 1)
  <2>1. i \in 1..n \/ i = n + 1
    OBVIOUS
  <2> QED
    BY <1>1, <1>3, <2>1
<1> QED
  BY <1>2, <1>3, <1>4 DEF CountedUp

LEMMA NumberedInOrder ==
    ASSUME NEW h, CountedUp(h)
    PROVE  InOrder(h)
<1>1. Len(h) \in Nat
  BY LenProperties DEF CountedUp
<1> QED
  BY <1>1 DEF CountedUp, InOrder

\* What a message of the conversation may be.
LEMMA MessageType ==
    ASSUME NEW n \in Nat, n = Len(history), NEW role \in {"system", "user", "assistant", "toolResult"},
           NEW text \in HistoryTexts
    PROVE  /\ Message(role, text) \in HistoryMessages /\ Message(role, text).n = n + 1
           /\ Message(role, text).role = role
BY DEF Message, HistoryMessages

LEMMA SaidIsNumbered ==
    ASSUME CompactionInv, NEW m \in HistoryMessages, m.n = Len(history) + 1, Say(m)
    PROVE  CompactionInv'
<1>1. CountedUp(history) /\ history' = Append(history, m) /\ compacted' = compacted /\ compacted.summary = "never"
  BY DEF CompactionInv, Say
<1>2. CountedUp(history')
  BY <1>1, NumberedAppend
<1> QED
  BY <1>1, <1>2 DEF CompactionInv

LEMMA UnansweredAre ==
    ASSUME CompactionInv
    PROVE  Unanswered \subseteq CallIds
<1>1. \A i \in 1..Len(history) : history[i].calls \subseteq CallIds
  <2> TAKE i \in 1..Len(history)
  <2>1. history[i] \in HistoryMessages
    BY ElementOfSeq DEF CompactionInv, CountedUp
  <2> QED
    BY <2>1 DEF HistoryMessages
<1> QED
  BY <1>1 DEF Unanswered

LEMMA CompactionInvInit == CompactionInit => CompactionInv
<1> SUFFICES ASSUME CompactionInit PROVE CompactionInv
  OBVIOUS
<1>1. history = <<>> /\ compacted.summary = "never" /\ compacted.repaired = <<>>
  BY DEF CompactionInit
<1>2. CountedUp(history)
  BY <1>1, EmptySeq DEF CountedUp
<1> QED
  BY <1>1, <1>2 DEF CompactionInv

LEMMA CompactionInvStep == CompactionInv /\ [CompactionNext]_compactionVars => CompactionInv'
<1> SUFFICES ASSUME CompactionInv, [CompactionNext]_compactionVars PROVE CompactionInv'
  OBVIOUS
<1>1. PICK n \in Nat : n = Len(history)
  BY LenProperties DEF CompactionInv, CountedUp
<1>2. Texts \subseteq HistoryTexts /\ Plain \in HistoryTexts
  BY DEF HistoryTexts
<1>3. CASE AddMessage
  <2>1. ASSUME Say(Message("system", Plain)) PROVE CompactionInv'
    <3>1. Message("system", Plain) \in HistoryMessages /\ Message("system", Plain).n = n + 1
      BY <1>1, <1>2, MessageType
    <3> QED
      BY <1>1, <2>1, <3>1, SaidIsNumbered
  <2>2. ASSUME NEW text \in Texts, Say(Message("user", text)) PROVE CompactionInv'
    <3>1. Message("user", text) \in HistoryMessages /\ Message("user", text).n = n + 1
      BY <1>1, <1>2, MessageType
    <3> QED
      BY <1>1, <2>2, <3>1, SaidIsNumbered
  <2> QED
    BY <1>3, <2>1, <2>2 DEF AddMessage
<1>4. CASE AddAssistant
  <2>1. ASSUME NEW text \in Texts, Say(Message("assistant", text)) PROVE CompactionInv'
    <3>1. Message("assistant", text) \in HistoryMessages /\ Message("assistant", text).n = n + 1
      BY <1>1, <1>2, MessageType
    <3> QED
      BY <1>1, <2>1, <3>1, SaidIsNumbered
  <2>2. ASSUME NEW calls \in (SUBSET CallIds) \ {{}}, NEW ended \in BOOLEAN,
               Say([Message("assistant", Plain) EXCEPT !.calls = calls, !.ended = ended])
        PROVE  CompactionInv'
    <3>1. PICK b : b = Message("assistant", Plain)
      OBVIOUS
    <3>2. b \in HistoryMessages /\ b.n = n + 1 /\ b.role = "assistant"
      BY <1>1, <1>2, <3>1, MessageType
    <3>3. PICK m : m = [b EXCEPT !.calls = calls, !.ended = ended]
      OBVIOUS
    <3>4. m \in HistoryMessages /\ m.n = n + 1
      BY <3>2, <3>3 DEF HistoryMessages
    <3>5. Say(m)
      BY <2>2, <3>1, <3>3
    <3> QED
      BY <1>1, <3>4, <3>5, SaidIsNumbered
  <2> QED
    BY <1>4, <2>1, <2>2 DEF AddAssistant
<1>5. CASE AddResult
  <2>1. PICK id : id = CHOOSE least \in Unanswered : \A other \in Unanswered : least <= other
    OBVIOUS
  <2>2. id \in Nat
    <3>1. Unanswered \in SUBSET Nat /\ Unanswered # {}
      BY <1>5, UnansweredAre, CompactionAssumption DEF AddResult
    <3>2. \E x \in Unanswered : \A other \in Unanswered : x <= other
      BY <3>1, LeastNumber
    <3> QED
      BY <2>1, <3>1, <3>2
  <2>3. PICK text \in Texts, error \in BOOLEAN :
          Say([Message("toolResult", text) EXCEPT !.call = id, !.error = error])
    BY <1>5, <2>1 DEF AddResult
  <2>4. PICK b : b = Message("toolResult", text)
    OBVIOUS
  <2>5. b \in HistoryMessages /\ b.n = n + 1
    BY <1>1, <1>2, <2>4, MessageType
  <2>6. PICK m : m = [b EXCEPT !.call = id, !.error = error]
    OBVIOUS
  <2>7. m \in HistoryMessages /\ m.n = n + 1
    BY <2>2, <2>5, <2>6 DEF HistoryMessages
  <2>8. Say(m)
    BY <2>3, <2>4, <2>6
  <2> QED
    BY <1>1, <2>7, <2>8, SaidIsNumbered
<1>6. CASE RunCompaction
  <2>1. PICK p : p = PruneWithStrategies(history)
    OBVIOUS
  <2>2. PICK r : r = RepairToolPairing(p)
    OBVIOUS
  <2>3. PICK rest : rest = Summarizable(r)
    OBVIOUS
  <2>4. PICK kept : kept = Preserved(r)
    OBVIOUS
  <2>5. PICK split : split = SplitByTokenShare(rest)
    OBVIOUS
  <2>6. history' = history
    BY <1>6 DEF RunCompaction
  <2>7. \E summary \in {"", "made", "failed"}, chunks \in {<<rest>>, split} :
          compacted' = [pruned |-> p, repaired |-> r, preserved |-> kept, chunks |-> chunks, summary |-> summary]
    BY <1>6, <2>1, <2>2, <2>3, <2>4, <2>5 DEF RunCompaction
  <2>8. PICK summary \in {"", "made", "failed"}, chunks \in {<<rest>>, split} :
          compacted' = [pruned |-> p, repaired |-> r, preserved |-> kept, chunks |-> chunks, summary |-> summary]
    BY <2>7
  <2>9. PICK c : c = compacted'
    OBVIOUS
  <2>10. c.pruned = p /\ c.repaired = r /\ c.preserved = kept /\ c.chunks = chunks /\ c.summary # "never"
    BY <2>8, <2>9
  <2>11. CompactedFrom(history, c)
    BY <2>1, <2>2, <2>3, <2>4, <2>5, <2>8, <2>10 DEF CompactedFrom
  <2>12. CountedUp(history')
    BY <2>6 DEF CompactionInv
  <2> QED
    BY <2>6, <2>9, <2>10, <2>11, <2>12 DEF CompactionInv
<1>7. CASE UNCHANGED compactionVars
  <2>1. history' = history /\ compacted' = compacted
    BY <1>7 DEF compactionVars
  <2> QED
    BY <2>1 DEF CompactionInv
<1> QED
  BY <1>3, <1>4, <1>5, <1>6, <1>7 DEF CompactionNext

-----------------------------------------------------------------------------
(* Compaction: the properties. *)

LEMMA InvCriticalSurvive == CompactionInv => CriticalSurvive
<1> SUFFICES ASSUME CompactionInv, compacted.summary # "never"
             PROVE  /\ \A i \in 1..Len(history) :
                          IsCritical(history[i]) => history[i].n \in Numbers(compacted.pruned)
                    /\ \A i, j \in 1..Len(compacted.pruned) :
                          i < j => compacted.pruned[i].n < compacted.pruned[j].n
  BY DEF CriticalSurvive
<1>1. PICK p : p = PruneWithStrategies(history)
  OBVIOUS
<1>2. compacted.pruned = p
  BY <1>1 DEF CompactionInv, CompactedFrom
<1>3. history \in Seq(HistoryMessages) /\ InOrder(history)
  BY NumberedInOrder DEF CompactionInv, CountedUp
<1>4. InOrder(p) /\ \A m : Holds(m, history) /\ IsCritical(m) => Holds(m, p)
  BY <1>1, <1>3, PruningKeeps
<1>5. ASSUME NEW i \in 1..Len(history), IsCritical(history[i])
      PROVE  history[i].n \in Numbers(p)
  <2>1. PICK m : m = history[i]
    OBVIOUS
  <2>2. Holds(m, history) /\ IsCritical(m)
    BY <1>5, <2>1 DEF Holds
  <2>3. PICK k \in 1..Len(p) : p[k] = m
    BY <1>4, <2>2 DEF Holds
  <2> QED
    BY <2>1, <2>3 DEF Numbers
<1>6. \A i, j \in 1..Len(p) : i < j => p[i].n < p[j].n
  BY <1>4 DEF InOrder
<1> QED
  BY <1>2, <1>5, <1>6

LEMMA RepairedType ==
    ASSUME CompactionInv
    PROVE  compacted.repaired \in Seq(HistoryMessages) /\ AllAnswered(compacted.repaired)
<1>1. CASE compacted.summary = "never"
  <2>1. compacted.repaired = <<>>
    BY <1>1 DEF CompactionInv
  <2>2. <<>> \in Seq(HistoryMessages) /\ AllAnswered(<<>>)
    BY EmptySeq DEF AllAnswered
  <2> QED
    BY <2>1, <2>2
<1>2. CASE compacted.summary # "never"
  <2>1. history \in Seq(HistoryMessages) /\ InOrder(history)
    BY NumberedInOrder DEF CompactionInv, CountedUp
  <2>2. PICK p \in Seq(HistoryMessages) : p = PruneWithStrategies(history)
    BY <2>1, PruningKeeps
  <2>3. compacted.repaired = RepairToolPairing(p)
    BY <1>2, <2>2 DEF CompactionInv, CompactedFrom
  <2> QED
    BY <2>3, RepairAnswers
<1> QED
  BY <1>1, <1>2

\* What CallsAnswered says of a place.
AnsweredAfter(s, i) ==
    LET m == s[i]
        answers == SubSeq(s, i + 1, i + Cardinality(m.calls))
    IN  m.calls # {} =>
          /\ i + Cardinality(m.calls) <= Len(s)
          /\ \A id \in m.calls : \E k \in 1..Len(answers) : IsResult(answers[k]) /\ answers[k].call = id

LEMMA InvCallsAnswered == CompactionInv => CallsAnswered
<1> SUFFICES ASSUME CompactionInv PROVE CallsAnswered
  OBVIOUS
<1>1. PICK s : s = compacted.repaired
  OBVIOUS
<1>2. s \in Seq(HistoryMessages) /\ AllAnswered(s)
  BY <1>1, RepairedType
<1>3. ASSUME NEW i \in 1..Len(s), s[i].calls # {}
      PROVE  /\ i + Cardinality(s[i].calls) <= Len(s)
             /\ \A id \in s[i].calls :
                   \E k \in 1..Len(SubSeq(s, i + 1, i + Cardinality(s[i].calls))) :
                      /\ IsResult(SubSeq(s, i + 1, i + Cardinality(s[i].calls))[k])
                      /\ SubSeq(s, i + 1, i + Cardinality(s[i].calls))[k].call = id
  <2>1. s[i] \in HistoryMessages
    BY <1>2, ElementOfSeq
  <2>2. PICK N \in Nat : N = Cardinality(s[i].calls)
    BY <2>1, FewCalls
  <2>3. /\ i + N <= Len(s)
        /\ \A id \in s[i].calls : \E k \in 1..N : IsResult(s[i + k]) /\ s[i + k].call = id
    BY <1>2, <1>3, <2>2 DEF AllAnswered, AnsweredAt
  <2>4. PICK a : a = SubSeq(s, i + 1, i + N)
    OBVIOUS
  <2>5. Len(a) = N /\ \A k \in 1..N : a[k] = s[i + k]
    <3>1. i + 1 \in 1..(Len(s) + 1) /\ i + N \in i..Len(s)
      BY <1>2, <2>3, LenProperties
    <3>2. a = [k \in 1..N |-> s[i + k]]
      BY <1>2, <2>4, <3>1
    <3>3. Len(a) = N
      BY <1>2, <2>4, <3>1
    <3> QED
      BY <3>2, <3>3
  <2>6. \A id \in s[i].calls : \E k \in 1..Len(a) : IsResult(a[k]) /\ a[k].call = id
    <3> TAKE id \in s[i].calls
    <3>1. PICK k \in 1..N : IsResult(s[i + k]) /\ s[i + k].call = id
      BY <2>3
    <3> QED
      BY <2>5, <3>1
  <2> QED
    BY <2>2, <2>3, <2>4, <2>6
<1>4. \A i \in 1..Len(s) : AnsweredAfter(s, i)
  BY <1>3 DEF AnsweredAfter
<1>5. CallsAnswered <=> \A i \in 1..Len(compacted.repaired) : AnsweredAfter(compacted.repaired, i)
  BY DEF CallsAnswered, AnsweredAfter
<1> QED
  BY <1>1, <1>4, <1>5

LEMMA InvNothingLost == CompactionInv => NothingLost
<1> SUFFICES ASSUME CompactionInv, NEW i \in 1..Len(compacted.repaired), NEW m, m = compacted.repaired[i]
             PROVE  Occurrences(m, compacted.repaired)
                    = Occurrences(m, compacted.preserved) + Occurrences(m, FlattenSeq(compacted.chunks))
  BY DEF NothingLost
<1>1. compacted.summary # "never"
  BY DEF CompactionInv
<1>2. PICK r \in Seq(HistoryMessages) : r = compacted.repaired
  BY RepairedType
<1>3. PICK rest \in Seq(HistoryMessages) : rest = Summarizable(r)
  BY PreservedAndSummarized
<1>4. /\ compacted.preserved = Preserved(r)
      /\ compacted.chunks = <<rest>> \/ compacted.chunks = SplitByTokenShare(rest)
  BY <1>1, <1>2, <1>3 DEF CompactionInv, CompactedFrom
<1>5. Occurrences(m, FlattenSeq(compacted.chunks)) = Occurrences(m, rest)
  <2>1. CASE compacted.chunks = <<rest>>
    <3>1. FlattenSeq(<<rest>>) = rest
      BY FlattenOne
    <3> QED
      BY <2>1, <3>1
  <2>2. CASE compacted.chunks = SplitByTokenShare(rest)
    BY <2>2, SplitKeeps
  <2> QED
    BY <1>4, <2>1, <2>2
<1>6. Occurrences(m, r) = Occurrences(m, Preserved(r)) + Occurrences(m, rest)
  BY <1>3, PreservedAndSummarized
<1> QED
  BY <1>2, <1>4, <1>5, <1>6

\* The outcome of every compaction, of histories of any length: every decision and every failure
\* is still there and in its order, each call of the repaired history has its result right after
\* it, and each of its messages is preserved or in one chunk, as often as it was there.
THEOREM CompactionIsSound == CompactionSpec => []CompactionSound
<1>1. CompactionInv => CompactionSound
  BY InvCriticalSurvive, InvCallsAnswered, InvNothingLost DEF CompactionSound
<1> QED
  BY <1>1, CompactionInvInit, CompactionInvStep, PTL DEF CompactionSpec

=============================================================================
