------------------------------ MODULE McpPipe -------------------------------
(***************************************************************************)
(* The requests of one MCP client to its process (McpClient._rpc in        *)
(* mcp/client.py).  A request is a line written to the process, its answer *)
(* is the next line read: ids are sent and never compared, and nothing     *)
(* keeps two calls apart.  The process answers in order, and may write     *)
(* lines that nobody asked for: notifications, requests of its own, logs.  *)
(***************************************************************************)
EXTENDS Naturals, Sequences

CONSTANTS
    RpcCallers,   \* the tasks that call tools of the server
    NoCaller,
    MaxRpcs,      \* bound on the requests
    MaxUnasked    \* bound on the lines nobody asked for

ASSUME PipeAssumption == NoCaller \notin RpcCallers /\ MaxRpcs \in Nat /\ MaxUnasked \in Nat

VARIABLES
    rpc,      \* each caller: where it is in _rpc, its request, the line it took, whether no
              \* other call was under way during its own, and whether one had left lines behind
    stdin,    \* requests the process has not answered
    stdout,   \* lines in the buffer of the reader, by the request they answer
    waiter,   \* the caller StreamReader lets wait for data; it takes one
    rpcs,     \* the requests so far
    unasked   \* the lines so far that nobody asked for

pipeVars == <<rpc, stdin, stdout, waiter, rpcs, unasked>>

Unasked == 0     \* such a line: it answers no request

UnderWay(t) == rpc[t].place \in {"draining", "reading"}
Quiet       == \A t \in RpcCallers : ~UnderWay(t)

-----------------------------------------------------------------------------
PipeInit ==
    /\ rpc = [t \in RpcCallers |->
                 [place |-> "idle", id |-> 0, answer |-> 0, alone |-> FALSE, late |-> FALSE]]
    /\ stdin = <<>>
    /\ stdout = <<>>
    /\ waiter = NoCaller
    /\ rpcs = 0
    /\ unasked = 0

\* The line is written at once; drain may wait for room.
Rpc(t) ==
    /\ ~UnderWay(t)
    /\ rpcs < MaxRpcs
    /\ rpcs' = rpcs + 1
    /\ stdin' = Append(stdin, rpcs + 1)
    /\ rpc' = [u \in RpcCallers |->
                 IF u = t
                 THEN [place |-> "draining", id |-> rpcs + 1, answer |-> 0, alone |-> Quiet,
                       late |-> stdin # <<>> \/ stdout # <<>>]
                 ELSE [rpc[u] EXCEPT !.alone = rpc[u].alone /\ ~UnderWay(u)]]
    /\ UNCHANGED <<stdout, waiter, unasked>>

Drained(t) ==
    /\ rpc[t].place = "draining"
    /\ rpc' = [rpc EXCEPT ![t].place = "reading"]
    /\ UNCHANGED <<stdin, stdout, waiter, rpcs, unasked>>

\* readline takes a line that is there, whoever waited for it; without one it waits, or raises
\* if somebody waits already.
ReadLine(t) ==
    /\ rpc[t].place = "reading"
    /\ waiter # t
    /\ IF stdout # <<>>
       THEN /\ rpc' = [rpc EXCEPT ![t].place = "answered", ![t].answer = Head(stdout)]
            /\ stdout' = Tail(stdout)
            /\ UNCHANGED waiter
       ELSE IF waiter = NoCaller
       THEN /\ waiter' = t
            /\ UNCHANGED <<rpc, stdout>>
       ELSE /\ rpc' = [rpc EXCEPT ![t].place = "idle"]
            /\ UNCHANGED <<stdout, waiter>>
    /\ UNCHANGED <<stdin, rpcs, unasked>>

\* The process answers the request that is next, which wakes the waiter.
Answer ==
    /\ stdin # <<>>
    /\ stdout' = Append(stdout, Head(stdin))
    /\ stdin' = Tail(stdin)
    /\ waiter' = NoCaller
    /\ UNCHANGED <<rpc, rpcs, unasked>>

\* The process writes a line of its own accord.
Speak ==
    /\ unasked < MaxUnasked
    /\ unasked' = unasked + 1
    /\ stdout' = Append(stdout, Unasked)
    /\ waiter' = NoCaller
    /\ UNCHANGED <<rpc, stdin, rpcs>>

\* Mutant of GiveUp: a call that ran out of time sends a new request and reads on.
GiveUpOrRetry(t) ==
    /\ UnderWay(t)
    /\ rpcs < MaxRpcs
    /\ rpcs' = rpcs + 1
    /\ stdin' = Append(stdin, rpcs + 1)
    /\ rpc' = [rpc EXCEPT ![t].place = "draining", ![t].id = rpcs + 1]
    /\ waiter' = IF waiter = t THEN NoCaller ELSE waiter
    /\ UNCHANGED <<stdout, unasked>>

\* wait_for, the timeout of the activation around it, a cancellation, or the end of the output:
\* an answer stays to be read.
GiveUp(t) ==
    /\ UnderWay(t)
    /\ rpc' = [rpc EXCEPT ![t].place = "idle"]
    /\ waiter' = IF waiter = t THEN NoCaller ELSE waiter
    /\ UNCHANGED <<stdin, stdout, rpcs, unasked>>

PipeNext ==
    \/ Answer \/ Speak
    \/ \E t \in RpcCallers : Rpc(t) \/ Drained(t) \/ ReadLine(t) \/ GiveUp(t)

PipeSpec == PipeInit /\ [][PipeNext]_pipeVars

-----------------------------------------------------------------------------
\* Positions are all that matches answers to requests (client.py:97-109).  A call during which
\* no other is under way takes its own answer, or a line nobody asked for, if the pipe was
\* empty as it began; if anything was left there, by a call that was given up, by two that
\* overlapped or by the process itself, it never takes its own, however often one calls again.
AnswersMatch ==
    \A t \in RpcCallers :
        rpc[t].place = "answered" /\ rpc[t].alone =>
            /\ ~rpc[t].late => rpc[t].answer \in {rpc[t].id, Unasked}
            /\ rpc[t].late => rpc[t].answer # rpc[t].id

=============================================================================
