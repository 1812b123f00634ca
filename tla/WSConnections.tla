--------------------------- MODULE WSConnections ----------------------------
(***************************************************************************)
(* WSConnectionManager (api/ws.py): who gets what is pushed to a session   *)
(* by turns that no handler started (api/relay.py, api/skills_api.py) and  *)
(* by the notification broadcast (main.py).                                *)
(*                                                                         *)
(* Nothing awaits inside the manager's lock, so taking it never suspends   *)
(* and connect, disconnect and the stamping of a message are atomic.  The  *)
(* sends are not: a push goes through a copy of the connections and awaits *)
(* each, while others come, go and push.                                   *)
(***************************************************************************)
EXTENDS Integers, Sequences, FiniteSets, SequencesExt

CONSTANTS
    Connections,  \* WebSocket objects, each of which connects once
    Pushers,      \* the turns and broadcasts that push to the session
    MaxPushes     \* bound on the messages of all of them

ASSUME ConnectionsAssumption ==
    /\ IsFiniteSet(Connections)
    /\ MaxPushes \in Nat

VARIABLES
    link,     \* each connection: not there yet, open, broken, or its handler has returned
    active,   \* active_connections of the session; the entry exists while it is not empty
    counter,  \* _seq_counters of the session, 0 where there is no entry
    push,     \* what each pusher is sending, and to whom it still has to
    inbox     \* what each connection has received

connectionVars == <<link, active, counter, push, inbox>>

-----------------------------------------------------------------------------

ConnectionsInit ==
    /\ link = [c \in Connections |-> "out"]
    /\ active = {}
    /\ counter = 0
    /\ push = [p \in Pushers |-> [n |-> 0, seq |-> 0, left |-> {}]]
    /\ inbox = [c \in Connections |-> <<>>]

\* Every connection resets the counter.
AddConnectionResetting(c) ==
    /\ link[c] = "out"
    /\ link' = [link EXCEPT ![c] = "open"]
    /\ counter' = 0
    /\ active' = active \cup {c}
    /\ UNCHANGED <<push, inbox>>

\* A first connection finds no entry and resets the counter.
AddConnection(c) ==
    /\ link[c] = "out"
    /\ link' = [link EXCEPT ![c] = "open"]
    /\ counter' = IF active = {} THEN 0 ELSE counter
    /\ active' = active \cup {c}
    /\ UNCHANGED <<push, inbox>>

\* The socket breaks; until its handler notices, pushes are still tried and fail.
Break(c) ==
    /\ link[c] = "open"
    /\ link' = [link EXCEPT ![c] = "broken"]
    /\ UNCHANGED <<active, counter, push, inbox>>

RemoveConnection(c) ==
    /\ link[c] = "broken"
    /\ link' = [link EXCEPT ![c] = "left"]
    /\ active' = active \ {c}
    /\ counter' = IF active' = {} THEN 0 ELSE counter
    /\ UNCHANGED <<push, inbox>>

\* The messages pushed so far.
Pushed == FoldFunction(LAMBDA p, sum : p.n + sum, 0, push)

\* send_to_session: nobody there, nothing sent.  A message that has the field already (every
\* event with WSSeqMixin has seq 0) keeps it, the others get the next number.
SendToSession(p) ==
    /\ push[p].left = {}
    /\ Pushed < MaxPushes
    /\ \E stamped \in BOOLEAN :
          LET seq == IF stamped /\ active # {} THEN counter + 1 ELSE 0 IN
          /\ counter' = IF stamped /\ active # {} THEN counter + 1 ELSE counter
          /\ push' = [push EXCEPT ![p] = [n |-> push[p].n + 1, seq |-> seq, left |-> active]]
    /\ UNCHANGED <<link, active, inbox>>

\* One send of the loop, in any order; a failure is logged.
SendJson(p, c) ==
    /\ c \in push[p].left
    /\ push' = [push EXCEPT ![p].left = @ \ {c}]
    /\ inbox' = IF link[c] = "open"
                THEN [inbox EXCEPT ![c] = Append(@, [from |-> p, n |-> push[p].n, seq |-> push[p].seq])]
                ELSE inbox
    /\ UNCHANGED <<link, active, counter>>

ConnectionsNext ==
    \/ \E c \in Connections : AddConnection(c) \/ Break(c) \/ RemoveConnection(c)
    \/ \E p \in Pushers : SendToSession(p) \/ \E c \in Connections : SendJson(p, c)

ConnectionsSpec == ConnectionsInit /\ [][ConnectionsNext]_connectionVars

-----------------------------------------------------------------------------
\* The numbers of p's messages that c has received, and the last one not on its way to c.
Got(c, p) == {inbox[c][i].n : i \in {j \in DOMAIN inbox[c] : inbox[c][j].from = p}}
LastSent(c, p) == push[p].n - IF c \in push[p].left THEN 1 ELSE 0

\* Whatever else is pushed in between, a connection gets every message of one pusher from the
\* first it gets on, in order, once and none left out, and as long as it lives what was pushed
\* while it was there has come or is on its way; no stamped number comes twice, since counters
\* start again only while nobody is connected (ws.py:54, :64, :71).
InOrder(c) ==
    \A i, j \in DOMAIN inbox[c] :
        i < j /\ inbox[c][i].from = inbox[c][j].from => inbox[c][i].n < inbox[c][j].n

NoneLeftOut(c, p) ==
    /\ \A m, n \in Got(c, p) : m..n \subseteq Got(c, p)
    /\ \A n \in Got(c, p) : n <= LastSent(c, p)
    /\ link[c] = "open" /\ Got(c, p) # {} => LastSent(c, p) \in Got(c, p)

StampsDiffer(c) ==
    \A i, j \in DOMAIN inbox[c] :
        i # j /\ inbox[c][i].seq # 0 => inbox[c][i].seq # inbox[c][j].seq

PushesInOrder ==
    \A c \in Connections :
        InOrder(c) /\ StampsDiffer(c) /\ \A p \in Pushers : NoneLeftOut(c, p)

=============================================================================
