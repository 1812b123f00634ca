------------------------- MODULE Connections_proofs -------------------------
(***************************************************************************)
(* Proofs about the connections of the backend: what is pushed to a        *)
(* session (WSConnections), the remote bridge (RemoteBridge), the pipe of  *)
(* one MCP client (McpPipe) and the life cycle that an MCP server's        *)
(* callers share (McpServers).                                             *)
(***************************************************************************)
EXTENDS WSConnections, RemoteBridge, McpServers, McpPipe,
        FiniteSetTheorems, SequenceTheorems, TLAPS

-----------------------------------------------------------------------------
(* Pushes. *)

Pushing  == [n : Nat, seq : Nat, left : SUBSET Connections]
Received == [from : Pushers, n : Nat, seq : Nat]

PushType ==
    /\ link \in [Connections -> {"out", "open", "broken", "left"}]
    /\ active \subseteq Connections
    /\ counter \in Nat
    /\ push \in [Pushers -> Pushing]
    /\ inbox \in [Connections -> Seq(Received)]

\* The entry of a session holds who is there, and who has never been there is sent nothing.
Membership ==
    \A c \in Connections :
        /\ c \in active <=> link[c] \in {"open", "broken"}
        /\ link[c] = "out" => inbox[c] = <<>> /\ \A p \in Pushers : c \notin push[p].left

\* A stamped number in hand is new to those it still goes to, no two in hand for the same
\* connection are the same, and for who is there none is above the counter.
StampsNew ==
    \A c \in Connections : \A p \in Pushers :
        c \in push[p].left /\ push[p].seq # 0 =>
            /\ \A i \in DOMAIN inbox[c] : inbox[c][i].seq # push[p].seq
            /\ \A q \in Pushers \ {p} : c \in push[q].left => push[q].seq # push[p].seq

StampsBounded ==
    \A c \in active :
        /\ \A i \in DOMAIN inbox[c] : inbox[c][i].seq <= counter
        /\ \A p \in Pushers : c \in push[p].left => push[p].seq <= counter

PushInv == PushType /\ Membership /\ StampsNew /\ StampsBounded /\ PushesInOrder

\* The entries of an inbox, before and after one more.
LEMMA InboxType ==
    ASSUME PushType, NEW c \in Connections
    PROVE  /\ inbox[c] \in Seq(Received)
           /\ DOMAIN inbox[c] = 1..Len(inbox[c])
           /\ Len(inbox[c]) \in Nat
           /\ \A i \in DOMAIN inbox[c] : inbox[c][i] \in Received
           /\ \A p \in Pushers : Got(c, p) \subseteq Nat
<1>1. inbox[c] \in Seq(Received)
  BY DEF PushType
<1>2. /\ DOMAIN inbox[c] = 1..Len(inbox[c])
      /\ Len(inbox[c]) \in Nat
      /\ \A i \in DOMAIN inbox[c] : inbox[c][i] \in Received
  BY <1>1
<1>3. \A i \in DOMAIN inbox[c] : inbox[c][i].n \in Nat
  BY <1>2 DEF Received
<1> QED
  BY <1>1, <1>2, <1>3 DEF Got

\* A connection whose inbox and place in every push stay as they are loses nothing by its link.
LEMMA SameForConnection ==
    ASSUME NEW c \in Connections, InOrder(c), StampsDiffer(c), \A p \in Pushers : NoneLeftOut(c, p),
           inbox'[c] = inbox[c], push' = push,
           link'[c] = "open" => link[c] = "open" \/ inbox[c] = <<>>
    PROVE  InOrder(c)' /\ StampsDiffer(c)' /\ \A p \in Pushers : NoneLeftOut(c, p)'
<1>1. \A p \in Pushers : Got(c, p)' = Got(c, p) /\ LastSent(c, p)' = LastSent(c, p)
  BY DEF Got, LastSent
<1>2. inbox[c] = <<>> => \A p \in Pushers : Got(c, p) = {}
  BY DEF Got
<1> QED
  BY <1>1, <1>2 DEF InOrder, StampsDiffer, NoneLeftOut

LEMMA AddKeeps ==
    ASSUME PushInv, NEW c \in Connections, AddConnection(c)
    PROVE  PushInv'
<1> USE DEF PushInv
<1>1. PushType'
  BY DEF AddConnection, PushType
<1>2. Membership'
  BY DEF AddConnection, PushType, Membership
<1>3. StampsNew'
  BY DEF AddConnection, StampsNew
<1>4. StampsBounded'
  <2>1. ASSUME NEW d \in active
        PROVE  d # c /\ counter' = counter
    BY DEF AddConnection, PushType, Membership
  <2>2. DOMAIN inbox[c] = {} /\ \A p \in Pushers : c \notin push[p].left
    BY DEF AddConnection, PushType, Membership
  <2> QED
    BY <2>1, <2>2 DEF AddConnection, StampsBounded
<1>5. PushesInOrder'
  BY SameForConnection DEF AddConnection, PushType, Membership, PushesInOrder
<1> QED
  BY <1>1, <1>2, <1>3, <1>4, <1>5

LEMMA BreakKeeps ==
    ASSUME PushInv, NEW c \in Connections, Break(c)
    PROVE  PushInv'
<1> USE DEF PushInv
<1>1. PushType' /\ Membership' /\ StampsNew' /\ StampsBounded'
  BY DEF Break, PushType, Membership, StampsNew, StampsBounded
<1>2. PushesInOrder'
  BY SameForConnection DEF Break, PushType, PushesInOrder
<1> QED
  BY <1>1, <1>2

LEMMA RemoveKeeps ==
    ASSUME PushInv, NEW c \in Connections, RemoveConnection(c)
    PROVE  PushInv'
<1> USE DEF PushInv
<1>1. PushType' /\ Membership' /\ StampsNew' /\ StampsBounded'
  BY DEF RemoveConnection, PushType, Membership, StampsNew, StampsBounded
<1>2. PushesInOrder'
  BY SameForConnection DEF RemoveConnection, PushType, PushesInOrder
<1> QED
  BY <1>1, <1>2

\* A new message is on its way to everybody who is there; nobody has received it.
LEMMA SendKeeps ==
    ASSUME PushInv, NEW p \in Pushers, SendToSession(p)
    PROVE  PushInv'
<1> USE DEF PushInv
<1>1. PICK stamped \in BOOLEAN :
        LET seq == IF stamped /\ active # {} THEN counter + 1 ELSE 0 IN
        /\ counter' = IF stamped /\ active # {} THEN counter + 1 ELSE counter
        /\ push' = [push EXCEPT ![p] = [n |-> push[p].n + 1, seq |-> seq, left |-> active]]
  BY DEF SendToSession
<1>2. /\ push[p] \in Pushing /\ push[p].left = {}
      /\ \A q \in Pushers \ {p} : push'[q] = push[q]
      /\ push'[p].n = push[p].n + 1
      /\ push'[p].left = active
      /\ counter' \in Nat /\ counter <= counter'
      /\ push'[p].seq \in Nat /\ push'[p].seq <= counter'
      /\ push'[p].seq # 0 => push'[p].seq = counter + 1
      /\ UNCHANGED <<link, active, inbox>>
  BY <1>1 DEF SendToSession, PushType
<1>3. PushType'
  BY <1>1, <1>2 DEF PushType, Pushing
<1>4. Membership'
  BY <1>2 DEF Membership
<1>5. StampsNew'
  <2>1. ASSUME NEW c \in Connections, c \in active, push'[p].seq # 0
        PROVE  /\ \A i \in DOMAIN inbox[c] : inbox[c][i].seq # push'[p].seq
               /\ \A q \in Pushers \ {p} : c \in push[q].left => push[q].seq # push'[p].seq
    <3>1. /\ \A i \in DOMAIN inbox[c] : inbox[c][i].seq \in Nat
          /\ \A q \in Pushers : push[q].seq \in Nat
      BY InboxType DEF PushType, Pushing, Received
    <3> QED
      BY <1>2, <2>1, <3>1 DEF StampsBounded, PushType
  <2> QED
    BY <1>2, <2>1 DEF StampsNew
<1>6. StampsBounded'
  <2>1. ASSUME NEW c \in active
        PROVE  /\ \A i \in DOMAIN inbox[c] : inbox[c][i].seq \in Nat
               /\ \A q \in Pushers : push[q].seq \in Nat
    BY InboxType DEF PushType, Pushing, Received
  <2> QED
    BY <1>2, <2>1 DEF StampsBounded, PushType
<1>7. ASSUME NEW c \in Connections
      PROVE  InOrder(c)' /\ StampsDiffer(c)' /\ \A q \in Pushers : NoneLeftOut(c, q)'
  <2>1. InOrder(c)' /\ StampsDiffer(c)'
    BY <1>2 DEF PushesInOrder, InOrder, StampsDiffer
  <2>2. ASSUME NEW q \in Pushers \ {p}
        PROVE  NoneLeftOut(c, q)'
    <3>1. Got(c, q)' = Got(c, q) /\ LastSent(c, q)' = LastSent(c, q)
      BY <1>2 DEF Got, LastSent
    <3> QED
      BY <1>2, <3>1 DEF PushesInOrder, NoneLeftOut
  <2>3. NoneLeftOut(c, p)'
    <3>1. Got(c, p)' = Got(c, p) /\ Got(c, p) \subseteq Nat
      BY <1>2, InboxType DEF Got
    <3>2. /\ LastSent(c, p) = push[p].n
          /\ LastSent(c, p)' = IF c \in active THEN push[p].n ELSE push[p].n + 1
          /\ push[p].n \in Nat
      BY <1>2 DEF LastSent, Pushing
    <3>3. link[c] = "open" => c \in active
      BY DEF Membership
    <3> QED
      BY <1>2, <3>1, <3>2, <3>3 DEF PushesInOrder, NoneLeftOut
  <2> QED
    BY <2>1, <2>2, <2>3
<1> QED
  BY <1>3, <1>4, <1>5, <1>6, <1>7 DEF PushesInOrder

\* The message comes to one of those it is still to come to, or is lost with its connection.
LEMMA ReceiveKeeps ==
    ASSUME PushInv, NEW p \in Pushers, NEW c \in Connections, SendJson(p, c)
    PROVE  PushInv'
<1> USE DEF PushInv
<1> DEFINE m == [from |-> p, n |-> push[p].n, seq |-> push[p].seq]
           old == inbox[c]
           k == Len(old) + 1
<1>1. /\ push[p] \in Pushing /\ c \in push[p].left
      /\ \A q \in Pushers : /\ push'[q].n = push[q].n /\ push'[q].seq = push[q].seq
                            /\ push'[q].left = push[q].left \ IF q = p THEN {c} ELSE {}
      /\ push' \in [Pushers -> Pushing]
      /\ UNCHANGED <<link, active, counter>>
      /\ \A d \in Connections \ {c} : inbox'[d] = inbox[d]
  BY DEF SendJson, PushType, Pushing
<1>9. \A d \in Connections : \A q \in Pushers : d \in push'[q].left => d \in push[q].left
  BY <1>1
<1>2. /\ m \in Received
      /\ m.from = p /\ m.n = push[p].n /\ m.seq = push[p].seq
  BY <1>1 DEF Pushing, Received
<1>3. \A d \in Connections \ {c} : \A q \in Pushers :
          Got(d, q)' = Got(d, q) /\ LastSent(d, q)' = LastSent(d, q)
  BY <1>1 DEF Got, LastSent
<1>4. ASSUME NEW d \in Connections \ {c}
      PROVE  InOrder(d)' /\ StampsDiffer(d)' /\ \A q \in Pushers : NoneLeftOut(d, q)'
  BY <1>1, <1>3 DEF PushesInOrder, InOrder, StampsDiffer, NoneLeftOut
<1>5. ASSUME NEW q \in Pushers \ {p}
      PROVE  LastSent(c, q)' = LastSent(c, q)
  BY <1>1 DEF LastSent
<1>6. LastSent(c, p) = push[p].n - 1 /\ LastSent(c, p)' = push[p].n /\ push[p].n \in Nat
  BY <1>1 DEF LastSent, Pushing
<1>7. CASE link[c] # "open"
  <2>1. inbox' = inbox
    BY <1>7 DEF SendJson
  <2>2. PushType' /\ Membership' /\ StampsNew' /\ StampsBounded'
    <3>1. PushType'
      BY <1>1, <2>1 DEF PushType
    <3>2. Membership'
      BY <1>1, <1>9, <2>1 DEF Membership
    <3>3. StampsNew'
      BY <1>1, <1>9, <2>1 DEF StampsNew
    <3>4. StampsBounded'
      BY <1>1, <1>9, <2>1 DEF StampsBounded, PushType
    <3> QED
      BY <3>1, <3>2, <3>3, <3>4
  <2>3. \A q \in Pushers : Got(c, q)' = Got(c, q) /\ Got(c, q) \subseteq Nat
    BY <2>1, InboxType DEF Got
  <2>4. InOrder(c)' /\ StampsDiffer(c)' /\ \A q \in Pushers : NoneLeftOut(c, q)'
    BY <1>1, <1>5, <1>6, <1>7, <2>1, <2>3 DEF PushesInOrder, InOrder, StampsDiffer, NoneLeftOut
  <2> QED
    BY <1>4, <2>2, <2>4 DEF PushesInOrder
<1>8. CASE link[c] = "open"
  <2>1. /\ old \in Seq(Received) /\ Len(old) \in Nat /\ DOMAIN old = 1..Len(old)
        /\ \A i \in DOMAIN old : old[i] \in Received
    BY InboxType
  <2>2. inbox' = [inbox EXCEPT ![c] = Append(old, m)]
    BY <1>8 DEF SendJson
  <2>3. /\ inbox'[c] = Append(old, m)
        /\ Append(old, m) \in Seq(Received)
        /\ DOMAIN inbox'[c] = 1..k
        /\ \A i \in 1..Len(old) : inbox'[c][i] = old[i]
        /\ inbox'[c][k] = m
    BY <1>2, <2>1, <2>2 DEF PushType
  <2> HIDE DEF m
  <2>4. PushType'
    BY <1>1, <2>2, <2>3 DEF PushType
  <2>5. Membership'
    BY <1>1, <1>8 DEF Membership
  <2>6. StampsNew'
    <3>1. ASSUME NEW q \in Pushers, c \in push'[q].left, push[q].seq # 0
          PROVE  \A i \in 1..k : inbox'[c][i].seq # push[q].seq
      <4>1. q # p /\ c \in push[q].left
        BY <1>1, <3>1
      <4>2. push[p].seq # push[q].seq
        BY <1>1, <3>1, <4>1 DEF StampsNew
      <4>3. \A i \in 1..Len(old) : old[i].seq # push[q].seq
        BY <2>1, <3>1, <4>1 DEF StampsNew
      <4> QED
        BY <1>2, <2>1, <2>3, <4>2, <4>3
    <3>2. \A q, r \in Pushers : c \in push'[q].left /\ push[q].seq # 0 /\ r # q
                                   /\ c \in push'[r].left => push[r].seq # push[q].seq
      BY <1>9 DEF StampsNew
    <3>3. \A d \in Connections \ {c} : \A q \in Pushers :
             d \in push'[q].left /\ push[q].seq # 0 =>
               /\ \A i \in DOMAIN inbox[d] : inbox[d][i].seq # push[q].seq
               /\ \A r \in Pushers \ {q} : d \in push'[r].left => push[r].seq # push[q].seq
      BY <1>9 DEF StampsNew
    <3>4. ASSUME NEW d \in Connections, NEW q \in Pushers, d \in push'[q].left, push'[q].seq # 0
          PROVE  /\ \A i \in DOMAIN inbox'[d] : inbox'[d][i].seq # push'[q].seq
                 /\ \A r \in Pushers \ {q} : d \in push'[r].left => push'[r].seq # push'[q].seq
      <4>1. /\ push'[q].seq = push[q].seq
            /\ \A r \in Pushers : push'[r].seq = push[r].seq
        BY <1>1
      <4>2. CASE d = c
        BY <2>3, <3>1, <3>2, <3>4, <4>1, <4>2
      <4>3. CASE d # c
        BY <1>1, <3>3, <3>4, <4>1, <4>3
      <4> QED
        BY <4>2, <4>3
    <3> QED
      BY <3>4 DEF StampsNew
  <2>7. StampsBounded'
    <3>1. c \in active => \A i \in 1..k : inbox'[c][i].seq <= counter
      BY <1>1, <1>2, <2>1, <2>3 DEF StampsBounded
    <3>2. \A d \in active \ {c} : \A i \in DOMAIN inbox'[d] : inbox'[d][i].seq <= counter
      BY <1>1 DEF StampsBounded, PushType
    <3>3. \A d \in active : \A q \in Pushers : d \in push'[q].left => push'[q].seq <= counter
      BY <1>1, <1>9 DEF StampsBounded, PushType
    <3> QED
      BY <1>1, <2>3, <3>1, <3>2, <3>3 DEF StampsBounded
  <2>8. /\ \A q \in Pushers \ {p} : Got(c, q)' = Got(c, q)
        /\ Got(c, p)' = Got(c, p) \cup {push[p].n}
        /\ Got(c, p) \subseteq Nat
    <3>1. ASSUME NEW q \in Pushers \ {p}
          PROVE  Got(c, q)' = Got(c, q)
      BY <1>2, <2>1, <2>3 DEF Got
    <3>2. Got(c, p)' = Got(c, p) \cup {push[p].n}
      BY <1>2, <2>1, <2>3 DEF Got
    <3> QED
      BY <3>1, <3>2, InboxType
  <2>9. InOrder(c)'
    <3>1. ASSUME NEW i \in 1..Len(old), old[i].from = p
          PROVE  old[i].n < push[p].n
      <4>1. old[i].n \in Got(c, p)
        BY <2>1, <3>1 DEF Got
      <4> QED
        BY <1>6, <2>8, <4>1 DEF PushesInOrder, NoneLeftOut
    <3>2. \A i, j \in 1..Len(old) : i < j /\ old[i].from = old[j].from => old[i].n < old[j].n
      BY <2>1 DEF PushesInOrder, InOrder
    <3>3. \A i, j \in 1..k : i < j => i \in 1..Len(old) /\ (j = k \/ j \in 1..Len(old))
      BY <2>1
    <3> QED
      BY <1>2, <2>3, <3>1, <3>2, <3>3 DEF InOrder
  <2>10. StampsDiffer(c)'
    <3>1. \A i \in 1..Len(old) : push[p].seq # 0 => old[i].seq # push[p].seq
      BY <1>1, <2>1 DEF StampsNew
    <3>2. \A i, j \in 1..Len(old) : i # j /\ old[i].seq # 0 => old[i].seq # old[j].seq
      BY <2>1 DEF PushesInOrder, StampsDiffer
    <3>3. \A i \in 1..k : i = k \/ i \in 1..Len(old)
      BY <2>1
    <3> QED
      BY <1>2, <2>3, <3>1, <3>2, <3>3 DEF StampsDiffer
  <2>11. ASSUME NEW q \in Pushers \ {p}
         PROVE  NoneLeftOut(c, q)'
    BY <1>1, <1>5, <2>8 DEF PushesInOrder, NoneLeftOut
  <2>12. NoneLeftOut(c, p)'
    <3>1. \A a, b \in Got(c, p) : a..b \subseteq Got(c, p)
      BY DEF PushesInOrder, NoneLeftOut
    <3>2. /\ \A a \in Got(c, p) : a <= push[p].n - 1
          /\ Got(c, p) # {} => push[p].n - 1 \in Got(c, p)
      BY <1>6, <1>8 DEF PushesInOrder, NoneLeftOut
    <3>3. ASSUME NEW a \in Got(c, p)
          PROVE  /\ a..push[p].n \subseteq Got(c, p)'
                 /\ push[p].n..a = {}
      <4>1. a..(push[p].n - 1) \subseteq Got(c, p)
        BY <3>1, <3>2
      <4>2. a \in Nat /\ a <= push[p].n - 1
        BY <2>8, <3>2
      <4>3. a..push[p].n = (a..(push[p].n - 1)) \cup {push[p].n}
        BY <1>6, <4>2
      <4> QED
        BY <1>6, <2>8, <4>1, <4>2, <4>3
    <3>4. push[p].n..push[p].n = {push[p].n}
      BY <1>6
    <3>5. \A a, b \in Got(c, p)' : a..b \subseteq Got(c, p)'
      BY <2>8, <3>1, <3>3, <3>4
    <3>6. \A a \in Got(c, p)' : a <= push[p].n
      BY <1>6, <2>8, <3>2
    <3> QED
      BY <1>6, <2>8, <3>5, <3>6 DEF NoneLeftOut
  <2> QED
    BY <1>4, <2>4, <2>5, <2>6, <2>7, <2>9, <2>10, <2>11, <2>12 DEF PushesInOrder
<1> QED
  BY <1>7, <1>8

\* Whatever the number of connections and pushers, whoever comes, breaks and goes meanwhile:
\* a connection gets every message of a pusher from its first on, once and in order, and no
\* stamped number twice (ws.py:54, :64, :71).
THEOREM PushesArrive == ConnectionsSpec => []PushesInOrder
<1>1. ConnectionsInit => PushInv
  <2> SUFFICES ASSUME ConnectionsInit
               PROVE  PushInv
    OBVIOUS
  <2>1. PushType
    BY DEF ConnectionsInit, PushType, Pushing
  <2>2. Membership /\ StampsNew /\ StampsBounded
    BY DEF ConnectionsInit, Membership, StampsNew, StampsBounded
  <2>3. \A c \in Connections : \A p \in Pushers : Got(c, p) = {}
    BY DEF ConnectionsInit, Got
  <2>4. PushesInOrder
    BY <2>3 DEF ConnectionsInit, PushesInOrder, InOrder, StampsDiffer, NoneLeftOut
  <2> QED
    BY <2>1, <2>2, <2>4 DEF PushInv
<1>2. PushInv /\ [ConnectionsNext]_connectionVars => PushInv'
  <2> SUFFICES ASSUME PushInv, [ConnectionsNext]_connectionVars
               PROVE  PushInv'
    OBVIOUS
  <2>1. CASE ConnectionsNext
    <3>1. ASSUME NEW p \in Pushers, NEW c, SendJson(p, c)
          PROVE  c \in Connections
      BY <3>1 DEF SendJson, PushInv, PushType, Pushing
    <3> QED
      BY <2>1, <3>1, AddKeeps, BreakKeeps, RemoveKeeps, SendKeeps, ReceiveKeeps DEF ConnectionsNext
  <2>2. CASE UNCHANGED connectionVars
    <3>1. \A c \in Connections : \A p \in Pushers :
              Got(c, p)' = Got(c, p) /\ LastSent(c, p)' = LastSent(c, p)
      BY <2>2 DEF connectionVars, Got, LastSent
    <3> QED
      BY <2>2, <3>1
      DEF connectionVars, PushInv, PushType, Membership, StampsNew, StampsBounded,
          PushesInOrder, InOrder, StampsDiffer, NoneLeftOut
  <2> QED
    BY <2>1, <2>2
<1>3. PushInv => PushesInOrder
  BY DEF PushInv
<1> QED
  BY <1>1, <1>2, <1>3, PTL DEF ConnectionsSpec

-----------------------------------------------------------------------------
(* The remote bridge. *)

RemoteStates == {"connecting", "authenticated", "removed", "forced"}
Links == [session : Nat, token : Nat, page : {"opening", "open", "closing", "closed"},
          server : {"none", "waiting", "serving", "ended"}, cut : BOOLEAN]
Clients == [ws : Nat, session : Nat, attempts : Nat, timers : Nat, asked : Nat,
            answered : SUBSET Nat, users : Nat]

BridgeType ==
    /\ remote \in Seq(RemoteStates)
    /\ links \in Seq(Links)
    /\ client \in Clients
    /\ client.answered \subseteq 1..Len(remote)
    /\ client.ws \in 0..Len(links)

\* No socket's address names a session: nobody is let in.
NobodyNamed == \A l \in 1..Len(links) : links[l].session = Undefined

BridgeInv == BridgeType /\ NobodyNamed /\ BridgeSound

LEMMA BridgeSets ==
    ASSUME BridgeType
    PROVE  /\ DOMAIN remote = 1..Len(remote) /\ Len(remote) \in Nat
           /\ DOMAIN links = 1..Len(links) /\ Len(links) \in Nat
           /\ IsFiniteSet(Held) /\ Cardinality(Held) \in Nat
           /\ IsFiniteSet(client.answered) /\ Cardinality(client.answered) \in Nat
           /\ IsFiniteSet(OpenLinks) /\ Cardinality(OpenLinks) \in Nat
           /\ client.asked \in Nat /\ client.timers \in Nat /\ client.users \in Nat
<1>1. /\ DOMAIN remote = 1..Len(remote) /\ Len(remote) \in Nat
      /\ DOMAIN links = 1..Len(links) /\ Len(links) \in Nat
  BY DEF BridgeType
<1>2. IsFiniteSet(1..Len(remote)) /\ IsFiniteSet(1..Len(links))
  BY <1>1, FS_Interval
<1>3. Held \subseteq 1..Len(remote) /\ OpenLinks \subseteq 1..Len(links)
  BY <1>1 DEF Held, OpenLinks
<1>4. /\ IsFiniteSet(Held) /\ Cardinality(Held) \in Nat
      /\ IsFiniteSet(client.answered) /\ Cardinality(client.answered) \in Nat
      /\ IsFiniteSet(OpenLinks) /\ Cardinality(OpenLinks) \in Nat
  BY <1>2, <1>3, FS_Subset, FS_CardinalityType DEF BridgeType
<1> QED
  BY <1>1, <1>4 DEF BridgeType, Clients

\* The size of a finite set that an element leaves or joins.
LEMMA OneLess ==
    ASSUME NEW S, IsFiniteSet(S), NEW x \in S
    PROVE  Cardinality(S \ {x}) = Cardinality(S) - 1
BY FS_RemoveElement

LEMMA OneMore ==
    ASSUME NEW S, IsFiniteSet(S), NEW x
    PROVE  Cardinality(S \cup {x}) <= Cardinality(S) + 1
<1>1. Cardinality(S) \in Nat
  BY FS_CardinalityType
<1>2. Cardinality(S \cup {x}) \in {Cardinality(S), Cardinality(S) + 1}
  BY FS_AddElement
<1> QED
  BY <1>1, <1>2

\* A socket whose record is replaced.
LEMMA LinkReplaced ==
    ASSUME NEW ls \in Seq(Links), NEW l \in DOMAIN ls, NEW x \in Links
    PROVE  /\ [ls EXCEPT ![l] = x] \in Seq(Links)
           /\ Len([ls EXCEPT ![l] = x]) = Len(ls)
           /\ [ls EXCEPT ![l] = x][l] = x
           /\ \A k \in (DOMAIN ls) \ {l} : [ls EXCEPT ![l] = x][k] = ls[k]
BY ExceptSeq

\* The sockets are as many and as open as before, nobody is asked, answered or waited for, and
\* no session comes to the table.
LEMMA NothingDue ==
    ASSUME BridgeInv, BridgeType',
           Len(links') = Len(links), Len(remote') = Len(remote),
           \A l \in 1..Len(links) : /\ links'[l].session = links[l].session
                                    /\ links'[l].page = "closed" <=> links[l].page = "closed",
           Held' \subseteq Held,
           client'.answered = client.answered, client'.asked = client.asked,
           client'.timers = client.timers, client'.users = client.users,
           client'.attempts = client.attempts
    PROVE  BridgeInv'
<1> USE DEF BridgeInv
<1>1. NobodyNamed'
  BY DEF NobodyNamed
<1>2. OpenLinks' = OpenLinks
  <2>1. DOMAIN links = 1..Len(links) /\ DOMAIN links' = 1..Len(links)
    BY DEF BridgeType
  <2> QED
    BY <2>1 DEF OpenLinks
<1>3. Cardinality(Held') <= Cardinality(Held)
  BY BridgeSets, FS_Subset
<1>4. Cardinality(Held') \in Nat /\ Cardinality(Held) \in Nat
  BY BridgeSets, FS_Subset, FS_CardinalityType
<1>5. Cardinality(Held)' <= max_sessions
  BY <1>3, <1>4, BridgeAssumption DEF BridgeSound
<1>6. ConnectionsDoNotMultiply'
  BY <1>2 DEF BridgeSound, ConnectionsDoNotMultiply
<1>7. ClientGivesUp'
  BY DEF BridgeSound, ClientGivesUp
<1> QED
  BY <1>1, <1>5, <1>6, <1>7 DEF BridgeSound

LEMMA LinkType ==
    ASSUME BridgeType, NEW l \in DOMAIN links
    PROVE  /\ links[l] \in Links /\ l \in 1..Len(links)
           /\ \A x \in Links : LET r == [links EXCEPT ![l] = x] IN
                  /\ r \in Seq(Links)
                  /\ Len(r) = Len(links)
                  /\ r[l] = x
                  /\ \A k \in 1..Len(links) : k # l => r[k] = links[k]
BY LinkReplaced DEF BridgeType

LEMMA LinkValues ==
    ASSUME NEW x \in Links
    PROVE  /\ /\ [x EXCEPT !.server = "waiting"] \in Links /\ [x EXCEPT !.server = "waiting"].server = "waiting"
              /\ [x EXCEPT !.server = "waiting"].session = x.session
              /\ [x EXCEPT !.server = "waiting"].page = x.page
           /\ /\ [x EXCEPT !.server = "serving"] \in Links /\ [x EXCEPT !.server = "serving"].server = "serving"
              /\ [x EXCEPT !.server = "serving"].session = x.session
              /\ [x EXCEPT !.server = "serving"].page = x.page
           /\ /\ [x EXCEPT !.server = "ended"] \in Links /\ [x EXCEPT !.server = "ended"].server = "ended"
              /\ [x EXCEPT !.server = "ended"].session = x.session
              /\ [x EXCEPT !.server = "ended"].page = x.page
           /\ /\ [x EXCEPT !.page = "open"] \in Links /\ [x EXCEPT !.page = "open"].page = "open"
              /\ [x EXCEPT !.page = "open"].session = x.session
              /\ [x EXCEPT !.page = "open"].server = x.server
           /\ /\ [x EXCEPT !.page = "closing"] \in Links /\ [x EXCEPT !.page = "closing"].page = "closing"
              /\ [x EXCEPT !.page = "closing"].session = x.session
              /\ [x EXCEPT !.page = "closing"].server = x.server
           /\ /\ [x EXCEPT !.page = "closed"] \in Links /\ [x EXCEPT !.page = "closed"].page = "closed"
              /\ [x EXCEPT !.page = "closed"].session = x.session
              /\ [x EXCEPT !.page = "closed"].server = x.server
           /\ /\ [x EXCEPT !.cut = TRUE] \in Links /\ [x EXCEPT !.cut = TRUE].cut = TRUE
              /\ [x EXCEPT !.cut = TRUE].session = x.session
              /\ [x EXCEPT !.cut = TRUE].page = x.page
              /\ [x EXCEPT !.cut = TRUE].server = x.server
           /\ \A v \in Nat : /\ [x EXCEPT !.token = v] \in Links
                            /\ [x EXCEPT !.token = v].session = x.session
                            /\ [x EXCEPT !.token = v].page = x.page
                            /\ [x EXCEPT !.token = v].server = x.server
BY DEF Links

LEMMA AcceptKeeps ==
    ASSUME BridgeInv, NEW l \in DOMAIN links, AcceptSocket(l) \/ CutLine(l)
    PROVE  BridgeInv'
<1> USE DEF BridgeInv
<1>1. PICK x \in Links : /\ links' = [links EXCEPT ![l] = x]
                         /\ x.session = links[l].session /\ x.page = links[l].page
                         /\ x.server = "serving" => links[l].server = "serving"
  <2>1. CASE AcceptSocket(l)
    <3> DEFINE y == [links[l] EXCEPT !.server = "waiting"]
    <3>1. links' = [links EXCEPT ![l] = y]
      BY <2>1 DEF AcceptSocket
    <3>2. /\ y \in Links /\ y.server = "waiting"
          /\ y.session = links[l].session /\ y.page = links[l].page
      BY LinkType, LinkValues
    <3> HIDE DEF y
    <3> QED
      BY <3>1, <3>2
  <2>2. CASE CutLine(l)
    <3> DEFINE y == [links[l] EXCEPT !.cut = TRUE]
    <3>1. links' = [links EXCEPT ![l] = y]
      BY <2>2 DEF CutLine
    <3>2. /\ y \in Links /\ y.server = links[l].server
          /\ y.session = links[l].session /\ y.page = links[l].page
      BY LinkType, LinkValues
    <3> HIDE DEF y
    <3> QED
      BY <3>1, <3>2
  <2> QED
    BY <2>1, <2>2
<1>2. remote' = remote /\ client' = client
  BY DEF AcceptSocket, CutLine
<1>3. /\ links' \in Seq(Links) /\ Len(links') = Len(links) /\ links'[l] = x
      /\ \A k \in 1..Len(links) : k # l => links'[k] = links[k]
  BY <1>1, LinkType
<1>4. BridgeType'
  BY <1>2, <1>3 DEF BridgeType
<1> QED
  BY <1>1, <1>2, <1>3, <1>4, NothingDue DEF Held

LEMMA SocketOpensKeeps ==
    ASSUME BridgeInv, NEW l \in DOMAIN links, SocketOpens(l)
    PROVE  BridgeInv'
<1> USE DEF BridgeInv
<1> DEFINE x == [links[l] EXCEPT !.page = "open"]
           opened == [links EXCEPT ![l] = x]
           ws == client.ws
<1>1. /\ opened \in Seq(Links) /\ Len(opened) = Len(links)
      /\ \A k \in 1..Len(links) : /\ opened[k] \in Links
                                  /\ opened[k].session = links[k].session
                                  /\ opened[k].server = links[k].server
                                  /\ opened[k].page = "closed" <=> links[k].page = "closed"
  <2>1. /\ x \in Links /\ x.page = "open"
        /\ x.session = links[l].session /\ x.server = links[l].server
        /\ links[l].page = "opening"
    BY LinkType, LinkValues DEF SocketOpens
  <2> HIDE DEF x
  <2>2. /\ opened \in Seq(Links) /\ Len(opened) = Len(links) /\ opened[l] = x
        /\ \A k \in 1..Len(links) : k # l => opened[k] = links[k]
    BY <2>1, LinkType
  <2>3. \A k \in 1..Len(links) : links[k] \in Links
    BY DEF BridgeType
  <2> QED
    BY <2>1, <2>2, <2>3
<1>2. \/ links' = opened
      \/ /\ ws \in 1..Len(links)
         /\ links' = [opened EXCEPT ![ws] = [opened[ws] EXCEPT !.token = client.session]]
  BY BridgeSets DEF SocketOpens, BridgeType
<1>3. /\ links' \in Seq(Links) /\ Len(links') = Len(links)
      /\ \A k \in 1..Len(links) : /\ links'[k].session = links[k].session
                                  /\ links'[k].server = links[k].server
                                  /\ links'[k].page = "closed" <=> links[k].page = "closed"
  <2>1. CASE links' = opened
    BY <1>1, <2>1
  <2>2. CASE /\ ws \in 1..Len(links)
             /\ links' = [opened EXCEPT ![ws] = [opened[ws] EXCEPT !.token = client.session]]
    <3> DEFINE y == [opened[ws] EXCEPT !.token = client.session]
    <3> HIDE DEF opened
    <3>1. /\ y \in Links /\ y.session = opened[ws].session
          /\ y.server = opened[ws].server /\ y.page = opened[ws].page
      <4>1. PICK z \in Links, v \in Nat : z = opened[ws] /\ v = client.session
        BY <1>1, <2>2 DEF BridgeType, Clients
      <4>2. y = [z EXCEPT !.token = v]
        BY <4>1
      <4>3. [z EXCEPT !.token = v] \in Links
        BY <4>1, LinkValues
      <4> QED
        BY <4>1, <4>2, <4>3 DEF Links
    <3>2. links' = [opened EXCEPT ![ws] = y] /\ ws \in DOMAIN opened
      BY <1>1, <2>2
    <3> HIDE DEF y
    <3>3. /\ links' \in Seq(Links) /\ Len(links') = Len(opened) /\ links'[ws] = y
          /\ \A k \in (DOMAIN opened) \ {ws} : links'[k] = opened[k]
      BY <1>1, <3>1, <3>2, LinkReplaced
    <3>4. DOMAIN opened = 1..Len(links)
      BY <1>1
    <3> QED
      BY <1>1, <3>1, <3>3, <3>4
  <2> QED
    BY <1>2, <2>1, <2>2
<1>4. remote' = remote /\ client' = client
  BY DEF SocketOpens
<1>5. BridgeType'
  BY <1>3, <1>4 DEF BridgeType
<1> QED
  BY <1>3, <1>4, <1>5, NothingDue DEF Held

LEMMA UserDisconnectsKeeps ==
    ASSUME BridgeInv, UserDisconnects
    PROVE  BridgeInv'
<1> USE DEF BridgeInv
<1> DEFINE l == client.ws
           x == IF links[l].page = "closed" THEN links[l] ELSE [links[l] EXCEPT !.page = "closing"]
<1>1. l \in DOMAIN links
  BY BridgeSets DEF UserDisconnects, BridgeType
<1>2. links' = [links EXCEPT ![l] = x]
  <2>1. links[l] \in Links
    BY <1>1, LinkType
  <2> QED
    BY <1>1, <2>1 DEF UserDisconnects, Links
<1>3. /\ x \in Links /\ x.session = links[l].session /\ x.server = links[l].server
      /\ x.page = "closed" <=> links[l].page = "closed"
  <2>1. links[l] \in Links
    BY <1>1, LinkType
  <2>2. CASE links[l].page = "closed"
    BY <2>1, <2>2
  <2>3. CASE links[l].page # "closed"
    <3>1. x = [links[l] EXCEPT !.page = "closing"]
      BY <2>3
    <3> QED
      BY <2>1, <2>3, <3>1, LinkValues
  <2> QED
    BY <2>2, <2>3
<1>4. /\ client' \in Clients /\ client'.ws = 0
      /\ client'.answered = client.answered /\ client'.asked = client.asked
      /\ client'.timers = client.timers /\ client'.users = client.users
      /\ client'.attempts = client.attempts
  <2>1. client' = [ws |-> 0, session |-> 0, attempts |-> client.attempts,
                   timers |-> client.timers, asked |-> client.asked,
                   answered |-> client.answered, users |-> client.users]
    BY DEF UserDisconnects, BridgeType, Clients
  <2> QED
    BY <2>1 DEF BridgeType, Clients
<1> HIDE DEF x, l
<1>5. /\ links' \in Seq(Links) /\ Len(links') = Len(links) /\ links'[l] = x /\ l \in 1..Len(links)
      /\ \A k \in 1..Len(links) : k # l => links'[k] = links[k]
  BY <1>1, <1>2, <1>3, LinkType
<1>6. remote' = remote
  BY DEF UserDisconnects
<1>7. BridgeType'
  BY <1>4, <1>5, <1>6 DEF BridgeType
<1> QED
  BY <1>3, <1>4, <1>5, <1>6, <1>7, NothingDue DEF Held

\* No session has the name that the addresses end in.
LEMMA AuthenticateKeeps ==
    ASSUME BridgeInv, NEW l \in DOMAIN links, NEW expired \in BOOLEAN, NEW heard \in BOOLEAN,
           Authenticate(l, expired, heard)
    PROVE  BridgeInv'
<1> USE DEF BridgeInv
<1>1. links[l].session = Undefined /\ links[l].session \notin Held
  <2>1. Undefined \notin Held
    BY BridgeSets DEF Held, Undefined
  <2> QED
    BY <2>1, BridgeSets DEF NobodyNamed
<1>2. PICK x \in Links : /\ links' = [links EXCEPT ![l] = x]
                         /\ x.session = links[l].session /\ x.page = links[l].page
  <2> DEFINE x == [session |-> links[l].session, token |-> links[l].token, page |-> links[l].page,
                   server |-> "ended", cut |-> FALSE]
  <2>1. links[l] \in Links /\ links \in Seq(Links)
    BY LinkType DEF BridgeType
  <2>2. links' = [links EXCEPT ![l] = x]
    BY <1>1 DEF Authenticate
  <2>3. x \in Links
    BY <2>1 DEF Links
  <2> QED
    BY <2>2, <2>3
<1>3. /\ links' \in Seq(Links) /\ Len(links') = Len(links) /\ links'[l] = x /\ l \in 1..Len(links)
      /\ \A k \in 1..Len(links) : k # l => links'[k] = links[k]
  BY <1>2, LinkType
<1>4. client' = client /\ remote' = remote
  BY <1>1 DEF Authenticate
<1>5. BridgeType'
  BY <1>3, <1>4 DEF BridgeType
<1> QED
  BY <1>2, <1>3, <1>4, <1>5, NothingDue DEF Held

LEMMA ServerNoticesKeeps ==
    ASSUME BridgeInv, NEW l \in DOMAIN links, ServerNotices(l)
    PROVE  BridgeInv'
<1> USE DEF BridgeInv
<1> DEFINE x == [links[l] EXCEPT !.server = "ended"]
<1>1. /\ x \in Links /\ x.session = links[l].session /\ x.page = links[l].page
      /\ links' = [links EXCEPT ![l] = x]
  BY LinkType, LinkValues DEF ServerNotices
<1> HIDE DEF x
<1>2. /\ links' \in Seq(Links) /\ Len(links') = Len(links) /\ links'[l] = x /\ l \in 1..Len(links)
      /\ \A k \in 1..Len(links) : k # l => links'[k] = links[k]
  BY <1>1, LinkType
<1>3. links[l].session \notin Held
  BY BridgeSets DEF NobodyNamed, Undefined, Held
<1>4. client' = client /\ remote' = remote
  BY <1>3 DEF ServerNotices
<1>5. BridgeType'
  BY <1>2, <1>4 DEF BridgeType
<1> QED
  BY <1>1, <1>2, <1>4, <1>5, NothingDue DEF Held

LEMMA ForceKeeps ==
    ASSUME BridgeInv, NEW s \in DOMAIN remote, ForceDisconnect(s)
    PROVE  BridgeInv'
<1> USE DEF BridgeInv
<1>1. /\ links' = links /\ client' = client
      /\ remote' \in Seq(RemoteStates) /\ Len(remote') = Len(remote)
      /\ remote'[s] = "forced"
      /\ \A r \in 1..Len(remote) : r # s => remote'[r] = remote[r]
  BY ExceptSeq DEF ForceDisconnect, BridgeType, RemoteStates
<1>2. Held' \subseteq Held
  BY <1>1, BridgeSets, SMTT(30) DEF Held, BridgeType
<1>3. BridgeType'
  BY <1>1 DEF BridgeType
<1> QED
  BY <1>1, <1>2, <1>3, NothingDue

\* The sum of ConnectionsDoNotMultiply after a step.
LEMMA NoMoreThanAsked ==
    ASSUME BridgeInv,
           client'.asked \in Int, client'.timers \in Int,
           Cardinality(client'.answered) \in Int, Cardinality(OpenLinks') \in Int,
           client'.users = client.users,
           client'.asked + Cardinality(client'.answered) + client'.timers + Cardinality(OpenLinks')
             <= client.asked + Cardinality(client.answered) + client.timers + Cardinality(OpenLinks)
    PROVE  ConnectionsDoNotMultiply'
<1>1. /\ client.asked \in Nat /\ client.timers \in Nat /\ client.users \in Nat
      /\ Cardinality(client.answered) \in Nat /\ Cardinality(OpenLinks) \in Nat
  BY BridgeSets DEF BridgeInv
<1> QED
  BY <1>1 DEF BridgeInv, BridgeSound, ConnectionsDoNotMultiply

LEMMA UserConnectsKeeps ==
    ASSUME BridgeInv, UserConnects
    PROVE  BridgeInv'
<1> USE DEF BridgeInv
<1>1. /\ links' = links /\ remote' = remote
      /\ client' = [ws |-> client.ws, session |-> client.session, attempts |-> client.attempts,
                    timers |-> client.timers, asked |-> client.asked + 1,
                    answered |-> client.answered, users |-> client.users + 1]
  BY DEF UserConnects, BridgeType, Clients
<1>2. BridgeType'
  BY <1>1 DEF BridgeType, Clients
<1>3. OpenLinks' = OpenLinks /\ Held' = Held
  BY <1>1 DEF OpenLinks, Held
<1>4. ConnectionsDoNotMultiply'
  BY <1>1, <1>3, BridgeSets, SMTT(30) DEF BridgeSound, ConnectionsDoNotMultiply
<1>5. ClientGivesUp'
  BY <1>1, BridgeSets DEF BridgeSound, ClientGivesUp, BridgeType, Clients
<1> QED
  BY <1>1, <1>2, <1>3, <1>4, <1>5 DEF NobodyNamed, BridgeSound

LEMMA TimerFiresKeeps ==
    ASSUME BridgeInv, TimerFires
    PROVE  BridgeInv'
<1> USE DEF BridgeInv
<1>1. /\ links' = links /\ remote' = remote /\ client.timers > 0
      /\ client' = [ws |-> client.ws, session |-> client.session, attempts |-> client.attempts,
                    timers |-> client.timers - 1, asked |-> client.asked + 1,
                    answered |-> client.answered, users |-> client.users]
  BY DEF TimerFires, BridgeType, Clients
<1>2. BridgeType'
  BY <1>1 DEF BridgeType, Clients
<1>3. OpenLinks' = OpenLinks /\ Held' = Held
  BY <1>1 DEF OpenLinks, Held
<1>4. ConnectionsDoNotMultiply'
  BY <1>1, <1>3, BridgeSets DEF BridgeSound, ConnectionsDoNotMultiply
<1>5. ClientGivesUp'
  BY <1>1, BridgeSets DEF BridgeSound, ClientGivesUp, BridgeType, Clients
<1> QED
  BY <1>1, <1>2, <1>3, <1>4, <1>5 DEF NobodyNamed, BridgeSound

LEMMA FetchFailsKeeps ==
    ASSUME BridgeInv, FetchFails
    PROVE  BridgeInv'
<1> USE DEF BridgeInv
<1>1. links' = links /\ remote' = remote
  BY DEF FetchFails
<1>2. OpenLinks' = OpenLinks /\ Held' = Held
  BY <1>1 DEF OpenLinks, Held
<1>3. /\ client' \in Clients /\ client'.ws = client.ws
      /\ client'.timers = client.timers /\ client'.users = client.users
      /\ client'.attempts = client.attempts /\ client'.asked <= client.asked
      /\ client'.answered \subseteq client.answered
      /\ client'.asked + Cardinality(client'.answered)
            < client.asked + Cardinality(client.answered)
  <2>1. CASE client.asked > 0 /\ client' = [client EXCEPT !.asked = @ - 1]
    <3>1. client' = [ws |-> client.ws, session |-> client.session, attempts |-> client.attempts,
                      timers |-> client.timers, asked |-> client.asked - 1,
                      answered |-> client.answered, users |-> client.users]
      BY <2>1 DEF BridgeType, Clients
    <3>2. client.asked - 1 \in Nat
      BY <2>1, BridgeSets
    <3>3. client' \in Clients
      BY <3>1, <3>2 DEF BridgeType, Clients
    <3>4. client'.asked = client.asked - 1 /\ client'.answered = client.answered
      BY <3>1
    <3>5. Cardinality(client'.answered) = Cardinality(client.answered)
      BY <3>4
    <3>6. client'.asked + Cardinality(client'.answered)
            < client.asked + Cardinality(client.answered)
      BY <3>4, <3>5, BridgeSets
    <3> QED
      BY <3>1, <3>3, <3>6, BridgeSets
  <2>2. ASSUME NEW s \in client.answered, client' = [client EXCEPT !.answered = @ \ {s}]
        PROVE  /\ client' \in Clients /\ client'.ws = client.ws
               /\ client'.timers = client.timers /\ client'.users = client.users
               /\ client'.attempts = client.attempts /\ client'.asked <= client.asked
               /\ client'.answered \subseteq client.answered
               /\ client'.asked + Cardinality(client'.answered)
                    < client.asked + Cardinality(client.answered)
    <3>1. client' = [ws |-> client.ws, session |-> client.session, attempts |-> client.attempts,
                     timers |-> client.timers, asked |-> client.asked,
                     answered |-> client.answered \ {s}, users |-> client.users]
      BY <2>2 DEF BridgeType, Clients
    <3>2. client' \in Clients
      BY <3>1 DEF BridgeType, Clients
    <3>3. client'.asked = client.asked /\ client'.answered = client.answered \ {s}
      BY <3>1
    <3>4. Cardinality(client'.answered) = Cardinality(client.answered) - 1
      BY <3>3, BridgeSets, OneLess
    <3>5. client'.asked + Cardinality(client'.answered)
            < client.asked + Cardinality(client.answered)
      BY <3>3, <3>4, BridgeSets
    <3> QED
      BY <3>1, <3>2, <3>5, BridgeSets
  <2> QED
    BY <2>1, <2>2 DEF FetchFails
<1>4. BridgeType'
  BY <1>1, <1>3 DEF BridgeType
<1>5. ConnectionsDoNotMultiply'
  <2>1. client'.asked \in Nat /\ Cardinality(client'.answered) \in Nat
    <3>1. IsFiniteSet(client'.answered)
      BY <1>3, BridgeSets, FS_Subset
    <3> QED
      BY <1>3, <3>1, FS_CardinalityType DEF Clients
  <2> QED
    BY <1>2, <1>3, <2>1, BridgeSets, SMTT(30) DEF BridgeSound, ConnectionsDoNotMultiply
<1>6. NobodyNamed'
  BY <1>1 DEF NobodyNamed
<1>7. ClientGivesUp'
  BY <1>1, <1>3, <1>4, BridgeSets DEF BridgeSound, ClientGivesUp, BridgeType, Clients
<1> QED
  BY <1>1, <1>2, <1>4, <1>5, <1>6, <1>7 DEF BridgeSound

\* A socket more for an answer less.
LEMMA OpenSocketKeeps ==
    ASSUME BridgeInv, NEW s, OpenSocket(s)
    PROVE  BridgeInv'
<1> USE DEF BridgeInv
<1> DEFINE n == Len(links) + 1
<1>1. /\ remote' = remote /\ s \in client.answered
      /\ links' = Append(links, Link)
      /\ client' = [ws |-> n, session |-> s, attempts |-> client.attempts,
                    timers |-> client.timers, asked |-> client.asked,
                    answered |-> client.answered \ {s}, users |-> client.users]
  BY DEF OpenSocket, BridgeType, Clients
<1>2. /\ Len(links) \in Nat /\ Len(links') = n /\ links'[n] = Link
      /\ \A l \in 1..Len(links) : links'[l] = links[l]
      /\ s \in Nat /\ s \in 1..Len(remote) /\ Link \in Links
      /\ links' \in Seq(Links)
  <2>1. s \in Nat /\ s \in 1..Len(remote) /\ links \in Seq(Links)
    BY <1>1, BridgeSets DEF BridgeType
  <2>2. Link \in Links
    BY <2>1 DEF Link, Links, Undefined
  <2> HIDE DEF Links
  <2> QED
    BY <1>1, <2>1, <2>2, AppendProperties
<1>3. DOMAIN links = 1..Len(links) /\ DOMAIN links' = 1..n
  BY <1>2, BridgeSets
<1>4. BridgeType'
  BY <1>1, <1>2 DEF BridgeType, Clients
<1>5. Held' = Held
  BY <1>1 DEF Held
<1>6. OpenLinks' = OpenLinks \cup {n}
  BY <1>2, <1>3 DEF OpenLinks, Link
<1>7. ConnectionsDoNotMultiply'
  <2>1. Cardinality(client.answered \ {s}) = Cardinality(client.answered) - 1
    BY <1>1, BridgeSets, OneLess
  <2>2. Cardinality(OpenLinks \cup {n}) <= Cardinality(OpenLinks) + 1
    BY BridgeSets, OneMore
  <2>3. Cardinality(OpenLinks \cup {n}) \in Nat
    BY BridgeSets, FS_AddElement, FS_CardinalityType
  <2>4. /\ client'.asked = client.asked /\ client'.timers = client.timers
        /\ client'.users = client.users
    BY <1>1
  <2>5. /\ Cardinality(client'.answered) = Cardinality(client.answered) - 1
        /\ Cardinality(OpenLinks') <= Cardinality(OpenLinks) + 1
        /\ Cardinality(OpenLinks') \in Nat
    BY <1>1, <1>6, <2>1, <2>2, <2>3
  <2>6. /\ client.asked \in Nat /\ client.timers \in Nat
        /\ Cardinality(client.answered) \in Nat /\ Cardinality(OpenLinks) \in Nat
    BY BridgeSets
  <2> QED
    BY <2>4, <2>5, <2>6, NoMoreThanAsked
<1>8. NobodyNamed'
  <2>1. 1..n = (1..Len(links)) \cup {n}
    BY <1>2
  <2> QED
    BY <1>2, <2>1 DEF NobodyNamed, Link
<1>9. ClientGivesUp'
  BY <1>1 DEF BridgeSound, ClientGivesUp
<1> QED
  BY <1>4, <1>5, <1>7, <1>8, <1>9 DEF BridgeSound

\* A call due for a socket less.
LEMMA SocketClosesKeeps ==
    ASSUME BridgeInv, NEW l \in DOMAIN links, SocketCloses(l)
    PROVE  BridgeInv'
<1> USE DEF BridgeInv
<1> DEFINE x == [links[l] EXCEPT !.page = "closed"]
<1>1. /\ x \in Links /\ x.session = links[l].session /\ x.server = links[l].server
      /\ x.page = "closed" /\ links[l].page # "closed"
      /\ links' = [links EXCEPT ![l] = x]
  BY LinkType, LinkValues DEF SocketCloses
<1> HIDE DEF x
<1>2. /\ links' \in Seq(Links) /\ Len(links') = Len(links) /\ links'[l] = x /\ l \in 1..Len(links)
      /\ \A k \in 1..Len(links) : k # l => links'[k] = links[k]
  BY <1>1, LinkType
<1>3. remote' = remote
  BY DEF SocketCloses
<1>4. PICK attempts, timers \in Nat :
        /\ client' = [ws |-> client.ws, session |-> client.session, attempts |-> attempts,
                      timers |-> timers, asked |-> client.asked,
                      answered |-> client.answered, users |-> client.users]
        /\ timers <= client.timers + 1
        /\ timers - attempts = client.timers - client.attempts /\ attempts <= maxReconnectAttempts
  <2>1. CASE client.attempts < maxReconnectAttempts
    <3>1. client' = [ws |-> client.ws, session |-> client.session,
                     attempts |-> client.attempts + 1, timers |-> client.timers + 1,
                     asked |-> client.asked, answered |-> client.answered, users |-> client.users]
      BY <2>1 DEF SocketCloses, BridgeType, Clients
    <3>2. /\ client.attempts \in Nat /\ client.timers \in Nat
      BY DEF BridgeType, Clients
    <3>3. PICK a, t \in Nat : a = client.attempts + 1 /\ t = client.timers + 1
      BY <3>2
    <3>4. a <= maxReconnectAttempts /\ t - a = client.timers - client.attempts /\ t <= client.timers + 1
      BY <2>1, <3>2, <3>3, BridgeAssumption
    <3>5. client' = [ws |-> client.ws, session |-> client.session, attempts |-> a, timers |-> t,
                     asked |-> client.asked, answered |-> client.answered, users |-> client.users]
      BY <3>1, <3>3
    <3> QED
      BY <3>4, <3>5
  <2>2. CASE ~(client.attempts < maxReconnectAttempts)
    <3>1. client' = [ws |-> client.ws, session |-> client.session,
                     attempts |-> client.attempts, timers |-> client.timers,
                     asked |-> client.asked, answered |-> client.answered, users |-> client.users]
      BY <2>2 DEF SocketCloses, BridgeType, Clients
    <3>2. /\ client.attempts \in Nat /\ client.timers \in Nat
          /\ client.attempts <= maxReconnectAttempts
      BY DEF BridgeType, Clients, BridgeSound, ClientGivesUp
    <3> QED
      BY <3>1, <3>2
  <2> QED
    BY <2>1, <2>2
<1>5. BridgeType'
  BY <1>2, <1>3, <1>4 DEF BridgeType, Clients
<1>6. Held' = Held
  BY <1>3 DEF Held
<1>7. OpenLinks' = OpenLinks \ {l} /\ l \in OpenLinks
  <2>1. DOMAIN links = 1..Len(links) /\ DOMAIN links' = 1..Len(links)
    BY <1>2, BridgeSets
  <2> QED
    BY <1>1, <1>2, <2>1 DEF OpenLinks
<1>8. ConnectionsDoNotMultiply'
  <2>1. Cardinality(OpenLinks \ {l}) = Cardinality(OpenLinks) - 1
    BY <1>7, BridgeSets, OneLess
  <2>2. /\ client'.asked = client.asked /\ client'.timers \in Nat
        /\ client'.timers <= client.timers + 1 /\ client'.users = client.users
    BY <1>4
  <2>3. /\ Cardinality(client'.answered) = Cardinality(client.answered)
        /\ Cardinality(OpenLinks') = Cardinality(OpenLinks) - 1
    BY <1>4, <1>7, <2>1
  <2>4. /\ client.asked \in Nat /\ client.timers \in Nat
        /\ Cardinality(client.answered) \in Nat /\ Cardinality(OpenLinks) \in Nat
    BY BridgeSets
  <2> QED
    BY <2>2, <2>3, <2>4, NoMoreThanAsked
<1>9. NobodyNamed'
  <2>1. \A k \in 1..Len(links) : links'[k].session = links[k].session
    BY <1>1, <1>2
  <2> QED
    BY <1>2, <2>1 DEF NobodyNamed
<1>10. ClientGivesUp'
  BY <1>3, <1>4, BridgeSets DEF BridgeType, Clients, BridgeSound, ClientGivesUp
<1> QED
  BY <1>5, <1>6, <1>8, <1>9, <1>10 DEF BridgeSound

\* A call refused, or a session more and an answer more for a call less.
LEMMA BridgeConnectKeeps ==
    ASSUME BridgeInv, BridgeConnect
    PROVE  BridgeInv'
<1> USE DEF BridgeInv
<1>1. links' = links /\ OpenLinks' = OpenLinks /\ client.asked - 1 \in Nat
  BY BridgeSets DEF BridgeConnect, OpenLinks
<1>2. CASE Cardinality(Held) >= max_sessions
  <2>1. /\ remote' = remote
        /\ client' = [ws |-> client.ws, session |-> client.session, attempts |-> client.attempts,
                      timers |-> client.timers, asked |-> client.asked - 1,
                      answered |-> client.answered, users |-> client.users]
    BY <1>2 DEF BridgeConnect, BridgeType, Clients
  <2>2. BridgeType'
    BY <1>1, <2>1 DEF BridgeType, Clients
  <2>3. Held' = Held
    BY <2>1 DEF Held
  <2>4. ConnectionsDoNotMultiply'
    <3>1. /\ client'.asked = client.asked - 1 /\ client'.timers = client.timers
          /\ client'.users = client.users
      BY <2>1
    <3>2. /\ Cardinality(client'.answered) = Cardinality(client.answered)
          /\ Cardinality(OpenLinks') = Cardinality(OpenLinks)
      BY <1>1, <2>1
    <3>3. /\ client.asked \in Nat /\ client.timers \in Nat
          /\ Cardinality(client.answered) \in Nat /\ Cardinality(OpenLinks) \in Nat
      BY BridgeSets
    <3> QED
      BY <3>1, <3>2, <3>3, NoMoreThanAsked
  <2>5. ClientGivesUp'
    BY <1>1, <2>1, BridgeSets DEF BridgeSound, ClientGivesUp, BridgeType, Clients
  <2> QED
    BY <1>1, <2>1, <2>2, <2>3, <2>4, <2>5 DEF NobodyNamed, BridgeSound
<1>3. CASE ~(Cardinality(Held) >= max_sessions)
  <2> DEFINE n == Len(remote) + 1
  <2>1. /\ remote' = Append(remote, "connecting")
        /\ client' = [ws |-> client.ws, session |-> client.session, attempts |-> client.attempts,
                      timers |-> client.timers, asked |-> client.asked - 1,
                      answered |-> client.answered \cup {n}, users |-> client.users]
    BY <1>3 DEF BridgeConnect, BridgeType, Clients
  <2>2. /\ Len(remote) \in Nat /\ Len(remote') = n /\ remote'[n] = "connecting"
        /\ \A r \in 1..Len(remote) : remote'[r] = remote[r]
        /\ remote' \in Seq(RemoteStates)
    BY <2>1, AppendProperties DEF BridgeType, RemoteStates
  <2>3. BridgeType'
    BY <1>1, <2>1, <2>2 DEF BridgeType, Clients
  <2>4. Held' = Held \cup {n}
    <3>1. DOMAIN remote = 1..Len(remote) /\ DOMAIN remote' = 1..n
      BY <2>2, BridgeSets
    <3> QED
      BY <2>2, <3>1 DEF Held
  <2>5. Cardinality(Held)' <= max_sessions
    <3>1. Cardinality(Held \cup {n}) <= Cardinality(Held) + 1
      BY BridgeSets, OneMore
    <3>2. Cardinality(Held \cup {n}) \in Nat
      BY BridgeSets, FS_AddElement, FS_CardinalityType
    <3> QED
      BY <1>3, <2>4, <3>1, <3>2, BridgeSets, BridgeAssumption
  <2>6. ConnectionsDoNotMultiply'
    <3>1. Cardinality(client.answered \cup {n}) <= Cardinality(client.answered) + 1
      BY BridgeSets, OneMore
    <3>2. Cardinality(client.answered \cup {n}) \in Nat
      BY BridgeSets, FS_AddElement, FS_CardinalityType
    <3>3. /\ client'.asked = client.asked - 1 /\ client'.timers = client.timers
          /\ client'.users = client.users
      BY <2>1
    <3>4. /\ Cardinality(client'.answered) <= Cardinality(client.answered) + 1
          /\ Cardinality(client'.answered) \in Nat
          /\ Cardinality(OpenLinks') = Cardinality(OpenLinks)
      BY <1>1, <2>1, <3>1, <3>2
    <3>5. /\ client.asked \in Nat /\ client.timers \in Nat
          /\ Cardinality(client.answered) \in Nat /\ Cardinality(OpenLinks) \in Nat
      BY BridgeSets
    <3> QED
      BY <3>3, <3>4, <3>5, NoMoreThanAsked
  <2>7. NobodyNamed'
    BY <1>1 DEF NobodyNamed
  <2>8. ClientGivesUp'
    BY <1>1, <2>1, <2>2, BridgeSets DEF BridgeSound, ClientGivesUp, BridgeType, Clients
  <2> QED
    BY <2>3, <2>5, <2>6, <2>7, <2>8 DEF BridgeSound
<1> QED
  BY <1>2, <1>3

\* Whatever the number of sessions allowed, of attempts and of calls: the table stays within
\* max_sessions, the client has no more connections made, under way or due than the user asked
\* for, and gives up after its attempts (remote_bridge.py:68, RemoteBridgeClient.ts:58-67).
THEOREM BridgeIsSound == BridgeSpec => []BridgeSound
<1>1. BridgeInit => BridgeInv
  <2> SUFFICES ASSUME BridgeInit
               PROVE  BridgeInv
    OBVIOUS
  <2>1. BridgeType
    BY DEF BridgeInit, BridgeType, Clients
  <2>2. Held = {} /\ OpenLinks = {} /\ client.answered = {}
    BY DEF BridgeInit, Held, OpenLinks
  <2>3. Cardinality({}) = 0
    BY FS_EmptySet
  <2>4. NobodyNamed /\ ClientGivesUp
    BY BridgeAssumption DEF BridgeInit, NobodyNamed, ClientGivesUp
  <2>5. ConnectionsDoNotMultiply
    BY <2>2, <2>3 DEF BridgeInit, ConnectionsDoNotMultiply
  <2> QED
    BY <2>1, <2>2, <2>3, <2>4, <2>5, BridgeAssumption DEF BridgeInv, BridgeSound
<1>2. BridgeInv /\ [BridgeNext]_bridgeVars => BridgeInv'
  <2> SUFFICES ASSUME BridgeInv, [BridgeNext]_bridgeVars
               PROVE  BridgeInv'
    OBVIOUS
  <2>1. CASE BridgeNext
    BY <2>1, UserConnectsKeeps, TimerFiresKeeps, FetchFailsKeeps, UserDisconnectsKeeps,
       BridgeConnectKeeps, OpenSocketKeeps, ForceKeeps, SocketOpensKeeps, SocketClosesKeeps,
       AcceptKeeps, ServerNoticesKeeps, AuthenticateKeeps DEF BridgeNext
  <2>2. CASE UNCHANGED bridgeVars
    BY <2>2 DEF bridgeVars, BridgeInv, BridgeType, NobodyNamed, BridgeSound, Held, OpenLinks,
                ConnectionsDoNotMultiply, ClientGivesUp
  <2> QED
    BY <2>1, <2>2
<1>3. BridgeInv => BridgeSound
  BY DEF BridgeInv
<1> QED
  BY <1>1, <1>2, <1>3, PTL DEF BridgeSpec

-----------------------------------------------------------------------------
(* The pipe to an MCP server. *)

Calling == [place : {"idle", "draining", "reading", "answered"}, id : Nat, answer : Nat,
            alone : BOOLEAN, late : BOOLEAN]

PipeType ==
    /\ rpc \in [RpcCallers -> Calling]
    /\ stdin \in Seq(Nat)
    /\ stdout \in Seq(Nat)
    /\ waiter \in RpcCallers \cup {NoCaller}
    /\ rpcs \in Nat
    /\ unasked \in Nat

\* Every line and every call has a number given out.
Numbered ==
    /\ \A i \in 1..Len(stdin) : stdin[i] <= rpcs
    /\ \A i \in 1..Len(stdout) : stdout[i] <= rpcs
    /\ \A t \in RpcCallers : UnderWay(t) => rpc[t].id > 0

\* The lines on their way answer t's request or nobody's.
OnlyForMe(t) ==
    /\ \A i \in 1..Len(stdin) : stdin[i] \in {rpc[t].id, Unasked}
    /\ \A i \in 1..Len(stdout) : stdout[i] \in {rpc[t].id, Unasked}

\* The line that is read next is not the answer to t's request.
AnothersFirst(t) ==
    \/ stdout # <<>> /\ stdout[1] # rpc[t].id
    \/ stdout = <<>> /\ stdin # <<>> /\ stdin[1] # rpc[t].id

\* While a call is alone in _rpc, the pipe holds its lines only, or begins with another's.
AloneInPipe ==
    \A t \in RpcCallers : UnderWay(t) /\ rpc[t].alone =>
        /\ \A u \in RpcCallers : UnderWay(u) => u = t
        /\ ~rpc[t].late => OnlyForMe(t)
        /\ rpc[t].late => AnothersFirst(t)

PipeInv == PipeType /\ Numbered /\ AloneInPipe /\ AnswersMatch

LEMMA RpcKeeps ==
    ASSUME PipeInv, NEW t \in RpcCallers, Rpc(t)
    PROVE  PipeInv'
<1> USE DEF PipeInv, PipeType, Calling
<1>1. /\ rpc \in [RpcCallers -> Calling] /\ Quiet \in BOOLEAN
      /\ stdin \in Seq(Nat) /\ stdout \in Seq(Nat) /\ rpcs \in Nat
  BY DEF Quiet
<1>2. PICK q, l \in BOOLEAN : q = Quiet /\ l = (stdin # <<>> \/ stdout # <<>>)
  BY <1>1
<1>3. rpc' = [u \in RpcCallers |->
                IF u = t
                THEN [place |-> "draining", id |-> rpcs + 1, answer |-> 0, alone |-> q, late |-> l]
                ELSE [rpc[u] EXCEPT !.alone = rpc[u].alone /\ ~UnderWay(u)]]
  BY <1>2 DEF Rpc
<1>4. /\ rpc'[t].place = "draining" /\ rpc'[t].id = rpcs + 1 /\ rpc'[t].answer = 0
      /\ rpc'[t].alone = q /\ rpc'[t].late = l
  BY <1>3
<1>5. \A u \in RpcCallers : u # t =>
        /\ rpc'[u].place = rpc[u].place /\ rpc'[u].id = rpc[u].id
        /\ rpc'[u].answer = rpc[u].answer /\ rpc'[u].late = rpc[u].late
        /\ rpc'[u].alone = (rpc[u].alone /\ ~UnderWay(u))
  BY <1>1, <1>3
<1>6. rpc' \in [RpcCallers -> Calling]
  <2>1. \A u \in RpcCallers : (rpc[u].alone /\ ~UnderWay(u)) \in BOOLEAN
    BY DEF UnderWay
  <2>2. \A u \in RpcCallers : u # t => [rpc[u] EXCEPT !.alone = rpc[u].alone /\ ~UnderWay(u)] \in Calling
    BY <1>1, <2>1
  <2>3. [place |-> "draining", id |-> rpcs + 1, answer |-> 0, alone |-> q, late |-> l] \in Calling
    BY <1>1
  <2> QED
    BY <1>3, <2>2, <2>3
<1>7. PipeType'
  <2>1. Append(stdin, rpcs + 1) \in Seq(Nat) /\ rpcs + 1 \in Nat
    BY <1>1
  <2> QED
    BY <1>6, <2>1 DEF Rpc
<1>8. /\ stdin' = Append(stdin, rpcs + 1) /\ stdout' = stdout /\ rpcs' = rpcs + 1
      /\ Len(stdin') = Len(stdin) + 1
      /\ \A i \in 1..Len(stdin) : stdin'[i] = stdin[i]
      /\ stdin'[Len(stdin) + 1] = rpcs + 1
  BY <1>1 DEF Rpc
<1>9. Numbered'
  <2>1. /\ \A i \in 1..Len(stdin) : stdin[i] \in Nat /\ stdin[i] <= rpcs
        /\ \A i \in 1..Len(stdout) : stdout[i] \in Nat /\ stdout[i] <= rpcs
    BY <1>1 DEF Numbered
  <2>2. \A i \in 1..(Len(stdin) + 1) : i \in 1..Len(stdin) \/ i = Len(stdin) + 1
    BY <1>1
  <2>3. \A i \in 1..Len(stdin') : stdin'[i] <= rpcs'
    BY <1>1, <1>8, <2>1, <2>2
  <2>4. \A i \in 1..Len(stdout') : stdout'[i] <= rpcs'
    BY <1>1, <1>8, <2>1
  <2>5. \A u \in RpcCallers : UnderWay(u)' => rpc'[u].id > 0
    <3>1. rpcs + 1 > 0
      BY <1>1
    <3>2. UnderWay(t)' => rpc'[t].id > 0
      BY <1>4, <3>1
    <3>3. ASSUME NEW u \in RpcCallers, u # t, UnderWay(u)'
          PROVE  rpc'[u].id > 0
      <4>1. UnderWay(u)
        BY <1>5, <3>3 DEF UnderWay
      <4>2. rpc[u].id > 0
        BY <4>1 DEF Numbered
      <4> QED
        BY <1>5, <3>3, <4>2
    <3> QED
      BY <3>2, <3>3
  <2> QED
    BY <2>3, <2>4, <2>5 DEF Numbered
<1>10. AloneInPipe'
  <2>1. ASSUME NEW u \in RpcCallers, u # t
        PROVE  ~(UnderWay(u) /\ rpc[u].alone)'
    BY <1>5, <2>1 DEF UnderWay
  <2>2. ASSUME q
        PROVE  \A u \in RpcCallers : UnderWay(u)' => u = t
    BY <1>2, <1>5, <2>2 DEF Quiet, UnderWay
  <2>3. ASSUME ~l
        PROVE  OnlyForMe(t)'
    <3>1. stdin = <<>> /\ stdout = <<>>
      BY <1>2, <2>3
    <3> QED
      BY <1>4, <1>8, <3>1 DEF OnlyForMe
  <2>4. ASSUME l
        PROVE  AnothersFirst(t)'
    <3>1. CASE stdout # <<>>
      <4>1. 1 \in 1..Len(stdout)
        BY <1>1, <3>1
      <4>2. stdout[1] \in Nat /\ stdout[1] <= rpcs
        BY <1>1, <4>1 DEF Numbered
      <4> QED
        BY <1>1, <1>4, <1>8, <3>1, <4>2 DEF AnothersFirst
    <3>2. CASE stdout = <<>>
      <4>1. stdin # <<>>
        BY <1>2, <2>4, <3>2
      <4>2. 1 \in 1..Len(stdin) /\ stdin' # <<>>
        BY <1>1, <1>8, <4>1
      <4>3. stdin[1] \in Nat /\ stdin[1] <= rpcs /\ stdin'[1] = stdin[1]
        BY <1>1, <1>8, <4>2 DEF Numbered
      <4> QED
        BY <1>1, <1>4, <1>8, <3>2, <4>2, <4>3 DEF AnothersFirst
    <3> QED
      BY <3>1, <3>2
  <2> QED
    BY <1>4, <2>1, <2>2, <2>3, <2>4 DEF AloneInPipe
<1>11. AnswersMatch'
  <2>1. ASSUME NEW u \in RpcCallers, u # t, rpc'[u].place = "answered", rpc'[u].alone
        PROVE  rpc[u].place = "answered" /\ rpc[u].alone
    BY <1>5, <2>1
  <2>2. ASSUME NEW u \in RpcCallers, rpc'[u].place = "answered", rpc'[u].alone
        PROVE  /\ ~rpc'[u].late => rpc'[u].answer \in {rpc'[u].id, Unasked}
               /\ rpc'[u].late => rpc'[u].answer # rpc'[u].id
    <3>1. u # t
      BY <1>4, <2>2
    <3>2. rpc[u].place = "answered" /\ rpc[u].alone
      BY <2>1, <2>2, <3>1
    <3>3. /\ ~rpc[u].late => rpc[u].answer \in {rpc[u].id, Unasked}
          /\ rpc[u].late => rpc[u].answer # rpc[u].id
      BY <3>2 DEF AnswersMatch
    <3> QED
      BY <1>5, <3>1, <3>3
  <2> QED
    BY <2>2 DEF AnswersMatch
<1> QED
  BY <1>7, <1>9, <1>10, <1>11

\* A caller's place changes and nothing else.
LEMMA PlaceKeeps ==
    ASSUME PipeInv, NEW t \in RpcCallers, UnderWay(t), NEW p \in {"idle", "reading"},
           rpc' = [rpc EXCEPT ![t].place = p],
           waiter' \in RpcCallers \cup {NoCaller}, UNCHANGED <<stdin, stdout, rpcs, unasked>>
    PROVE  PipeInv'
<1> USE DEF PipeInv, PipeType, Calling
<1>1. PipeType'
  OBVIOUS
<1>2. \A u \in RpcCallers : /\ rpc'[u].id = rpc[u].id /\ rpc'[u].answer = rpc[u].answer
                            /\ rpc'[u].alone = rpc[u].alone /\ rpc'[u].late = rpc[u].late
                            /\ u # t => rpc'[u].place = rpc[u].place
  OBVIOUS
<1>3. rpc'[t].place = p
  OBVIOUS
<1>4. \A u \in RpcCallers : UnderWay(u)' => UnderWay(u)
  BY <1>2, <1>3 DEF UnderWay
<1>5. Numbered'
  BY <1>2, <1>4 DEF Numbered
<1>6. AloneInPipe'
  BY <1>2, <1>4 DEF AloneInPipe, OnlyForMe, AnothersFirst
<1>7. AnswersMatch'
  BY <1>2, <1>3 DEF AnswersMatch
<1> QED
  BY <1>1, <1>5, <1>6, <1>7

LEMMA TakesLine ==
    ASSUME PipeInv, NEW t \in RpcCallers, rpc[t].place = "reading", stdout # <<>>,
           rpc' = [rpc EXCEPT ![t].place = "answered", ![t].answer = Head(stdout)],
           stdout' = Tail(stdout), UNCHANGED <<stdin, waiter, rpcs, unasked>>
    PROVE  PipeInv'
<1> USE DEF PipeInv, PipeType, Calling
<1>1. stdout \in Seq(Nat) /\ 1 \in 1..Len(stdout) /\ Head(stdout) = stdout[1]
  OBVIOUS
<1>2. PICK n \in Nat : n = stdout[1]
  BY <1>1
<1>3. rpc' = [rpc EXCEPT ![t].place = "answered", ![t].answer = n]
  BY <1>1, <1>2
<1>4. /\ stdout' \in Seq(Nat) /\ Len(stdout') = Len(stdout) - 1
      /\ \A i \in 1..Len(stdout') : stdout'[i] = stdout[i + 1] /\ i + 1 \in 1..Len(stdout)
  BY <1>1
<1>5. PipeType'
  <2>1. [rpc[t] EXCEPT !.place = "answered", !.answer = n] \in Calling
    OBVIOUS
  <2>2. rpc' \in [RpcCallers -> Calling]
    BY <1>3, <2>1
  <2> QED
    BY <1>4, <2>2
<1>6. /\ \A u \in RpcCallers : /\ rpc'[u].id = rpc[u].id /\ rpc'[u].alone = rpc[u].alone
                               /\ rpc'[u].late = rpc[u].late
                               /\ u # t => rpc'[u] = rpc[u]
      /\ rpc'[t].place = "answered" /\ rpc'[t].answer = n
  BY <1>3
<1>7. \A u \in RpcCallers : UnderWay(u)' => UnderWay(u) /\ u # t
  BY <1>6 DEF UnderWay
<1>8. Numbered'
  BY <1>4, <1>6, <1>7 DEF Numbered
<1>9. UnderWay(t)
  BY DEF UnderWay
<1>10. AloneInPipe'
  BY <1>6, <1>7, <1>9 DEF AloneInPipe
<1>11. rpc[t].alone => (~rpc[t].late => n \in {rpc[t].id, Unasked}) /\ (rpc[t].late => n # rpc[t].id)
  BY <1>1, <1>2, <1>9 DEF AloneInPipe, OnlyForMe, AnothersFirst
<1>12. AnswersMatch'
  BY <1>6, <1>11 DEF AnswersMatch
<1> QED
  BY <1>5, <1>8, <1>10, <1>12

LEMMA ReadLineKeeps ==
    ASSUME PipeInv, NEW t \in RpcCallers, ReadLine(t)
    PROVE  PipeInv'
<1>1. CASE stdout # <<>>
  BY <1>1, TakesLine DEF ReadLine
<1>2. CASE stdout = <<>> /\ waiter = NoCaller
  BY <1>2 DEF ReadLine, PipeInv, PipeType, Numbered, AloneInPipe, AnswersMatch, UnderWay,
              OnlyForMe, AnothersFirst
<1>3. CASE stdout = <<>> /\ waiter # NoCaller
  <2>1. waiter' \in RpcCallers \cup {NoCaller} /\ UnderWay(t)
    BY <1>3 DEF ReadLine, PipeInv, PipeType, UnderWay
  <2> QED
    BY <1>3, <2>1, PlaceKeeps DEF ReadLine
<1> QED
  BY <1>1, <1>2, <1>3

\* A line is added to the output: one nobody asked for, or the one stdin began with.
LEMMA LineAdded ==
    ASSUME PipeInv, NEW n \in Nat, stdout' = Append(stdout, n), stdin' \in Seq(Nat),
           \/ n = Unasked /\ stdin' = stdin
           \/ stdin # <<>> /\ n = stdin[1] /\ stdin' = Tail(stdin),
           unasked' \in Nat, waiter' = NoCaller, UNCHANGED <<rpc, rpcs>>
    PROVE  PipeInv'
<1> USE DEF PipeInv, PipeType
<1>1. PipeType'
  OBVIOUS
<1>2. stdin \in Seq(Nat) /\ stdout \in Seq(Nat) /\ rpcs \in Nat
  OBVIOUS
<1>3. /\ Len(stdout') = Len(stdout) + 1 /\ stdout'[Len(stdout) + 1] = n /\ stdout' # <<>>
      /\ \A i \in 1..Len(stdout) : stdout'[i] = stdout[i]
  BY <1>2
<1>4. \A i \in 1..Len(stdin') : \E j \in 1..Len(stdin) : stdin'[i] = stdin[j]
  <2>1. CASE stdin' = stdin
    BY <2>1
  <2>2. CASE stdin # <<>> /\ stdin' = Tail(stdin)
    <3>1. \A i \in 1..Len(stdin') : stdin'[i] = stdin[i + 1] /\ i + 1 \in 1..Len(stdin)
      BY <1>2, <2>2
    <3> QED
      BY <3>1
  <2> QED
    BY <2>1, <2>2
<1>5. n = Unasked \/ (1 \in 1..Len(stdin) /\ n = stdin[1])
  BY <1>2
<1>6. n <= rpcs
  BY <1>2, <1>5 DEF Numbered, Unasked
<1>7. Numbered'
  <2>1. \A i \in 1..Len(stdin') : stdin'[i] <= rpcs
    BY <1>4 DEF Numbered
  <2>2. \A i \in 1..Len(stdout') : stdout'[i] <= rpcs
    <3>1. \A i \in 1..Len(stdout') : i \in 1..Len(stdout) \/ i = Len(stdout) + 1
      BY <1>2, <1>3
    <3> QED
      BY <1>3, <1>6, <3>1 DEF Numbered
  <2> QED
    BY <2>1, <2>2 DEF Numbered, UnderWay
<1>8. ASSUME NEW t \in RpcCallers, OnlyForMe(t)
      PROVE  OnlyForMe(t)'
  <2>1. n \in {rpc[t].id, Unasked}
    BY <1>5, <1>8 DEF OnlyForMe
  <2>2. \A i \in 1..Len(stdin') : stdin'[i] \in {rpc[t].id, Unasked}
    BY <1>4, <1>8 DEF OnlyForMe
  <2>3. \A i \in 1..Len(stdout') : stdout'[i] \in {rpc[t].id, Unasked}
    <3>1. \A i \in 1..Len(stdout') : i \in 1..Len(stdout) \/ i = Len(stdout) + 1
      BY <1>2, <1>3
    <3> QED
      BY <1>3, <1>8, <2>1, <3>1 DEF OnlyForMe
  <2> QED
    BY <2>2, <2>3 DEF OnlyForMe
<1>9. ASSUME NEW t \in RpcCallers, UnderWay(t), AnothersFirst(t)
      PROVE  AnothersFirst(t)'
  <2>1. CASE stdout # <<>>
    <3>1. 1 \in 1..Len(stdout)
      BY <1>2, <2>1
    <3> QED
      BY <1>3, <1>9, <2>1, <3>1 DEF AnothersFirst
  <2>2. CASE stdout = <<>>
    <3>1. stdin # <<>> /\ stdin[1] # rpc[t].id /\ Len(stdout) = 0
      BY <1>9, <2>2 DEF AnothersFirst
    <3>2. rpc[t].id > 0
      BY <1>9 DEF Numbered
    <3>3. n # rpc[t].id
      BY <1>5, <3>1, <3>2 DEF Unasked
    <3>4. stdout'[1] = n
      BY <1>3, <3>1
    <3> QED
      BY <1>3, <3>3, <3>4 DEF AnothersFirst
  <2> QED
    BY <2>1, <2>2
<1>10. AloneInPipe'
  BY <1>8, <1>9 DEF AloneInPipe, UnderWay
<1>11. AnswersMatch'
  BY DEF AnswersMatch
<1> QED
  BY <1>1, <1>7, <1>10, <1>11

LEMMA AnswerKeeps ==
    ASSUME PipeInv, Answer
    PROVE  PipeInv'
<1>1. stdin \in Seq(Nat) /\ stdin # <<>> /\ stdin' = Tail(stdin)
  BY DEF Answer, PipeInv, PipeType
<1>2. PICK n \in Nat : n = stdin[1] /\ n = Head(stdin)
  BY <1>1
<1>3. stdin' \in Seq(Nat) /\ stdout' = Append(stdout, n)
  BY <1>1, <1>2 DEF Answer
<1>4. unasked' \in Nat /\ waiter' = NoCaller /\ UNCHANGED <<rpc, rpcs>>
  BY DEF Answer, PipeInv, PipeType
<1> QED
  BY <1>1, <1>2, <1>3, <1>4, LineAdded

LEMMA SpeakKeeps ==
    ASSUME PipeInv, Speak
    PROVE  PipeInv'
<1>1. stdin \in Seq(Nat) /\ stdin' = stdin /\ Unasked \in Nat
  BY DEF Speak, PipeInv, PipeType, Unasked
<1>2. unasked' \in Nat /\ waiter' = NoCaller /\ UNCHANGED <<rpc, rpcs>>
  BY DEF Speak, PipeInv, PipeType
<1>3. stdout' = Append(stdout, Unasked)
  BY DEF Speak
<1> QED
  BY <1>1, <1>2, <1>3, LineAdded

LEMMA GiveUpKeeps ==
    ASSUME PipeInv, NEW t \in RpcCallers, GiveUp(t)
    PROVE  PipeInv'
<1>1. waiter' \in RpcCallers \cup {NoCaller}
  BY DEF GiveUp, PipeInv, PipeType
<1> QED
  BY <1>1, PlaceKeeps DEF GiveUp

LEMMA DrainedKeeps ==
    ASSUME PipeInv, NEW t \in RpcCallers, Drained(t)
    PROVE  PipeInv'
<1>1. waiter' \in RpcCallers \cup {NoCaller} /\ UnderWay(t)
  BY DEF Drained, PipeInv, PipeType, UnderWay
<1> QED
  BY <1>1, PlaceKeeps DEF Drained

\* Whatever the number of callers, of requests and of lines nobody asked for, and however calls
\* overlap and are given up (client.py:97-109): a call that has the pipe for itself takes its
\* own answer or a line nobody asked for if it found the pipe empty, and never its own otherwise.
THEOREM AnswersAreMatched == PipeSpec => []AnswersMatch
<1>1. PipeInit => PipeInv
  BY DEF PipeInit, PipeInv, PipeType, Calling, Numbered, AloneInPipe, UnderWay, AnswersMatch
<1>2. PipeInv /\ [PipeNext]_pipeVars => PipeInv'
  <2> SUFFICES ASSUME PipeInv, [PipeNext]_pipeVars
               PROVE  PipeInv'
    OBVIOUS
  <2>1. CASE PipeNext
    BY <2>1, RpcKeeps, DrainedKeeps, ReadLineKeeps, AnswerKeeps, SpeakKeeps, GiveUpKeeps DEF PipeNext
  <2>2. CASE UNCHANGED pipeVars
    BY <2>2 DEF pipeVars, PipeInv, PipeType, Numbered, AloneInPipe, AnswersMatch, UnderWay,
                OnlyForMe, AnothersFirst
  <2> QED
    BY <2>1, <2>2
<1>3. PipeInv => AnswersMatch
  BY DEF PipeInv
<1> QED
  BY <1>1, <1>2, <1>3, PTL DEF PipeSpec

-----------------------------------------------------------------------------
(* The life cycle of an MCP server. *)

Calls == [place : Places, client : McpClients \cup {NoClient},
          process : Processes \cup {NoProcess}]

McpType ==
    /\ life \in [state : LifeStates, restarts : Nat, tools : BOOLEAN]
    /\ registered \in McpClients \cup {NoClient}
    /\ process \in [McpClients -> Processes \cup {NoProcess}]
    /\ running \subseteq Processes
    /\ mcpCall \in [McpCallers -> Calls]
    /\ \A t \in McpCallers : mcpCall[t].place \in {"spawning", "talking"}
                                 => mcpCall[t].client \in McpClients
    /\ abandoned \in BOOLEAN
    /\ ops \in Nat

Connects(t)   == mcpCall[t].place \in {"spawning", "talking"}
Terminates(t) == mcpCall[t].place = "terminating"

\* As long as nobody is cancelled, the life cycle is in a state on its way exactly while there
\* is one caller that takes it on.
LifeHasMover ==
    ~abandoned =>
       /\ life.state = "activating" <=> \E t \in McpCallers : Connects(t)
       /\ \A t, u \in McpCallers : Connects(t) /\ Connects(u) => t = u
       /\ life.state = "terminating" <=> \E t \in McpCallers : Terminates(t)
       /\ \A t, u \in McpCallers : Terminates(t) /\ Terminates(u) => t = u

McpInv == McpType /\ LifeHasMover

\* A step that leaves every caller at its place, and the state of the life cycle on or off its
\* way, says nothing new.
LEMMA NobodyMoves ==
    ASSUME McpInv, McpType', abandoned' = abandoned,
           \A t \in McpCallers : mcpCall'[t].place = mcpCall[t].place,
           life'.state = "activating" <=> life.state = "activating",
           life'.state = "terminating" <=> life.state = "terminating"
    PROVE  McpInv'
BY DEF McpInv, LifeHasMover, Connects, Terminates

\* An idle caller takes a life cycle that is on nobody's way on its own.
LEMMA MoverStarts ==
    ASSUME McpInv, McpType', abandoned' = abandoned, NEW t \in McpCallers,
           life.state \notin {"activating", "terminating"},
           \A u \in McpCallers \ {t} : mcpCall'[u].place = mcpCall[u].place,
           \/ life'.state = "activating" /\ Connects(t)'
           \/ life'.state = "terminating" /\ Terminates(t)'
           \/ /\ life'.state \notin {"activating", "terminating"}
              /\ ~Connects(t)' /\ ~Terminates(t)'
    PROVE  McpInv'
BY DEF McpInv, LifeHasMover, Connects, Terminates

\* The caller that has the life cycle on its way leaves it at rest and is idle again.
LEMMA MoverEnds ==
    ASSUME McpInv, McpType', abandoned' = abandoned, NEW t \in McpCallers,
           Connects(t) \/ Terminates(t),
           \A u \in McpCallers \ {t} : mcpCall'[u].place = mcpCall[u].place,
           mcpCall'[t].place = "idle",
           life'.state \notin {"activating", "terminating"}
    PROVE  McpInv'
BY DEF McpInv, LifeHasMover, Connects, Terminates

LEMMA CallsTyped ==
    ASSUME McpType, NEW t \in McpCallers, NEW call \in Calls,
           call.place \in {"spawning", "talking"} => call.client \in McpClients,
           mcpCall' = [mcpCall EXCEPT ![t] = call]
    PROVE  /\ mcpCall' \in [McpCallers -> Calls]
           /\ \A u \in McpCallers : mcpCall'[u].place \in {"spawning", "talking"}
                                        => mcpCall'[u].client \in McpClients
           /\ mcpCall'[t] = call
           /\ \A u \in McpCallers \ {t} : mcpCall'[u].place = mcpCall[u].place
BY DEF McpType

LEMMA CallValues ==
    /\ NoCall \in Calls
    /\ \A c \in McpClients : Connecting(c) \in Calls
    /\ \A call \in Calls : /\ [call EXCEPT !.place = "talking"] \in Calls
                           /\ [call EXCEPT !.place = "spawning"] \in Calls
BY DEF NoCall, Connecting, Calls, Places

LEMMA LifeValues ==
    ASSUME McpType
    PROVE  /\ FreshServer \in [state : LifeStates, restarts : Nat, tools : BOOLEAN]
           /\ \A s \in LifeStates : [life EXCEPT !.state = s]
                  \in [state : LifeStates, restarts : Nat, tools : BOOLEAN]
           /\ FreshServer.state = "created"
           /\ "none" \in LifeStates
BY DEF McpType, FreshServer, LifeStates

LEMMA RegisterMoves ==
    ASSUME McpInv, NEW t \in McpCallers, Register(t) \/ RemoveServer(t)
    PROVE  McpInv'
<1>1. McpType'
  BY LifeValues DEF McpInv, McpType, Register, RemoveServer, Begin
<1>2. /\ mcpCall' = mcpCall /\ abandoned' = abandoned
      /\ life.state \notin {"activating", "terminating"}
      /\ life'.state \notin {"activating", "terminating"}
  BY DEF McpInv, McpType, Register, RemoveServer, FreshServer
<1> QED
  BY <1>1, <1>2, NobodyMoves

LEMMA ConnectingMoves ==
    ASSUME McpInv, NEW t \in McpCallers, mcpCall[t].place = "idle", NEW c \in McpClients,
           NEW from \in {FreshServer, life}, from = FreshServer => life.state = "none" \/ from = life,
           StartConnecting(t, c, from),
           abandoned' = abandoned, registered' = c, process' = process, running' = running,
           ops' = ops + 1
    PROVE  McpInv'
<1> from \in [state : LifeStates, restarts : Nat, tools : BOOLEAN]
  BY LifeValues DEF McpInv, McpType
<1>1. CASE "activating" \in Allowed[from.state]
  <2>1. /\ life' = [from EXCEPT !.state = "activating"]
        /\ mcpCall' = [mcpCall EXCEPT ![t] = Connecting(c)]
    BY <1>1 DEF StartConnecting
  <2>2. McpType'
    BY <2>1, CallsTyped, CallValues DEF McpInv, McpType, Connecting, LifeStates
  <2>3. life.state \notin {"activating", "terminating"}
    BY <1>1 DEF FreshServer, Allowed, McpInv, McpType, LifeStates
  <2>4. life'.state = "activating" /\ Connects(t)'
    BY <2>1 DEF McpInv, McpType, Connects, Connecting
  <2>5. \A u \in McpCallers \ {t} : mcpCall'[u].place = mcpCall[u].place
    BY <2>1 DEF McpInv, McpType
  <2> QED
    BY <2>2, <2>3, <2>4, <2>5, MoverStarts
<1>2. CASE "activating" \notin Allowed[from.state]
  <2>1. life' = life /\ mcpCall' = mcpCall
    BY <1>2 DEF StartConnecting, FreshServer, Allowed, LifeStates
  <2>2. McpType'
    BY <2>1 DEF McpInv, McpType
  <2> QED
    BY <2>1, <2>2, NobodyMoves
<1> QED
  BY <1>1, <1>2

LEMMA ActivateMoves ==
    ASSUME McpInv, NEW t \in McpCallers, NEW c \in McpClients, AddServer(t, c) \/ Activate(t, c)
    PROVE  McpInv'
<1>1. CASE AddServer(t, c)
  <2>1. PICK from \in {FreshServer, life} : /\ from = IF life.state = "none" THEN FreshServer ELSE life
                                            /\ StartConnecting(t, c, from)
    BY <1>1 DEF AddServer
  <2>2. from = FreshServer => life.state = "none" \/ from = life
    BY <2>1
  <2> QED
    BY <1>1, <2>1, <2>2, ConnectingMoves DEF AddServer, Begin
<1>2. CASE Activate(t, c)
  BY <1>2, ConnectingMoves DEF Activate, Begin
<1> QED
  BY <1>1, <1>2

LEMMA SpawnedMoves ==
    ASSUME McpInv, NEW t \in McpCallers, NEW p \in Processes, Spawned(t, p)
    PROVE  McpInv'
<1> DEFINE call == [mcpCall[t] EXCEPT !.place = "talking"]
<1>1. /\ mcpCall' = [mcpCall EXCEPT ![t] = call]
      /\ call \in Calls /\ call.place = "talking"
      /\ call.client \in McpClients /\ mcpCall[t].client \in McpClients
      /\ mcpCall[t].place = "spawning"
  BY CallValues DEF Spawned, McpInv, McpType, Calls
<1>2. McpType'
  BY <1>1, CallsTyped DEF Spawned, McpInv, McpType
<1>3. /\ \A u \in McpCallers : Connects(u)' <=> Connects(u)
      /\ \A u \in McpCallers : Terminates(u)' <=> Terminates(u)
  BY <1>1 DEF McpInv, McpType, Connects, Terminates
<1> QED
  BY <1>2, <1>3 DEF McpInv, LifeHasMover, Spawned

LEMMA ConnectedMoves ==
    ASSUME McpInv, NEW t \in McpCallers, Connected(t)
    PROVE  McpInv'
<1>1. McpType'
  BY CallsTyped, CallValues DEF Connected, McpInv, McpType, NoCall, LifeStates
<1>2. /\ \A u \in McpCallers \ {t} : mcpCall'[u].place = mcpCall[u].place
      /\ mcpCall'[t].place = "idle"
      /\ Connects(t)
      /\ life'.state = "active"
  BY DEF Connected, McpInv, McpType, NoCall, Connects
<1> QED
  BY <1>1, <1>2, MoverEnds DEF Connected

LEMMA ConnectFailsMoves ==
    ASSUME McpInv, NEW t \in McpCallers, ConnectFails(t)
    PROVE  McpInv'
<1> USE McpAssumption
<1>1. CASE life.restarts < MaxRestarts
  <2> DEFINE call == [mcpCall[t] EXCEPT !.place = "spawning"]
  <2>1. /\ mcpCall' = [mcpCall EXCEPT ![t] = call]
        /\ call \in Calls /\ call.place = "spawning"
        /\ call.client \in McpClients
    BY <1>1, CallValues DEF ConnectFails, McpInv, McpType, Calls
  <2>4. /\ life'.state = life.state
        /\ life' \in [state : LifeStates, restarts : Nat, tools : BOOLEAN]
    BY <1>1 DEF ConnectFails, McpInv, McpType
  <2>2. McpType'
    BY <2>1, <2>4, CallsTyped DEF ConnectFails, McpInv, McpType
  <2>3. /\ \A u \in McpCallers : Connects(u)' <=> Connects(u)
        /\ \A u \in McpCallers : Terminates(u)' <=> Terminates(u)
    BY <2>1 DEF ConnectFails, McpInv, McpType, Connects, Terminates
  <2> QED
    BY <2>2, <2>3, <2>4 DEF McpInv, LifeHasMover, ConnectFails
<1>2. CASE ~(life.restarts < MaxRestarts)
  <2>1. /\ mcpCall' = [mcpCall EXCEPT ![t] = NoCall]
        /\ life' = [life EXCEPT !.state = "error"]
    BY <1>2 DEF ConnectFails
  <2>2. McpType'
    BY <2>1, CallsTyped, CallValues DEF ConnectFails, McpInv, McpType, NoCall, LifeStates
  <2>3. /\ \A u \in McpCallers \ {t} : mcpCall'[u].place = mcpCall[u].place
        /\ mcpCall'[t].place = "idle"
        /\ Connects(t)
        /\ life'.state = "error"
    BY <2>1 DEF ConnectFails, McpInv, McpType, NoCall, Connects
  <2> QED
    BY <2>2, <2>3, MoverEnds DEF ConnectFails
<1> QED
  BY <1>1, <1>2

LEMMA DisconnectingTyped ==
    ASSUME McpType, NEW t \in McpCallers, NEW place \in {"pausing", "terminating"},
           Disconnecting(t, registered, place)
    PROVE  /\ mcpCall' \in [McpCallers -> Calls]
           /\ \A u \in McpCallers : mcpCall'[u].place \in {"spawning", "talking"}
                                        => mcpCall'[u].client \in McpClients
           /\ mcpCall'[t].place = place
           /\ \A u \in McpCallers \ {t} : mcpCall'[u].place = mcpCall[u].place
<1> DEFINE call == [place |-> place, client |-> registered,
                    process |-> IF registered = NoClient THEN NoProcess ELSE process[registered]]
<1>1. call \in Calls
  BY DEF McpType, Calls, Places
<1>2. mcpCall' = [mcpCall EXCEPT ![t] = call]
  BY DEF Disconnecting
<1>3. call.place = place
  OBVIOUS
<1> HIDE DEF call
<1> QED
  BY <1>1, <1>2, <1>3, CallsTyped

LEMMA PauseMoves ==
    ASSUME McpInv, NEW t \in McpCallers, Pause(t)
    PROVE  McpInv'
<1>1. /\ life.state = "active"
      /\ life' = [life EXCEPT !.state = "paused"]
      /\ Disconnecting(t, registered, "pausing")
      /\ ops' \in Nat
  BY DEF Pause, May, Allowed, LifeStates, McpInv, McpType, Begin
<1>2. McpType'
  BY <1>1, DisconnectingTyped, LifeValues DEF Pause, McpInv, McpType, LifeStates
<1>3. /\ life'.state \notin {"activating", "terminating"}
      /\ ~Connects(t)' /\ ~Terminates(t)'
      /\ \A u \in McpCallers \ {t} : mcpCall'[u].place = mcpCall[u].place
  BY <1>1, DisconnectingTyped DEF McpInv, McpType, Connects, Terminates
<1> QED
  BY <1>1, <1>2, <1>3, MoverStarts DEF Pause

LEMMA TerminatingMoves ==
    ASSUME McpInv, NEW t \in McpCallers,
           life.state \in {"active", "paused"},
           life' = [life EXCEPT !.state = "terminating"],
           Disconnecting(t, registered, "terminating"), registered' = NoClient,
           ops' \in Nat, abandoned' = abandoned, process' = process, running' = running
    PROVE  McpInv'
<1>1. McpType'
  BY DisconnectingTyped, LifeValues DEF McpInv, McpType, LifeStates
<1>2. /\ life'.state = "terminating"
      /\ Terminates(t)'
      /\ \A u \in McpCallers \ {t} : mcpCall'[u].place = mcpCall[u].place
  BY DisconnectingTyped DEF McpInv, McpType, Terminates
<1> QED
  BY <1>1, <1>2, MoverStarts

LEMMA TerminateMoves ==
    ASSUME McpInv, NEW t \in McpCallers, Terminate(t) \/ DisconnectAll(t)
    PROVE  McpInv'
<1>1. CASE Terminate(t) /\ May("terminating")
  <2>1. life.state \in {"active", "paused"}
    BY <1>1 DEF May, Allowed, LifeStates, McpInv, McpType
  <2> QED
    BY <1>1, <2>1, TerminatingMoves DEF Terminate, Begin, McpInv, McpType
<1>2. CASE Terminate(t) /\ ~May("terminating")
  <2>1. McpType'
    BY <1>2 DEF Terminate, Begin, McpInv, McpType
  <2> QED
    BY <1>2, <2>1, NobodyMoves DEF Terminate
<1>3. CASE DisconnectAll(t)
  BY <1>3, TerminatingMoves DEF DisconnectAll, Begin, McpInv, McpType
<1> QED
  BY <1>1, <1>2, <1>3

LEMMA DisconnectedMoves ==
    ASSUME McpInv, NEW t \in McpCallers, Disconnected(t)
    PROVE  McpInv'
<1>1. mcpCall' = [mcpCall EXCEPT ![t] = NoCall]
  BY DEF Disconnected
<1>2. /\ process' \in [McpClients -> Processes \cup {NoProcess}]
      /\ running' \subseteq Processes
  BY DEF Disconnected, McpInv, McpType
<1>3. CASE mcpCall[t].place = "terminating"
  <2>1. /\ life' \in [state : LifeStates, restarts : Nat, tools : BOOLEAN]
        /\ life'.state = "terminated"
    BY <1>3 DEF Disconnected, McpInv, McpType, LifeStates
  <2>2. McpType'
    BY <1>1, <1>2, <2>1, CallsTyped, CallValues DEF Disconnected, McpInv, McpType, NoCall
  <2>3. /\ \A u \in McpCallers \ {t} : mcpCall'[u].place = mcpCall[u].place
        /\ mcpCall'[t].place = "idle"
        /\ Terminates(t)
    BY <1>1, <1>3 DEF McpInv, McpType, NoCall, Terminates
  <2> QED
    BY <2>1, <2>2, <2>3, MoverEnds DEF Disconnected
<1>4. CASE mcpCall[t].place = "pausing"
  <2>1. life' = life
    BY <1>4 DEF Disconnected
  <2>2. McpType'
    BY <1>1, <1>2, <2>1, CallsTyped, CallValues DEF Disconnected, McpInv, McpType, NoCall
  <2>3. /\ \A u \in McpCallers : Connects(u)' <=> Connects(u)
        /\ \A u \in McpCallers : Terminates(u)' <=> Terminates(u)
    BY <1>1, <1>4 DEF McpInv, McpType, NoCall, Connects, Terminates
  <2> QED
    BY <2>1, <2>2, <2>3 DEF McpInv, LifeHasMover, Disconnected
<1> QED
  BY <1>3, <1>4 DEF Disconnected

LEMMA CancelMoves ==
    ASSUME McpInv, NEW t \in McpCallers, CancelCaller(t)
    PROVE  McpInv'
<1>1. mcpCall' = [mcpCall EXCEPT ![t] = NoCall]
  BY DEF CancelCaller
<1>2. McpType'
  BY <1>1, CallsTyped, CallValues DEF CancelCaller, McpInv, McpType, NoCall
<1>3. ASSUME ~abandoned'
      PROVE  /\ ~abandoned
             /\ \A u \in McpCallers : Connects(u)' <=> Connects(u)
             /\ \A u \in McpCallers : Terminates(u)' <=> Terminates(u)
  <2>1. ~abandoned /\ mcpCall[t].place = "pausing"
    BY <1>3 DEF CancelCaller
  <2>2. \A u \in McpCallers : u # t => mcpCall'[u] = mcpCall[u]
    BY <1>1 DEF McpInv, McpType
  <2>3. mcpCall'[t].place = "idle"
    BY <1>1 DEF McpInv, McpType, NoCall
  <2> QED
    BY <2>1, <2>2, <2>3 DEF Connects, Terminates
<1> QED
  BY <1>2, <1>3 DEF McpInv, LifeHasMover, CancelCaller

LEMMA ProcessEndsMoves ==
    ASSUME McpInv, NEW p \in Processes, ProcessEnds(p)
    PROVE  McpInv'
<1>1. McpType'
  BY DEF ProcessEnds, McpInv, McpType
<1> QED
  BY <1>1, NobodyMoves DEF ProcessEnds

LEMMA McpInvHolds == McpSpec => []McpInv
<1>1. McpInit => McpInv
  <2> SUFFICES ASSUME McpInit
               PROVE  McpInv
    OBVIOUS
  <2>1. \A t \in McpCallers : mcpCall[t].place = "idle"
    BY DEF McpInit, NoCall
  <2>2. life \in [state : LifeStates, restarts : Nat, tools : BOOLEAN] /\ life.state = "none"
    BY DEF McpInit, LifeStates
  <2>3. McpType
    BY <2>1, <2>2, CallValues DEF McpInit, McpType
  <2> QED
    BY <2>1, <2>2, <2>3 DEF McpInv, LifeHasMover, Connects, Terminates
<1>2. McpInv /\ [McpNext]_mcpVars => McpInv'
  <2> SUFFICES ASSUME McpInv, [McpNext]_mcpVars
               PROVE  McpInv'
    OBVIOUS
  <2>1. CASE \E t \in McpCallers : McpStep(t)
    BY <2>1, RegisterMoves, ActivateMoves, SpawnedMoves, ConnectedMoves, ConnectFailsMoves,
       PauseMoves, TerminateMoves, DisconnectedMoves, CancelMoves DEF McpStep
  <2>2. CASE \E p \in Processes : ProcessEnds(p)
    BY <2>2, ProcessEndsMoves
  <2>3. CASE UNCHANGED mcpVars
    BY <2>3 DEF mcpVars, McpInv, McpType, LifeHasMover, Connects, Terminates
  <2> QED
    BY <2>1, <2>2, <2>3 DEF McpNext
<1> QED
  BY <1>1, <1>2, PTL DEF McpSpec

\* Whatever the number of callers, clients, processes and restarts: as long as nobody is
\* cancelled, one caller at most connects and one at most terminates the server, exactly while
\* its life cycle says so (lifecycle.py:97).
THEOREM MoverIsAlone == McpSpec => []OneMover
<1>1. McpInv => OneMover
  <2> SUFFICES ASSUME McpInv, ~abandoned
               PROVE  /\ Cardinality(Moving({"spawning", "talking"}))
                            = IF life.state = "activating" THEN 1 ELSE 0
                      /\ Cardinality(Moving({"terminating"}))
                            = IF life.state = "terminating" THEN 1 ELSE 0
    BY DEF OneMover
  <2>1. /\ \A t \in McpCallers : t \in Moving({"spawning", "talking"}) <=> Connects(t)
        /\ \A t \in McpCallers : t \in Moving({"terminating"}) <=> Terminates(t)
        /\ Moving({"spawning", "talking"}) \subseteq McpCallers
        /\ Moving({"terminating"}) \subseteq McpCallers
    BY DEF Moving, Connects, Terminates
  <2>2. ASSUME NEW S \in SUBSET McpCallers, \A t, u \in S : t = u
        PROVE  Cardinality(S) = IF S # {} THEN 1 ELSE 0
    <3>1. CASE S = {}
      BY <3>1, FS_EmptySet
    <3>2. ASSUME NEW t \in S
          PROVE  Cardinality(S) = 1
      <4>1. S = {t}
        BY <2>2, <3>2
      <4> QED
        BY <4>1, FS_Singleton
    <3> QED
      BY <3>1, <3>2
  <2>3. /\ life.state = "activating" <=> Moving({"spawning", "talking"}) # {}
        /\ \A t, u \in Moving({"spawning", "talking"}) : t = u
        /\ life.state = "terminating" <=> Moving({"terminating"}) # {}
        /\ \A t, u \in Moving({"terminating"}) : t = u
    BY <2>1 DEF McpInv, LifeHasMover
  <2> QED
    BY <2>1, <2>2, <2>3
<1> QED
  BY <1>1, McpInvHolds, PTL

-----------------------------------------------------------------------------
(* The life cycle implements ServerLife. *)

\* Whoever has the server on its way is alone, and the life cycle says so, whoever was cancelled.
LifeIsOwned ==
    /\ \A t \in McpCallers : Connects(t) => life.state = "activating"
    /\ \A t \in McpCallers : Terminates(t) => life.state = "terminating"
    /\ \A t, u \in OnTheWay : t = u

LEMMA WhoIsOnTheWay ==
    /\ OnTheWay = {t \in McpCallers : Connects(t) \/ Terminates(t)}
    /\ OnTheWay' = {t \in McpCallers : Connects(t)' \/ Terminates(t)'}
BY DEF OnTheWay, Moving, Connects, Terminates

\* Nobody's place changes as far as the server is concerned.
LEMMA ServerStays ==
    ASSUME LifeIsOwned,
           \A t \in McpCallers : (Connects(t)' <=> Connects(t)) /\ (Terminates(t)' <=> Terminates(t)),
           life'.state = life.state
    PROVE  LifeIsOwned' /\ UNCHANGED Life!vars
<1>1. OnTheWay' = OnTheWay
  BY WhoIsOnTheWay
<1> QED
  BY <1>1 DEF LifeIsOwned, Life!vars

\* A server at rest is in nobody's hand, and stays so.
LEMMA ServerRests ==
    ASSUME LifeIsOwned,
           \A t \in McpCallers : (Connects(t)' <=> Connects(t)) /\ (Terminates(t)' <=> Terminates(t)),
           life.state \notin {"activating", "terminating"}, life'.state \notin {"activating", "terminating"}
    PROVE  LifeIsOwned' /\ Life!AtRest /\ OnTheWay' = OnTheWay
<1>1. OnTheWay = {} /\ OnTheWay' = {}
  BY WhoIsOnTheWay DEF LifeIsOwned
<1> QED
  BY <1>1, WhoIsOnTheWay DEF LifeIsOwned, Life!AtRest

LEMMA ServerTaken ==
    ASSUME LifeIsOwned, NEW t \in McpCallers,
           life.state \notin {"activating", "terminating"},
           \A u \in McpCallers \ {t} : mcpCall'[u].place = mcpCall[u].place,
           \/ life'.state = "activating" /\ Connects(t)'
           \/ life'.state = "terminating" /\ Terminates(t)'
    PROVE  LifeIsOwned' /\ Life!AtRest /\ OnTheWay' = {t}
<1>1. \A u \in McpCallers : ~Connects(u) /\ ~Terminates(u)
  BY DEF LifeIsOwned
<1>2. \A u \in McpCallers \ {t} : ~Connects(u)' /\ ~Terminates(u)'
  BY <1>1 DEF Connects, Terminates
<1>3. OnTheWay = {} /\ OnTheWay' = {t}
  BY <1>1, <1>2, WhoIsOnTheWay
<1>4. Connects(t)' => ~Terminates(t)'
  BY DEF Connects, Terminates
<1> QED
  BY <1>2, <1>3, <1>4 DEF LifeIsOwned, Life!AtRest

LEMMA ServerLetGo ==
    ASSUME LifeIsOwned, NEW t \in McpCallers, Connects(t) \/ Terminates(t),
           \A u \in McpCallers \ {t} : mcpCall'[u].place = mcpCall[u].place,
           mcpCall'[t].place = "idle"
    PROVE  LifeIsOwned' /\ OnTheWay = {t} /\ OnTheWay' = {}
<1>1. OnTheWay = {t}
  BY WhoIsOnTheWay DEF LifeIsOwned
<1>2. \A u \in McpCallers \ {t} : ~Connects(u) /\ ~Terminates(u)
  BY <1>1, WhoIsOnTheWay
<1>3. \A u \in McpCallers : ~Connects(u)' /\ ~Terminates(u)'
  BY <1>2 DEF Connects, Terminates
<1>4. OnTheWay' = {}
  BY <1>3, WhoIsOnTheWay
<1> QED
  BY <1>1, <1>3, <1>4 DEF LifeIsOwned

Implements == LifeIsOwned' /\ (Life!Next \/ UNCHANGED Life!vars)

LEMMA RegisterImplements ==
    ASSUME McpInv, LifeIsOwned, NEW t \in McpCallers, Register(t) \/ RemoveServer(t)
    PROVE  Implements
<1>1. mcpCall' = mcpCall
  BY DEF Register, RemoveServer
<1>2. life.state \notin {"activating", "terminating"} /\ life'.state \notin {"activating", "terminating"}
  BY DEF McpInv, McpType, Register, RemoveServer, FreshServer
<1>3. LifeIsOwned' /\ Life!AtRest /\ OnTheWay' = OnTheWay
  BY <1>1, <1>2, ServerRests DEF Connects, Terminates
<1>4. CASE Register(t)
  BY <1>3, <1>4 DEF Register, FreshServer, Implements, Life!Next, Life!Register
<1>5. CASE RemoveServer(t)
  BY <1>3, <1>5 DEF RemoveServer, McpInv, McpType, Implements, Life!Next, Life!Remove
<1> QED
  BY <1>4, <1>5

LEMMA ActivateImplements ==
    ASSUME McpInv, LifeIsOwned, NEW t \in McpCallers, NEW c \in McpClients,
           AddServer(t, c) \/ Activate(t, c)
    PROVE  Implements
<1>1. PICK from : /\ (from = FreshServer /\ life.state = "none") \/ from = life
                  /\ StartConnecting(t, c, from)
  BY DEF AddServer, Activate
<1>2. from \in [state : LifeStates, restarts : Nat, tools : BOOLEAN]
  BY <1>1, LifeValues DEF McpInv, McpType
<1>3. CASE "activating" \in Allowed[from.state]
  <2>1. /\ life' = [from EXCEPT !.state = "activating"]
        /\ mcpCall' = [mcpCall EXCEPT ![t] = Connecting(c)]
    BY <1>1, <1>3 DEF StartConnecting
  <2>2. life.state \notin {"activating", "terminating", "active"}
    BY <1>1, <1>3 DEF Allowed, McpInv, McpType, LifeStates
  <2>3. life'.state = "activating" /\ Connects(t)'
    BY <1>2, <2>1 DEF McpInv, McpType, Connects, Connecting
  <2>4. \A u \in McpCallers \ {t} : mcpCall'[u].place = mcpCall[u].place
    BY <2>1 DEF McpInv, McpType
  <2>5. LifeIsOwned' /\ Life!AtRest /\ OnTheWay' = {t}
    BY <2>2, <2>3, <2>4, ServerTaken
  <2> QED
    BY <2>2, <2>3, <2>5 DEF Implements, Life!Next, Life!Take
<1>4. CASE "activating" \notin Allowed[from.state]
  <2>1. life' = life /\ mcpCall' = mcpCall
    <3>1. from # FreshServer
      BY <1>4 DEF FreshServer, Allowed, LifeStates
    <3> QED
      BY <1>1, <1>4, <3>1 DEF StartConnecting
  <2> QED
    BY <2>1, ServerStays DEF Implements, Connects, Terminates
<1> QED
  BY <1>3, <1>4

LEMMA SpawnedImplements ==
    ASSUME McpInv, LifeIsOwned, NEW t \in McpCallers, NEW p \in Processes, Spawned(t, p)
    PROVE  Implements
<1>1. \A u \in McpCallers : (Connects(u)' <=> Connects(u)) /\ (Terminates(u)' <=> Terminates(u))
  <2> DEFINE call == [mcpCall[t] EXCEPT !.place = "talking"]
  <2>1. mcpCall' = [mcpCall EXCEPT ![t] = call] /\ call.place = "talking" /\ mcpCall[t].place = "spawning"
    BY DEF Spawned, McpInv, McpType, Calls
  <2> HIDE DEF call
  <2> QED
    BY <2>1 DEF McpInv, McpType, Connects, Terminates
<1> QED
  BY <1>1, ServerStays DEF Implements, Spawned

LEMMA ConnectedImplements ==
    ASSUME McpInv, LifeIsOwned, NEW t \in McpCallers, Connected(t)
    PROVE  Implements
<1>1. /\ \A u \in McpCallers \ {t} : mcpCall'[u].place = mcpCall[u].place
      /\ mcpCall'[t].place = "idle"
      /\ Connects(t)
      /\ life'.state = "active"
  BY DEF Connected, McpInv, McpType, NoCall, Connects
<1>2. LifeIsOwned' /\ OnTheWay = {t} /\ OnTheWay' = {}
  BY <1>1, ServerLetGo
<1>3. life.state = "activating"
  BY <1>1 DEF LifeIsOwned
<1> QED
  BY <1>1, <1>2, <1>3 DEF Implements, Life!Next, Life!Bring

LEMMA ConnectFailsImplements ==
    ASSUME McpInv, LifeIsOwned, NEW t \in McpCallers, ConnectFails(t)
    PROVE  Implements
<1>1. CASE life.restarts < MaxRestarts
  <2> DEFINE call == [mcpCall[t] EXCEPT !.place = "spawning"]
  <2>1. mcpCall' = [mcpCall EXCEPT ![t] = call] /\ call.place = "spawning" /\ mcpCall[t].place \in {"spawning", "talking"}
    BY <1>1 DEF ConnectFails, McpInv, McpType, Calls
  <2>2. life'.state = life.state
    BY <1>1 DEF ConnectFails, McpInv, McpType
  <2> HIDE DEF call
  <2>3. \A u \in McpCallers : (Connects(u)' <=> Connects(u)) /\ (Terminates(u)' <=> Terminates(u))
    BY <2>1 DEF McpInv, McpType, Connects, Terminates
  <2> QED
    BY <2>2, <2>3, ServerStays DEF Implements
<1>2. CASE ~(life.restarts < MaxRestarts)
  <2>1. /\ \A u \in McpCallers \ {t} : mcpCall'[u].place = mcpCall[u].place
        /\ mcpCall'[t].place = "idle"
        /\ Connects(t)
        /\ life'.state = "error"
    BY <1>2 DEF ConnectFails, McpInv, McpType, NoCall, Connects
  <2>2. LifeIsOwned' /\ OnTheWay = {t} /\ OnTheWay' = {}
    BY <2>1, ServerLetGo
  <2>3. life.state = "activating"
    BY <2>1 DEF LifeIsOwned
  <2> QED
    BY <2>1, <2>2, <2>3 DEF Implements, Life!Next, Life!Bring
<1> QED
  BY <1>1, <1>2

LEMMA PauseImplements ==
    ASSUME McpInv, LifeIsOwned, NEW t \in McpCallers, Pause(t)
    PROVE  Implements
<1>1. /\ mcpCall[t].place = "idle"
      /\ life.state = "active"
      /\ life' = [life EXCEPT !.state = "paused"]
      /\ Disconnecting(t, registered, "pausing")
  BY DEF Pause, May, Allowed, LifeStates, McpInv, McpType, Begin
<1>2. life'.state = "paused"
  BY <1>1 DEF McpInv, McpType
<1>3. mcpCall'[t].place = "pausing" /\ \A u \in McpCallers \ {t} : mcpCall'[u].place = mcpCall[u].place
  BY <1>1, DisconnectingTyped DEF McpInv
<1>4. \A u \in McpCallers : (Connects(u)' <=> Connects(u)) /\ (Terminates(u)' <=> Terminates(u))
  BY <1>1, <1>3 DEF Connects, Terminates
<1>5. LifeIsOwned' /\ Life!AtRest /\ OnTheWay' = OnTheWay
  BY <1>1, <1>2, <1>4, ServerRests
<1> QED
  BY <1>1, <1>2, <1>5 DEF Implements, Life!Next, Life!Pause

LEMMA TerminateImplements ==
    ASSUME McpInv, LifeIsOwned, NEW t \in McpCallers, Terminate(t) \/ DisconnectAll(t)
    PROVE  Implements
<1>1. CASE life' = life /\ mcpCall' = mcpCall
  BY <1>1, ServerStays DEF Implements, Connects, Terminates
<1>2. CASE /\ life.state \in {"active", "paused"}
           /\ life' = [life EXCEPT !.state = "terminating"]
           /\ Disconnecting(t, registered, "terminating")
  <2>1. life'.state = "terminating"
    BY <1>2 DEF McpInv, McpType
  <2>2. /\ Terminates(t)'
        /\ \A u \in McpCallers \ {t} : mcpCall'[u].place = mcpCall[u].place
    BY <1>2, DisconnectingTyped DEF McpInv, Terminates
  <2>3. LifeIsOwned' /\ Life!AtRest /\ OnTheWay' = {t}
    BY <1>2, <2>1, <2>2, ServerTaken
  <2> QED
    BY <1>2, <2>1, <2>3 DEF Implements, Life!Next, Life!Take
<1>3. CASE Terminate(t)
  <2>1. May("terminating") => life.state \in {"active", "paused"}
    BY DEF May, Allowed, LifeStates, McpInv, McpType
  <2> QED
    BY <1>1, <1>2, <1>3, <2>1 DEF Terminate
<1>4. CASE DisconnectAll(t)
  BY <1>2, <1>4 DEF DisconnectAll
<1> QED
  BY <1>3, <1>4

LEMMA DisconnectedImplements ==
    ASSUME McpInv, LifeIsOwned, NEW t \in McpCallers, Disconnected(t)
    PROVE  Implements
<1>1. mcpCall' = [mcpCall EXCEPT ![t] = NoCall]
  BY DEF Disconnected
<1>2. mcpCall'[t].place = "idle" /\ \A u \in McpCallers \ {t} : mcpCall'[u].place = mcpCall[u].place
  BY <1>1 DEF McpInv, McpType, NoCall
<1>3. CASE mcpCall[t].place = "terminating"
  <2>1. Terminates(t) /\ life'.state = "terminated"
    BY <1>3 DEF Disconnected, McpInv, McpType, Terminates
  <2>2. LifeIsOwned' /\ OnTheWay = {t} /\ OnTheWay' = {}
    BY <1>2, <2>1, ServerLetGo
  <2>3. life.state = "terminating"
    BY <2>1 DEF LifeIsOwned
  <2> QED
    BY <2>1, <2>2, <2>3 DEF Implements, Life!Next, Life!Bring
<1>4. CASE mcpCall[t].place = "pausing"
  <2>1. life' = life
    BY <1>4 DEF Disconnected
  <2>2. \A u \in McpCallers : (Connects(u)' <=> Connects(u)) /\ (Terminates(u)' <=> Terminates(u))
    BY <1>2, <1>4 DEF Connects, Terminates
  <2> QED
    BY <2>1, <2>2, ServerStays DEF Implements
<1> QED
  BY <1>3, <1>4 DEF Disconnected

LEMMA CancelImplements ==
    ASSUME McpInv, LifeIsOwned, NEW t \in McpCallers, CancelCaller(t)
    PROVE  Implements
<1>1. mcpCall' = [mcpCall EXCEPT ![t] = NoCall] /\ life' = life
  BY DEF CancelCaller
<1>2. mcpCall'[t].place = "idle" /\ \A u \in McpCallers \ {t} : mcpCall'[u].place = mcpCall[u].place
  BY <1>1 DEF McpInv, McpType, NoCall
<1>3. CASE Connects(t) \/ Terminates(t)
  <2>1. LifeIsOwned' /\ OnTheWay = {t} /\ OnTheWay' = {}
    BY <1>2, <1>3, ServerLetGo
  <2>2. life.state \in {"activating", "terminating"}
    BY <1>3 DEF LifeIsOwned
  <2> QED
    BY <1>1, <2>1, <2>2 DEF Implements, Life!Next, Life!Lose
<1>4. CASE ~(Connects(t) \/ Terminates(t))
  <2>1. \A u \in McpCallers : (Connects(u)' <=> Connects(u)) /\ (Terminates(u)' <=> Terminates(u))
    BY <1>2, <1>4 DEF Connects, Terminates
  <2> QED
    BY <1>1, <2>1, ServerStays DEF Implements
<1> QED
  BY <1>3, <1>4

\* Whatever the number of callers, clients, processes and restarts, and whoever is cancelled: the
\* server is moved by one caller at a time, which is the one that brings it to rest, and a server
\* whose caller was lost is not taken again.
THEOREM ServerImplementsLife == McpSpec => ServerIsMoved
<1>1. McpInit => LifeIsOwned /\ Life!Init
  <2> SUFFICES ASSUME McpInit PROVE LifeIsOwned /\ Life!Init
    OBVIOUS
  <2>1. \A t \in McpCallers : mcpCall[t].place = "idle"
    BY DEF McpInit, NoCall
  <2>2. \A t \in McpCallers : ~Connects(t) /\ ~Terminates(t)
    BY <2>1 DEF Connects, Terminates
  <2>3. OnTheWay = {}
    BY <2>2, WhoIsOnTheWay
  <2>4. life.state = "none"
    BY DEF McpInit
  <2> QED
    BY <2>2, <2>3, <2>4 DEF LifeIsOwned, Life!Init
<1>2. McpInv /\ LifeIsOwned /\ [McpNext]_mcpVars => LifeIsOwned' /\ [Life!Next]_(Life!vars)
  <2> SUFFICES ASSUME McpInv, LifeIsOwned, [McpNext]_mcpVars
               PROVE  Implements
    BY DEF Implements
  <2>1. CASE \E t \in McpCallers : McpStep(t)
    BY <2>1, RegisterImplements, ActivateImplements, SpawnedImplements, ConnectedImplements,
       ConnectFailsImplements, PauseImplements, TerminateImplements, DisconnectedImplements,
       CancelImplements DEF McpStep
  <2>2. CASE mcpCall' = mcpCall /\ life' = life
    BY <2>2, ServerStays DEF Implements, Connects, Terminates
  <2> QED
    BY <2>1, <2>2 DEF McpNext, ProcessEnds, mcpVars
<1> QED
  BY <1>1, <1>2, McpInvHolds, PTL DEF McpSpec, ServerIsMoved, Life!Spec

=============================================================================
