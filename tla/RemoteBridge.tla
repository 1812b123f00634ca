---------------------------- MODULE RemoteBridge ------------------------------
(***************************************************************************)
(* The remote bridge: bridge/remote_bridge.py with api/bridge_api.py, and  *)
(* RemoteBridgeClient.ts, which asks for a session, opens a socket for it, *)
(* proves itself with the token and connects again when the socket closes. *)
(*                                                                         *)
(* A client that is told to connect while it is connecting has several     *)
(* sockets, but remembers one; each socket that closes, the ones it has    *)
(* forgotten included, starts a connection anew. The two ends of a socket  *)
(* notice its end at different times.                                      *)
(*                                                                         *)
(* The answer of the server has a session_id, the client reads sessionId:  *)
(* every address it opens ends in "undefined", which is no session, and    *)
(* authenticate never succeeds. The server's code is modelled whole; what  *)
(* it does for a proven socket, the pings included, nobody gets to see.    *)
(***************************************************************************)
EXTENDS Naturals, Sequences, FiniteSets

CONSTANTS
    max_sessions,          \* BridgeConfig.max_sessions
    maxReconnectAttempts,  \* RemoteBridgeClient.maxReconnectAttempts
    MaxUserConnects        \* bound on the calls of connect() by the client's user

ASSUME BridgeAssumption ==
    max_sessions \in Nat \ {0} /\ maxReconnectAttempts \in Nat /\ MaxUserConnects \in Nat

VARIABLES
    remote,   \* RemoteBridge.sessions: the state of each session created so far
    links,    \* the sockets the client has made, oldest first
    client    \* the state of the RemoteBridgeClient

bridgeVars == <<remote, links, client>>

-----------------------------------------------------------------------------
\* The sessions in the table.
Held == {s \in DOMAIN remote : remote[s] \in {"connecting", "authenticated"}}

\* The session that an address names: response.sessionId, of an answer that has none.
Undefined == 0

\* A socket: the session its address names, the session whose token was the first message on it
\* (0: none yet), what its two ends make of it, and whether the line between them is cut.
Link == [session |-> Undefined, token |-> 0, page |-> "opening",
            server |-> "none", cut |-> FALSE]

BridgeInit ==
    /\ remote = <<>> /\ links = <<>>
    /\ client = [ws |-> 0, session |-> 0, attempts |-> 0, timers |-> 0,  \* its fields
                 asked |-> 0, answered |-> {},                           \* its calls of fetch
                 users |-> 0]                                            \* bound

-----------------------------------------------------------------------------
(* The client.                                                             *)

UserConnects ==
    /\ client.users < MaxUserConnects
    /\ client' = [client EXCEPT !.users = @ + 1, !.asked = @ + 1]
    /\ UNCHANGED <<remote, links>>

TimerFires ==
    /\ client.timers > 0
    /\ client' = [client EXCEPT !.timers = @ - 1, !.asked = @ + 1]
    /\ UNCHANGED <<remote, links>>

\* The call of fetch, or its answer, is lost: connect() throws, and nobody tries again.
FetchFails ==
    /\ \/ client.asked > 0 /\ client' = [client EXCEPT !.asked = @ - 1]
       \/ \E s \in client.answered : client' = [client EXCEPT !.answered = @ \ {s}]
    /\ UNCHANGED <<remote, links>>

\* connect() goes on: session and ws are overwritten.
OpenSocket(s) ==
    /\ s \in client.answered
    /\ links' = Append(links, Link)
    /\ client' = [client EXCEPT !.answered = @ \ {s}, !.session = s, !.ws = Len(links) + 1]
    /\ UNCHANGED remote

\* onopen: the token of the session of this moment goes out on the socket of this moment, which
\* may be another one; on one that is not open yet, or on none, it throws.
SocketOpens(l) ==
    LET opened == [links EXCEPT ![l].page = "open"]
        ws == client.ws
    IN  /\ links[l].page = "opening" /\ links[l].server = "waiting" /\ ~links[l].cut
        /\ links' = IF ws # 0 /\ opened[ws].page = "open" /\ opened[ws].token = 0
                    THEN [opened EXCEPT ![ws].token = client.session] ELSE opened
        /\ UNCHANGED <<remote, client>>

\* disconnect(): the configuration stays, so the close event below connects again.
UserDisconnects ==
    /\ client.ws # 0
    /\ links' = [links EXCEPT ![client.ws].page = IF @ = "closed" THEN @ ELSE "closing"]
    /\ client' = [client EXCEPT !.ws = 0, !.session = 0]
    /\ UNCHANGED remote

\* Mutant: an error connects again too, and then the close.
SocketClosesAfterError(l) ==
    /\ links[l].page # "closed"
    /\ links[l].page = "closing" \/ links[l].server = "ended" \/ links[l].cut
    /\ links' = [links EXCEPT ![l].page = "closed"]
    /\ client' = IF client.attempts < maxReconnectAttempts
                 THEN [client EXCEPT !.attempts = @ + 1, !.timers = @ + (IF links[l].cut THEN 2 ELSE 1)]
                 ELSE client
    /\ UNCHANGED remote

\* onclose, of any socket: handleDisconnect.
SocketCloses(l) ==
    /\ links[l].page # "closed"
    /\ links[l].page = "closing" \/ links[l].server = "ended" \/ links[l].cut
    /\ links' = [links EXCEPT ![l].page = "closed"]
    /\ client' = IF client.attempts < maxReconnectAttempts
                 THEN [client EXCEPT !.attempts = @ + 1, !.timers = @ + 1] ELSE client
    /\ UNCHANGED remote

-----------------------------------------------------------------------------
(* The server.                                                             *)

\* connect: sessions are refused when too many are in the table.
BridgeConnect ==
    /\ client.asked > 0
    /\ IF Cardinality(Held) >= max_sessions
       THEN client' = [client EXCEPT !.asked = @ - 1] /\ UNCHANGED remote
       ELSE /\ remote' = Append(remote, "connecting")
            /\ client' = [client EXCEPT !.asked = @ - 1, !.answered = @ \cup {Len(remote) + 1}]
    /\ UNCHANGED links

\* bridge_websocket: accept() and the wait for the token.
AcceptSocket(l) ==
    /\ links[l].server = "none" /\ ~links[l].cut
    /\ links' = [links EXCEPT ![l].server = "waiting"]
    /\ UNCHANGED <<remote, client>>

\* The token is there: authenticate(). A socket that fails to prove itself is closed, but its
\* session stays in the table. The client hears of its success, unless the line is cut before.
Authenticate(l, expired, heard) ==
    LET s == links[l].session
        proved == s \in Held /\ links[l].token = s /\ ~expired
    IN  /\ links[l].server = "waiting" /\ links[l].token # 0 /\ ~links[l].cut
        /\ links' = [links EXCEPT ![l] =
               [session |-> s, token |-> links[l].token,
                page |-> links[l].page, server |-> IF proved THEN "serving" ELSE "ended",
                cut |-> proved /\ ~heard]]
        /\ remote' = IF proved THEN [remote EXCEPT ![s] = "authenticated"] ELSE remote
        /\ client' = IF proved /\ heard THEN [client EXCEPT !.attempts = 0] ELSE client

\* WebSocketDisconnect, at any of its waits.
ServerNotices(l) ==
    LET s == links[l].session IN
    /\ links[l].server \in {"waiting", "serving"}
    /\ links[l].cut \/ links[l].page \in {"closing", "closed"}
    /\ links' = [links EXCEPT ![l].server = "ended"]
    /\ remote' = IF s \in Held THEN [remote EXCEPT ![s] = "removed"] ELSE remote
    /\ UNCHANGED client

\* DELETE /sessions/{id}; its socket is not closed.
ForceDisconnect(s) ==
    /\ s \in Held
    /\ remote' = [remote EXCEPT ![s] = "forced"]
    /\ UNCHANGED <<links, client>>

CutLine(l) ==
    /\ links[l].page # "closed" /\ links[l].server # "ended" /\ ~links[l].cut
    /\ links' = [links EXCEPT ![l].cut = TRUE]
    /\ UNCHANGED <<remote, client>>

BridgeNext ==
    \/ UserConnects \/ TimerFires \/ FetchFails \/ UserDisconnects \/ BridgeConnect
    \/ \E s \in DOMAIN remote : OpenSocket(s) \/ ForceDisconnect(s)
    \/ \E l \in DOMAIN links :
         \/ SocketOpens(l) \/ SocketCloses(l) \/ AcceptSocket(l) \/ ServerNotices(l) \/ CutLine(l)
         \/ \E expired, heard \in BOOLEAN : Authenticate(l, expired, heard)

-----------------------------------------------------------------------------
\* The sockets whose end the page has not seen.
OpenLinks == {l \in DOMAIN links : links[l].page # "closed"}

\* However often sockets close, forgotten ones too, there are never more connections made,
\* under way or due than the user has asked for.
ConnectionsDoNotMultiply ==
    client.asked + Cardinality(client.answered) + client.timers + Cardinality(OpenLinks)
        <= client.users

\* A client that nobody lets in gives up: the sessions it was given, its calls under way and
\* those due are no more than its user's and maxReconnectAttempts of its own.
ClientGivesUp ==
    /\ Len(remote) + client.asked + client.timers <= client.users + client.attempts
    /\ client.attempts <= maxReconnectAttempts

\* The bridge stays within max_sessions; its client has as many connections as were asked for,
\* and does not fill the table on its own account for ever (remote_bridge.py 66-105, bridge_api.py
\* 82-109, RemoteBridgeClient.ts 22-67).
BridgeSound == Cardinality(Held) <= max_sessions /\ ConnectionsDoNotMultiply /\ ClientGivesUp

BridgeSpec == BridgeInit /\ [][BridgeNext]_bridgeVars

=============================================================================
