--------------------------- MODULE FrontendSocket ---------------------------
(***************************************************************************)
(* The web client's socket and what the chat page does with it             *)
(* (frontend/src/api/ws.ts, stores/sessionStore.ts, ChatView, PromptInput, *)
(* Sidebar), against the handler of api/ws.py.                             *)
(*                                                                         *)
(* TenderClawWS keeps one current socket, but a socket it has replaced     *)
(* keeps its callbacks, and a reconnection that setTimeout has accepted    *)
(* cannot be taken back.  The callbacks and timers of all of them share    *)
(* one flag, one counter and one ping interval.                            *)
(*                                                                         *)
(* The handler is the least a client can tell from it: whether a turn runs *)
(* and what it sends.  SessionTurns has the rest.                          *)
(***************************************************************************)
EXTENDS Naturals, Sequences, FiniteSets

CONSTANTS
    Sockets,                 \* the WebSocket objects alive at one time
    NoSocket,                \* this.ws = null
    MaxSessions,             \* bound on the sessions created
    MAX_RECONNECT_ATTEMPTS,
    MaxInputs                \* bound on what the user does

ASSUME SocketAssumption ==
    /\ NoSocket \notin Sockets
    /\ MaxSessions \in Nat
    /\ MAX_RECONNECT_ATTEMPTS \in Nat \ {0}
    /\ MaxInputs \in Nat

VARIABLES
    client,    \* the fields of TenderClawWS, and its timers that have not fired
    sock,      \* the sockets: state, session, messages on their way up and down
    view,      \* the fields of the session store the page goes by
    page,      \* whether the page is shown, and its requests that wait for an answer
    handler,   \* the server's handler of each socket
    busy,      \* the status of each session on the server
    sessions,  \* the sessions the server knows
    created,   \* how many it has ever created
    inputs     \* the messages, stops, new chats and changes of page so far

clientVars == <<client, sock, view, page>>
serverVars == <<handler, busy, sessions, created>>
vars == <<clientVars, serverVars, inputs>>

-----------------------------------------------------------------------------
Sessions == 1..MaxSessions
NoSession == 0   \* sessionId = null

\* "failing" is closing too: close() on a socket that was not open yet ends in an error.
States == {"unused", "connecting", "open", "closing", "failing", "closed"}
Live(k) == sock[k].state \in {"connecting", "open"}

\* The messages that matter to the client: a turn begins, ends, or something went wrong, the
\* session is unknown; and to the server: a user's message, a request to stop.
Events == {"turn_start", "turn_end", "error", "session_not_found"}
Requests == {"user_message", "abort"}

\* A handler runs no turn, a turn of the agentic loop, a team pipeline, or waits for a turn
\* it has cancelled; or it has told its client that the session is unknown, or has returned.
Handlers == {"none", "idle", "turn", "team", "unwinding", "unknown"}

Blank == [state |-> "unused", session |-> NoSession, up |-> <<>>, down |-> <<>>]

Init ==
    /\ client = [cur |-> NoSocket, session |-> NoSession, wanted |-> TRUE,
                 attempts |-> 0, timers |-> 0, ping |-> FALSE]
    /\ sock = [k \in Sockets |-> Blank]
    /\ view = [session |-> NoSession, status |-> "idle", ws |-> "disconnected"]
    /\ page = [shown |-> TRUE, creating |-> TRUE, drafts |-> 0]
    /\ handler = [k \in Sockets |-> "none"]
    /\ busy = [s \in Sessions |-> FALSE]
    /\ sessions = {}
    /\ created = 0
    /\ inputs = 0

-----------------------------------------------------------------------------
(* TenderClawWS.  Its methods are operators on the client, the sockets and the view. *)

IsDisconnected(c, ss) == \/ c.cur = NoSocket
                         \/ ss[c.cur].state \in {"closing", "failing", "closed"}

\* A WebSocket nobody holds any more.
Free(k) == /\ sock[k].state \in {"unused", "closed"}
           /\ client.cur # k
           /\ handler[k] = "none"

\* doConnect with the new socket k: the one before is not closed.
DoConnect(c, k) ==
    /\ Free(k)
    /\ client' = [c EXCEPT !.cur = k]
    /\ sock' = [sock EXCEPT ![k] = [Blank EXCEPT !.state = "connecting", !.session = c.session]]

\* connect(s), which the page's effect calls if the socket is disconnected.
Connect(s, k) ==
    IF IsDisconnected(client, sock)
    THEN DoConnect([client EXCEPT !.session = s, !.wanted = TRUE, !.attempts = 0], k)
    ELSE UNCHANGED <<client, sock>>

\* ws?.close(): nothing happens at once but the socket's state.
CloseIt(ss, k) ==
    IF k = NoSocket THEN ss
    ELSE [ss EXCEPT ![k].state = CASE @ = "open" -> "closing" [] @ = "connecting" -> "failing"
                                   [] OTHER -> @]

\* disconnect(), which leaves the timers.
Disconnect ==
    /\ client' = [client EXCEPT !.wanted = FALSE, !.ping = FALSE, !.cur = NoSocket]
    /\ sock' = CloseIt(sock, client.cur)

\* send: dropped unless the current socket is open.
SendUp(m) ==
    IF client.cur # NoSocket /\ sock[client.cur].state = "open"
    THEN sock' = [sock EXCEPT ![client.cur].up = Append(@, m)]
    ELSE UNCHANGED sock

\* The last attempt is not made.
OnCloseOneLess(ss, k) ==
    /\ sock' = [ss EXCEPT ![k].state = "closed", ![k].down = <<>>,
                          ![k].session = IF handler[k] = "none" THEN NoSession ELSE @]
    /\ LET again == client.wanted /\ client.attempts < MAX_RECONNECT_ATTEMPTS - 1 IN
       client' = [client EXCEPT !.ping = FALSE,
                                !.attempts = IF again THEN @ + 1 ELSE @,
                                !.timers = IF again THEN @ + 1 ELSE @]

\* onclose of any socket, the current one or not.
OnClose(ss, k) ==
    /\ sock' = [ss EXCEPT ![k].state = "closed", ![k].down = <<>>,
                          ![k].session = IF handler[k] = "none" THEN NoSession ELSE @]
    /\ LET again == client.wanted /\ client.attempts < MAX_RECONNECT_ATTEMPTS IN
       client' = [client EXCEPT !.ping = FALSE,
                                !.attempts = IF again THEN @ + 1 ELSE @,
                                !.timers = IF again THEN @ + 1 ELSE @]

\* emitStatus reaches the store while the page is shown.
Status(st) == IF page.shown THEN [view EXCEPT !.ws = st] ELSE view

-----------------------------------------------------------------------------
(* The browser *)

\* The server accepts: onopen.  The handler looks the session up.
Open(k) ==
    /\ sock[k].state = "connecting"
    /\ LET known == sock[k].session \in sessions IN
       /\ sock' = [sock EXCEPT ![k].state = "open",
                               ![k].down = IF known THEN <<>> ELSE <<"session_not_found">>]
       /\ handler' = [handler EXCEPT ![k] = IF known THEN "idle" ELSE "unknown"]
    /\ client' = [client EXCEPT !.attempts = 0, !.ping = TRUE]
    /\ view' = Status("connected")
    /\ UNCHANGED <<page, busy, sessions, created, inputs>>

\* The connection fails or cannot be made: onerror closes the current socket, which need not
\* be this one, then onclose.
Fail(k) ==
    /\ sock[k].state \in {"connecting", "open", "failing"}
    /\ OnClose(CloseIt(sock, client.cur), k)
    /\ view' = Status("disconnected")
    /\ UNCHANGED <<page, serverVars, inputs>>

\* The closing handshake ends; the server's close after "unknown" needs no step of the client.
Closed(k) ==
    /\ \/ sock[k].state = "closing"
       \/ sock[k].state = "open" /\ handler[k] = "unknown" /\ sock[k].down = <<>>
    /\ OnClose(sock, k)
    /\ view' = Status("disconnected")
    /\ UNCHANGED <<page, serverVars, inputs>>

\* setTimeout fires: doConnect, whatever has happened since.
Reconnect(k) ==
    /\ client.timers > 0
    /\ DoConnect([client EXCEPT !.timers = @ - 1], k)
    /\ view' = Status("connecting")
    /\ UNCHANGED <<page, serverVars, inputs>>

\* onmessage, and handleServerEvent of the store.
Receive(k) ==
    /\ sock[k].state = "open"
    /\ sock[k].down # <<>>
    /\ LET event == Head(sock[k].down)
           rest == [sock EXCEPT ![k].down = Tail(@)]
       IN  IF event = "session_not_found"
           THEN /\ client' = [client EXCEPT !.wanted = FALSE]
                /\ sock' = CloseIt(rest, client.cur)
                \* sessionId = null makes the page ask for a new session
                /\ IF page.shown
                   THEN /\ view' = [view EXCEPT !.session = NoSession, !.status = "idle"]
                        /\ page' = [page EXCEPT !.creating = TRUE]
                   ELSE UNCHANGED <<view, page>>
           ELSE /\ sock' = rest
                /\ view' = IF page.shown
                           THEN [view EXCEPT !.status = IF event = "turn_start" THEN "busy" ELSE "idle"]
                           ELSE view
                /\ UNCHANGED <<client, page>>
    /\ UNCHANGED <<serverVars, inputs>>

-----------------------------------------------------------------------------
(* The page *)

\* api.sessions.create answers: setSession, then the effect that connects.
SessionCreated(k) ==
  LET s == created + 1 IN
    /\ page.creating
    /\ created < MaxSessions
    /\ created' = s
    /\ sessions' = sessions \cup {s}
    /\ page' = [page EXCEPT !.creating = FALSE]
    /\ Connect(s, k)
    /\ view' = [view EXCEPT !.session = s, !.status = "idle",
                            !.ws = IF IsDisconnected(client, sock) THEN "connecting" ELSE @]
    /\ UNCHANGED <<handler, busy, inputs>>

\* The request fails; nothing asks again before the page changes.
SessionRefused ==
    /\ page.creating
    /\ page' = [page EXCEPT !.creating = FALSE]
    /\ UNCHANGED <<client, sock, view, serverVars, inputs>>

\* "New chat" of the sidebar: disconnect() and reset(), which leaves wsStatus.
NewChat ==
    /\ inputs < MaxInputs
    /\ inputs' = inputs + 1
    /\ Disconnect
    /\ view' = [view EXCEPT !.session = NoSession, !.status = "idle"]
    \* the effect runs if sessionId has changed
    /\ page' = [page EXCEPT !.creating = page.shown /\ (@ \/ view.session # NoSession)]
    /\ UNCHANGED <<serverVars>>

\* The page is left: it unsubscribes, its request is aborted, and it disconnects.
Leave ==
    /\ page.shown
    /\ inputs < MaxInputs
    /\ inputs' = inputs + 1
    /\ Disconnect
    /\ page' = [page EXCEPT !.shown = FALSE, !.creating = FALSE]
    /\ UNCHANGED <<view, serverVars>>

\* It is shown again, with the store as it was left.
Return(k) ==
    /\ ~page.shown
    /\ IF view.session = NoSession
       THEN /\ page' = [page EXCEPT !.shown = TRUE, !.creating = TRUE]
            /\ UNCHANGED <<client, sock, view>>
       ELSE /\ page' = [page EXCEPT !.shown = TRUE]
            /\ Connect(view.session, k)
            /\ view' = IF IsDisconnected(client, sock) THEN [view EXCEPT !.ws = "connecting"] ELSE view
    /\ UNCHANGED <<serverVars, inputs>>

\* handleSubmit, if canSend: handleSend waits for the keywords.
Submit ==
    /\ page.shown
    /\ view.session # NoSession /\ view.ws = "connected" /\ view.status # "busy"
    /\ inputs < MaxInputs
    /\ inputs' = inputs + 1
    /\ page' = [page EXCEPT !.drafts = @ + 1]
    /\ UNCHANGED <<client, sock, view, serverVars>>

\* The answer comes: addUserMessage, and the message goes to the socket there is by now.
Send ==
    /\ page.drafts > 0
    /\ page' = [page EXCEPT !.drafts = @ - 1]
    /\ view' = [view EXCEPT !.status = "busy"]
    /\ SendUp("user_message")
    /\ UNCHANGED <<client, serverVars, inputs>>

\* handleStop, which a busy page offers.
Stop ==
    /\ page.shown
    /\ view.status = "busy"
    /\ inputs < MaxInputs
    /\ inputs' = inputs + 1
    /\ SendUp("abort")
    /\ UNCHANGED <<client, view, page, serverVars>>

-----------------------------------------------------------------------------
(* The handler of api/ws.py *)

\* A stop is answered only where a turn runs.
ServeSilentStop(k) ==
    /\ handler[k] \in {"idle", "turn", "team", "unwinding"}
    /\ sock[k].up # <<>>
    /\ LET s == sock[k].session
           answer(e) == [sock EXCEPT ![k].up = Tail(@),
                                     ![k].down = IF sock[k].state = "open" THEN Append(@, e) ELSE @]
       IN  CASE Head(sock[k].up) = "abort" /\ handler[k] = "idle" ->
                  /\ sock' = [sock EXCEPT ![k].up = Tail(@)]
                  /\ UNCHANGED <<handler, busy>>
             [] Head(sock[k].up) = "abort" /\ handler[k] # "idle" ->
                  /\ handler' = [handler EXCEPT ![k] = "unwinding"]
                  /\ busy' = [busy EXCEPT ![s] = FALSE]
                  /\ sock' = answer("turn_end")
             [] Head(sock[k].up) # "abort" /\ (busy[s] \/ handler[k] # "idle") ->
                  /\ sock' = answer("error")
                  /\ UNCHANGED <<handler, busy>>
             [] OTHER ->
                  /\ \E kind \in {"turn", "team"} : handler' = [handler EXCEPT ![k] = kind]
                  /\ busy' = [busy EXCEPT ![s] = TRUE]
                  /\ sock' = [sock EXCEPT ![k].up = Tail(@)]
    /\ UNCHANGED <<client, view, page, sessions, created, inputs>>

\* What a handler reads may also be what the client sent before it closed.
Serve(k) ==
    /\ handler[k] \in {"idle", "turn", "team", "unwinding"}
    /\ sock[k].up # <<>>
    /\ LET s == sock[k].session
           answer(e) == [sock EXCEPT ![k].up = Tail(@),
                                     ![k].down = IF sock[k].state = "open" THEN Append(@, e) ELSE @]
       IN  CASE Head(sock[k].up) = "abort" ->
                  /\ handler' = [handler EXCEPT ![k] = IF @ = "idle" THEN "idle" ELSE "unwinding"]
                  /\ busy' = [busy EXCEPT ![s] = FALSE]
                  /\ sock' = answer("turn_end")
             [] busy[s] \/ handler[k] # "idle" ->          \* session_busy
                  /\ sock' = answer("error")
                  /\ UNCHANGED <<handler, busy>>
             [] OTHER ->
                  /\ \E kind \in {"turn", "team"} : handler' = [handler EXCEPT ![k] = kind]
                  /\ busy' = [busy EXCEPT ![s] = TRUE]
                  /\ sock' = [sock EXCEPT ![k].up = Tail(@)]
    /\ UNCHANGED <<client, view, page, sessions, created, inputs>>

Down(k, e) == sock' = [sock EXCEPT ![k].down = IF sock[k].state = "open" THEN Append(@, e) ELSE @]

\* Each iteration of the loop says turn_start.
TurnStarts(k) ==
    /\ handler[k] = "turn"
    /\ sock[k].state = "open" /\ sock[k].down = <<>>
    /\ Down(k, "turn_start")
    /\ UNCHANGED <<client, view, page, serverVars, inputs>>

\* The loop ends with turn_end or an error, a team pipeline with an error or with nothing.
TurnEnds(k) ==
    /\ handler[k] \in {"turn", "team", "unwinding"}
    /\ handler' = [handler EXCEPT ![k] = "idle"]
    /\ busy' = [busy EXCEPT ![sock[k].session] = FALSE]
    /\ \/ handler[k] = "turn" /\ \E e \in {"turn_end", "error"} : Down(k, e)
       \/ handler[k] = "team" /\ (Down(k, "error") \/ UNCHANGED sock)
       \/ handler[k] = "unwinding" /\ UNCHANGED sock
    /\ UNCHANGED <<client, view, page, sessions, created, inputs>>

\* The handler notices that its socket is gone and returns, its turn cancelled.
HandlerEnds(k) ==
    /\ handler[k] # "none"
    /\ sock[k].state \in {"closing", "failing", "closed"}
    /\ handler' = [handler EXCEPT ![k] = "none"]
    /\ busy' = IF handler[k] = "unknown" THEN busy ELSE [busy EXCEPT ![sock[k].session] = FALSE]
    /\ sock' = [sock EXCEPT ![k].up = <<>>, ![k].session = NoSession]
    /\ UNCHANGED <<client, view, page, sessions, created, inputs>>

\* A session is deleted, or was not saved before the server started again.
Lose(s) ==
    /\ s \in sessions
    /\ sessions' = sessions \ {s}
    /\ UNCHANGED <<clientVars, handler, busy, created, inputs>>

-----------------------------------------------------------------------------
Page == \/ SessionRefused \/ NewChat \/ Leave \/ Submit \/ Send \/ Stop
        \/ \E k \in Sockets : Return(k) \/ SessionCreated(k)

Browser(k) == Open(k) \/ Fail(k) \/ Closed(k) \/ Reconnect(k) \/ Receive(k)
Handler(k) == Serve(k) \/ TurnStarts(k) \/ TurnEnds(k) \/ HandlerEnds(k)

Next == \/ Page
        \/ \E k \in Sockets : Browser(k) \/ Handler(k)
        \/ \E s \in Sessions : Lose(s)

Spec == Init /\ [][Next]_vars

\* The browser ends every attempt to connect and every close, fires its timers and hands over
\* what has arrived; the page's requests are answered; the server runs what is ready, and
\* turns end, as SessionTurns shows.  Nothing is assumed of the user or of the network.
Fairness ==
    /\ \A k \in Sockets :
          /\ WF_vars(sock[k].state = "connecting" /\ (Open(k) \/ Fail(k)))
          /\ WF_vars(Closed(k) \/ (sock[k].state = "failing" /\ Fail(k)))
          /\ WF_vars(Receive(k)) /\ WF_vars(Serve(k)) /\ WF_vars(TurnEnds(k)) /\ WF_vars(HandlerEnds(k))
    /\ WF_vars(\E k \in Sockets : Reconnect(k))
    /\ WF_vars(Send)

FairSpec == Spec /\ Fairness

-----------------------------------------------------------------------------
NoneLive == \A k \in Sockets : ~Live(k)
GaveUp == client.attempts = MAX_RECONNECT_ATTEMPTS

\* A client that was not told to stop and has no socket gets one again, or has used up its
\* attempts: the close of whatever socket was last counts one and starts a timer (ws.ts:120),
\* whatever sockets and timers there were besides.
Reconnects == (client.wanted /\ client.cur # NoSocket /\ NoneLive)
              ~> (GaveUp \/ ~client.wanted \/ \E k \in Sockets : sock[k].state = "open")

\* The requests to stop that the handler has not read.
Stopping(k) == \E i \in 1..Len(sock[k].up) : sock[k].up[i] = "abort"
\* A busy page comes out of it as long as its socket stays open: the turn of the socket's
\* handler ends with turn_end or an error, and a stop is answered even where nothing runs
\* (ws.py:160, sessionStore.ts:396).  A team pipeline alone need not release it, and a message
\* that was dropped is not even known to the server: then only the stop does.
BusyReleased == \A k \in Sockets :
    (view.status = "busy" /\ sock[k].state = "open" /\ (handler[k] = "turn" \/ (Stopping(k) /\ handler[k] # "unknown")))
    ~> (view.status # "busy" \/ sock[k].state # "open" \/ ~page.shown)

\* ChatView.tsx:50, "Session exists -- ensure WS is connected": an open socket is the one of
\* the session the page shows.
SocketServesView == \A k \in Sockets :
    (client.cur = k /\ sock[k].state = "open" /\ page.shown /\ view.session # NoSession)
    => sock[k].session = view.session

=============================================================================
