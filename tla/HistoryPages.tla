---------------------------- MODULE HistoryPages -----------------------------
(***************************************************************************)
(* The history of sessions, page by page: services/history_service.py with *)
(* api/history_api.py, and the two screens that read it, HistoryScreen.tsx *)
(* (the sessions, by offset and with a filter) and HistoryDetailScreen.tsx *)
(* (the messages of one, by cursor).                                       *)
(*                                                                         *)
(* Between two pages sessions come, go and grow; answers come in any       *)
(* order, and nothing tells a late one from one that is due.               *)
(***************************************************************************)
EXTENDS Naturals, Sequences, FiniteSets, SequencesExt, FiniteSetsExt

CONSTANTS
    PageSize,     \* the limit of a page
    MaxSessions,  \* bound on the sessions created
    MaxLength,      \* bound on the messages of a session
    MaxAsked      \* bound on the requests for a page of sessions

ASSUME HistoryAssumption ==
    PageSize \in Nat \ {0} /\ MaxSessions \in Nat /\ MaxLength \in Nat /\ MaxAsked \in Nat

VARIABLES
    stored,    \* the sessions created so far, each with its number of messages, 0 once it is deleted
    matching,  \* the sessions whose title or preview has the keyword
    screen,    \* the state of HistoryScreen
    asked,     \* its requests in flight
    removal,   \* its deletion in flight: the session, and the list as it was clicked in
    detail     \* the state of HistoryDetailScreen

historyVars == <<stored, matching, screen, asked, removal, detail>>

-----------------------------------------------------------------------------
Filters == {"", "keyword"}

\* list_sessions: what passes the filter, the newest first.
ListedSessions(filter) ==
    LET found == {s \in DOMAIN stored : stored[s] > 0 /\ (filter = "" \/ s \in matching)}
    IN  [n \in 1..Cardinality(found) |-> CHOOSE s \in found : Cardinality({t \in found : t >= s}) = n]

\* A page of a list, by offset.
Page(list, offset) == SubSeq(list, offset + 1, Min({offset + PageSize, Len(list)}))

\* Mutant: the entry with the cursor is sent again.
StartAt(list, cursor) == IF \E i \in 1..Len(list) : list[i] = cursor
                         THEN Min({i \in 1..Len(list) : list[i] = cursor}) - 1 ELSE 0

\* Where the page behind the entry with the cursor starts: at 0 if nothing has it.
StartAfter(list, cursor) ==
    LET here == {i \in 1..Len(list) : list[i] = cursor}
    IN  IF here = {} THEN 0 ELSE Min(here)

NoRemoval == [s |-> 0, list |-> <<>>]
NoDetail == [s |-> 0, list |-> <<>>, cursor |-> 0, more |-> FALSE, total |-> 0]

\* A request for a page; alone while nothing has come between.
Asks(filter, offset, reset) ==
    [filter |-> filter, offset |-> offset, reset |-> reset, page |-> <<>>, answered |-> FALSE,
     alone |-> TRUE]

\* The screen when it is mounted: its first request is under way.
Mounted(asks) ==
    [filter |-> "", list |-> <<>>, offset |-> 0, more |-> FALSE, loading |-> TRUE,
     loadingMore |-> FALSE, asks |-> asks, sound |-> FALSE]

HistoryInit ==
    /\ stored \in {[s \in 1..n |-> 1] : n \in 0..MaxSessions}
    /\ matching \in SUBSET DOMAIN stored
    /\ screen = Mounted(1)
    /\ asked = {Asks("", 0, TRUE)}
    /\ removal = NoRemoval
    /\ detail = NoDetail

\* The sessions are no longer those the list and the requests in flight are about.
Disturbed ==
    /\ screen' = [screen EXCEPT !.sound = FALSE]
    /\ asked' = {[r EXCEPT !.alone = FALSE] : r \in asked}

-----------------------------------------------------------------------------
(* What others do *)

\* A session is created, or a turn of one ends: its preview is another one then.
SessionGrows ==
    \E s \in 1..MaxSessions :
        /\ \/ (s = Len(stored) + 1 /\ stored' = Append(stored, 1))
           \/ (s \in DOMAIN stored /\ stored[s] \in 1..(MaxLength - 1) /\ stored' = [stored EXCEPT ![s] = @ + 1])
        /\ matching' \in {matching \cup {s}, matching \ {s}}
        /\ Disturbed
        /\ UNCHANGED <<removal, detail>>

-----------------------------------------------------------------------------
(* HistoryScreen *)

\* loadSessions is called: requests that overlap are both marked.
LoadSessions(filter, offset, reset) ==
    asked' = {[r EXCEPT !.alone = FALSE] : r \in asked}
             \cup {[Asks(filter, offset, reset) EXCEPT !.alone = (asked = {})]}

\* Another filter: the list is asked for anew, whatever is under way.  Until the answer is
\* there, and for good if there is none, the list is that of the filter before.
SetFilter ==
    /\ detail = NoDetail /\ screen.asks < MaxAsked
    /\ \E f \in Filters \ {screen.filter} :
          /\ screen' = [screen EXCEPT !.filter = f, !.loading = TRUE, !.asks = @ + 1,
                                  !.sound = FALSE]
          /\ LoadSessions(f, 0, TRUE)
    /\ UNCHANGED <<stored, matching, removal, detail>>

\* The button is there while the list is, which loading hides.
LoadMore ==
    /\ screen.more /\ ~screen.loading /\ ~screen.loadingMore
    /\ screen.asks < MaxAsked
    /\ screen' = [screen EXCEPT !.loading = TRUE, !.loadingMore = TRUE, !.asks = @ + 1]
    /\ LoadSessions(screen.filter, screen.offset, FALSE)
    /\ UNCHANGED <<stored, matching, removal, detail>>

\* GET /api/history/legacy
Answered ==
    /\ \E r \in asked :
          /\ ~r.answered
          /\ asked' = (asked \ {r})
                \cup {[r EXCEPT !.answered = TRUE, !.page = Page(ListedSessions(r.filter), r.offset)]}
    /\ UNCHANGED <<stored, matching, screen, removal, detail>>

\* The answer is shown, or the request has failed.
Shown ==
    /\ \E r \in asked :
          /\ r.answered
          /\ asked' = asked \ {r}
          /\ LET idle == [screen EXCEPT !.loading = FALSE, !.loadingMore = @ /\ r.reset] IN
             screen' \in {idle,
                          [idle EXCEPT !.list = IF r.reset THEN r.page ELSE @ \o r.page,
                                       !.more = Len(r.page) = PageSize,
                                       !.offset = r.offset + PageSize,
                                       !.sound = r.alone /\ (r.reset \/ @)]}
    /\ UNCHANGED <<stored, matching, removal, detail>>

\* handleDelete: the session goes; what is shown later is the list of the click without it.
HandleDelete ==
    /\ removal = NoRemoval /\ ~screen.loading
    /\ \E s \in DOMAIN stored \cap Range(screen.list) :
          /\ removal' = [s |-> s, list |-> screen.list]
          /\ stored' = [stored EXCEPT ![s] = 0]
          /\ matching' = matching \ {s}
    /\ Disturbed
    /\ UNCHANGED detail

DeleteAnswered ==
    /\ removal # NoRemoval
    /\ screen' \in {screen,
                    [screen EXCEPT !.list = SelectSeq(removal.list, LAMBDA t : t # removal.s), !.sound = FALSE]}
    /\ removal' = NoRemoval
    /\ UNCHANGED <<stored, matching, asked, detail>>

\* handleDeleteAll, with its answer.
HandleDeleteAll ==
    /\ ~screen.loading
    /\ stored' = [s \in DOMAIN stored |-> 0]
    /\ matching' = {}
    /\ screen' = [screen EXCEPT !.list = <<>>, !.more = FALSE, !.offset = 0, !.sound = FALSE]
    /\ asked' = {[r EXCEPT !.alone = FALSE] : r \in asked}
    /\ UNCHANGED <<removal, detail>>

-----------------------------------------------------------------------------
(* HistoryDetailScreen, in place of the other one: one request at a time, answered when made *)

Messages(s) == [i \in 1..stored[s] |-> i]

\* loadMessages, for the first page or behind the cursor.
WithPage(s, list, cursor) ==
    LET start == StartAfter(Messages(s), cursor)
        page == Page(Messages(s), start)
        more == stored[s] > start + PageSize
    IN  [s |-> s, list |-> list \o page, more |-> more, total |-> stored[s],
         cursor |-> IF more THEN Last(page) ELSE 0]

\* handleSessionClick: the other screen is gone, and with it what it waits for.
OpenDetail ==
    /\ \E s \in DOMAIN stored \cap Range(screen.list) :
          /\ stored[s] > 0
          /\ detail' = WithPage(s, <<>>, 0)
    /\ screen' = Mounted(screen.asks)
    /\ asked' = {}
    /\ removal' = NoRemoval
    /\ UNCHANGED <<stored, matching>>

LoadMoreMessages ==
    /\ detail.more /\ detail.cursor # 0
    /\ stored[detail.s] > 0
    /\ detail' = WithPage(detail.s, detail.list, detail.cursor)
    /\ UNCHANGED <<stored, matching, screen, asked, removal>>

\* Back to the list, which is asked for anew.
CloseDetail ==
    /\ detail # NoDetail
    /\ screen.asks < MaxAsked
    /\ detail' = NoDetail
    /\ screen' = Mounted(screen.asks + 1)
    /\ asked' = {Asks("", 0, TRUE)}
    /\ UNCHANGED <<stored, matching, removal>>

HistoryNext ==
    \/ SessionGrows \/ SetFilter \/ LoadMore \/ Answered \/ Shown
    \/ HandleDelete \/ DeleteAnswered \/ HandleDeleteAll \/ OpenDetail \/ LoadMoreMessages
    \/ CloseDetail

HistorySpec == HistoryInit /\ [][HistoryNext]_historyVars

-----------------------------------------------------------------------------
\* The pages of the list fit together: what has been loaded is the start of the sessions that
\* pass the filter, none left out and none twice, and all of them once there is no more
\* (HistoryScreen.tsx:46-69, history_service.py:100-157).  It holds while requests do not
\* overlap and the sessions stay as they are.
ListFits ==
    (screen.sound /\ asked = {}) =>
        LET listed == ListedSessions(screen.filter) IN
        /\ screen.list = SubSeq(listed, 1, Min({screen.offset, Len(listed)}))
        /\ ~screen.more => screen.list = listed

\* The pages of the messages fit together even while the session grows: cursors do not shift
\* (HistoryDetailScreen.tsx:30-49, history_service.py:275-301).
DetailFits ==
    /\ detail.list = [i \in 1..Len(detail.list) |-> i]
    /\ ~detail.more => Len(detail.list) = detail.total

HistoryFits == ListFits /\ DetailFits

=============================================================================
