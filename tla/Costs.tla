-------------------------------- MODULE Costs ---------------------------------
(***************************************************************************)
(* What sessions have used, kept twice: the totals of each session, saved  *)
(* with its conversation when a turn ends (core/conversation.py,           *)
(* services/session_store.py), and the cost book with a file per session,  *)
(* saved at each answer (services/cost_tracker.py and                      *)
(* runtime/usage_tracker.py, read by api/cost_api.py).                     *)
(*                                                                         *)
(* A book is read from its file at its first use after a start, by a turn  *)
(* or by whoever asks for costs.  A write may fail, before the file is cut *)
(* or after, and the error then ends the turn.  An answer stands for its   *)
(* tokens, their price and the model they are booked under.  A crash that  *)
(* tears a conversation's file is in SessionStore.                         *)
(***************************************************************************)
EXTENDS Naturals, Sequences, FiniteSets, SequencesExt

CONSTANTS
    Accounts,       \* the sessions
    MaxAnswers,
    MaxCostFaults,  \* failing writes
    MaxCostCrashes

ASSUME CostsAssumption ==
    /\ IsFiniteSet(Accounts) /\ MaxAnswers \in Nat
    /\ MaxCostFaults \in Nat /\ MaxCostCrashes \in Nat

VARIABLES
    billedTo,   \* the session of each answer, in order (a history variable)
    spent,      \* the answers in each session's totals
    filed,      \* the same in its conversation's file
    inTurn,     \* the sessions a turn is running in
    books,      \* CostTracker._trackers
    costFiles,  \* the file of each book
    unbooked,   \* answers whose record_usage raised (a history variable)
    torn,       \* sessions whose torn file a crash left (a history variable)
    costFaults, costCrashes

costVars == <<billedTo, spent, filed, inTurn, books, costFiles, unbooked, torn,
              costFaults, costCrashes>>

-----------------------------------------------------------------------------
NoBook == [loaded |-> FALSE, entries |-> <<>>]
Book(entries) == [loaded |-> TRUE, entries |-> entries]
CostFile(entries) == [whole |-> TRUE, entries |-> entries]
TornFile == [whole |-> FALSE, entries |-> <<>>]

\* A file that is not there is one without entries: a new UsageTracker.
CostsInit ==
    /\ billedTo = <<>>
    /\ spent = [s \in Accounts |-> <<>>] /\ filed = [s \in Accounts |-> <<>>]
    /\ inTurn = {}
    /\ books = [s \in Accounts |-> NoBook]
    /\ costFiles = [s \in Accounts |-> CostFile(<<>>)]
    /\ unbooked = {} /\ torn = {}
    /\ costFaults = 0 /\ costCrashes = 0

\* get_tracker, where it does not raise.
CanOpen(s) == books[s].loaded \/ costFiles[s].whole

\* Only what was recorded since the start.
OpenedNew(s) == IF books[s].loaded THEN books[s] ELSE Book(<<>>)

Opened(s) == IF books[s].loaded THEN books[s] ELSE Book(costFiles[s].entries)

\* UsageTracker.add
Added(s, id) == Book(Append(Opened(s).entries, id))

\* _load_all_from_disk passes over a file it cannot read.
AllOpened == [s \in Accounts |-> IF CanOpen(s) THEN Opened(s) ELSE books[s]]

-----------------------------------------------------------------------------
TurnStarts(s) ==
    /\ s \notin inTurn
    /\ inTurn' = inTurn \cup {s}
    /\ UNCHANGED <<billedTo, spent, filed, books, costFiles, unbooked, torn, costFaults, costCrashes>>

\* The finally clause of a turn saves the conversation, however the turn ended.
EndsTurn(s) == filed' = [filed EXCEPT ![s] = spent'[s]] /\ inTurn' = inTurn \ {s}

\* An answer joins the history and the session's totals.
Counts(s) ==
    /\ s \in inTurn /\ Len(billedTo) < MaxAnswers
    /\ billedTo' = Append(billedTo, s)
    /\ spent' = [spent EXCEPT ![s] = Append(@, Len(billedTo'))]

\* record_usage saves the book with the answer in it; the loop goes on.
IsBooked(s) ==
    /\ Counts(s) /\ CanOpen(s)
    /\ books' = [books EXCEPT ![s] = Added(s, Len(billedTo'))]
    /\ costFiles' = [costFiles EXCEPT ![s] = CostFile(books'[s].entries)]
    /\ UNCHANGED <<filed, inTurn, unbooked, torn, costFaults, costCrashes>>

\* The book has the answer, its file has not, and the error ends the turn.
WriteFails(s) ==
    /\ Counts(s) /\ CanOpen(s)
    /\ costFaults < MaxCostFaults /\ costFaults' = costFaults + 1
    /\ books' = [books EXCEPT ![s] = Added(s, Len(billedTo'))]
    /\ \/ UNCHANGED costFiles
       \/ costFiles' = [costFiles EXCEPT ![s] = TornFile]
    /\ unbooked' = unbooked \cup {Len(billedTo')}
    /\ EndsTurn(s)
    /\ UNCHANGED <<torn, costCrashes>>

\* A file that is not JSON: get_tracker raises before anything is booked.
CannotOpen(s) ==
    /\ Counts(s) /\ ~CanOpen(s)
    /\ unbooked' = unbooked \cup {Len(billedTo')}
    /\ EndsTurn(s)
    /\ UNCHANGED <<books, costFiles, torn, costFaults, costCrashes>>

TurnFinishes(s) ==
    /\ s \in inTurn
    /\ UNCHANGED spent
    /\ EndsTurn(s)
    /\ UNCHANGED <<billedTo, books, costFiles, unbooked, torn, costFaults, costCrashes>>

\* PUT /config with the session's id, in the middle of a turn or outside.
ConfigSaved(s) ==
    /\ filed' = [filed EXCEPT ![s] = spent[s]]
    /\ UNCHANGED <<billedTo, spent, inTurn, books, costFiles, unbooked, torn, costFaults, costCrashes>>

\* GET /costs/session/{id}; with a torn file it fails.
AskSession(s) ==
    /\ CanOpen(s)
    /\ books' = [books EXCEPT ![s] = Opened(s)]
    /\ UNCHANGED <<billedTo, spent, filed, inTurn, costFiles, unbooked, torn, costFaults, costCrashes>>

\* GET /costs/history
AskHistory ==
    /\ books' = AllOpened
    /\ UNCHANGED <<billedTo, spent, filed, inTurn, costFiles, unbooked, torn, costFaults, costCrashes>>

\* The process ends, perhaps while it writes a book, and starts again.
CostsCrash ==
    /\ costCrashes < MaxCostCrashes /\ costCrashes' = costCrashes + 1
    /\ \/ UNCHANGED costFiles
       \/ \E s \in inTurn : costFiles' = [costFiles EXCEPT ![s] = TornFile]
    /\ torn' = torn \cup {s \in Accounts : ~costFiles'[s].whole}
    /\ books' = [s \in Accounts |-> NoBook]
    /\ spent' = filed
    /\ inTurn' = {}
    /\ UNCHANGED <<billedTo, filed, unbooked, costFaults>>

CostsNext ==
    \/ \E s \in Accounts :
          \/ TurnStarts(s) \/ IsBooked(s) \/ WriteFails(s) \/ CannotOpen(s)
          \/ TurnFinishes(s) \/ ConfigSaved(s) \/ AskSession(s)
    \/ AskHistory \/ CostsCrash

CostsSpec == CostsInit /\ [][CostsNext]_costVars

-----------------------------------------------------------------------------
\* Both accounts agree across failing writes, questions and restarts: a book holds answers of its
\* own session, in order and each once, and all that the session's totals and its file count,
\* except those whose recording raised and those of a file that a crash found or left torn
\* (conversation.py:429-443, cost_tracker.py:19-27).
UsageIsBooked ==
    \A s \in Accounts :
        LET entries == IF CanOpen(s) THEN Opened(s).entries ELSE <<>>
        IN  /\ \A i, j \in DOMAIN entries : i < j => entries[i] < entries[j]
            /\ \A id \in Range(entries) : billedTo[id] = s
            /\ s \notin torn =>
                  (Range(spent[s]) \cup Range(filed[s])) \ unbooked \subseteq Range(entries)

=============================================================================
