---------------------------- MODULE Services_proofs ----------------------------
(***************************************************************************)
(* Proofs about services that keep something for others: Costs (every      *)
(* answer is in the cost book), Coordinator (its board is accounted for),  *)
(* Routing (its keys are current), AgentEditor (its agents are kept),      *)
(* Memory (its index and what a prompt shows are current), HistoryPages    *)
(* (what a screen shows fits what it asked for), Hooks (hooks run in       *)
(* order) and ToolStream (tool calls arrive whole).                        *)
(***************************************************************************)
EXTENDS Costs, Coordinator, Routing, AgentEditor, Memory, HistoryPages, Hooks, ToolStream,
        FiniteSetTheorems, SequenceTheorems, TLAPS

-----------------------------------------------------------------------------
(* Costs. *)

CostsType ==
    /\ billedTo \in Seq(Accounts)
    /\ spent \in [Accounts -> Seq(Nat)] /\ filed \in [Accounts -> Seq(Nat)]
    /\ inTurn \subseteq Accounts
    /\ books \in [Accounts -> [loaded : BOOLEAN, entries : Seq(Nat)]]
    /\ costFiles \in [Accounts -> [whole : BOOLEAN, entries : Seq(Nat)]]

Rising(e) == \A i, j \in DOMAIN e : i < j => e[i] < e[j]
AnswersOf(s) == {id \in 1..Len(billedTo) : billedTo[id] = s}
ToBook(s) == (Range(spent[s]) \cup Range(filed[s])) \ unbooked

\* What a book, or a whole file, of session s has.
Complete(s, e) ==
    /\ Rising(e)
    /\ Range(e) \subseteq AnswersOf(s)
    /\ s \notin torn => ToBook(s) \subseteq Range(e)

\* A file is as complete as the book that was made of it; a file in pieces has a book in memory,
\* until a crash finds it.
Accounted(s) ==
    /\ books[s].loaded => Complete(s, books[s].entries)
    /\ costFiles[s].whole => Complete(s, costFiles[s].entries)
    /\ books[s].loaded \/ costFiles[s].whole \/ s \in torn

CostsInv == CostsType /\ \A s \in Accounts : Accounted(s)

LEMMA RangeOfAppend ==
    ASSUME NEW S, NEW e \in Seq(S), NEW x \in S
    PROVE  /\ Range(Append(e, x)) = Range(e) \cup {x}
           /\ Append(e, x) \in Seq(S)
<1>1. /\ Append(e, x) \in Seq(S) /\ Len(Append(e, x)) = Len(e) + 1
      /\ \A i \in 1..Len(e) : Append(e, x)[i] = e[i]
      /\ Append(e, x)[Len(e) + 1] = x
  BY AppendProperties
<1>2. /\ DOMAIN e = 1..Len(e) /\ Len(e) \in Nat
      /\ DOMAIN Append(e, x) = 1..(Len(e) + 1)
  BY <1>1
<1>3. 1..(Len(e) + 1) = (1..Len(e)) \cup {Len(e) + 1}
  BY <1>2
<1> QED
  BY <1>1, <1>2, <1>3 DEF Range

\* Nobody's answers are forgotten, and nothing is to be booked that was not.
LEMMA StaysComplete ==
    ASSUME CostsType, NEW s \in Accounts, NEW e, Complete(s, e),
           AnswersOf(s) \subseteq AnswersOf(s)', torn \subseteq torn', ToBook(s)' \subseteq ToBook(s)
    PROVE  Complete(s, e)'
BY DEF Complete, Rising

LEMMA NewAnswer ==
    ASSUME CostsType, NEW s \in Accounts, Counts(s)
    PROVE  /\ billedTo' \in Seq(Accounts) /\ Len(billedTo') = Len(billedTo) + 1
           /\ Len(billedTo') \in Nat /\ Len(billedTo) \in Nat
           /\ \A t \in Accounts : AnswersOf(t) \subseteq AnswersOf(t)'
           /\ Len(billedTo') \in AnswersOf(s)'
           /\ spent' \in [Accounts -> Seq(Nat)]
           /\ Range(spent'[s]) = Range(spent[s]) \cup {Len(billedTo')}
           /\ \A t \in Accounts : t # s => spent'[t] = spent[t]
<1>1. /\ billedTo' \in Seq(Accounts) /\ Len(billedTo') = Len(billedTo) + 1
      /\ Len(billedTo) \in Nat
      /\ \A i \in 1..Len(billedTo) : billedTo'[i] = billedTo[i]
      /\ billedTo'[Len(billedTo) + 1] = s
  BY AppendProperties DEF Counts, CostsType
<1>2. /\ \A t \in Accounts : AnswersOf(t) \subseteq AnswersOf(t)'
      /\ Len(billedTo') \in AnswersOf(s)'
  BY <1>1 DEF AnswersOf
<1>3. /\ spent'[s] = Append(spent[s], Len(billedTo'))
      /\ spent' = [spent EXCEPT ![s] = Append(spent[s], Len(billedTo'))]
  BY DEF Counts, CostsType
<1>4. /\ Append(spent[s], Len(billedTo')) \in Seq(Nat)
      /\ Range(Append(spent[s], Len(billedTo'))) = Range(spent[s]) \cup {Len(billedTo')}
  <2>1. spent[s] \in Seq(Nat) /\ Len(billedTo') \in Nat
    BY <1>1 DEF CostsType
  <2> QED
    BY <2>1, RangeOfAppend
<1> QED
  BY <1>1, <1>2, <1>3, <1>4 DEF CostsType

LEMMA JoinsBook ==
    ASSUME CostsType, NEW s \in Accounts, NEW e \in Seq(Nat), Complete(s, e), Counts(s),
           torn' = torn, unbooked \subseteq unbooked',
           Range(filed'[s]) \subseteq Range(filed[s]) \cup Range(spent'[s]),
           NEW id, id = Len(billedTo')
    PROVE  Append(e, id) \in Seq(Nat) /\ Complete(s, Append(e, id))'
<1>1. /\ id \in Nat /\ id = Len(billedTo) + 1 /\ Len(billedTo) \in Nat
      /\ id \in AnswersOf(s)' /\ AnswersOf(s) \subseteq AnswersOf(s)'
      /\ Range(spent'[s]) = Range(spent[s]) \cup {id}
  BY NewAnswer
<1>2. Append(e, id) \in Seq(Nat) /\ Range(Append(e, id)) = Range(e) \cup {id}
  BY <1>1, RangeOfAppend
<1>3. \A i \in DOMAIN e : e[i] \in Nat /\ e[i] < id
  <2>1. \A i \in DOMAIN e : e[i] \in Range(e) /\ e[i] \in Nat
    BY DEF Range
  <2> QED
    BY <1>1, <2>1 DEF Complete, AnswersOf
<1>4. Rising(Append(e, id))
  <2>1. /\ Len(Append(e, id)) = Len(e) + 1
        /\ \A i \in 1..Len(e) : Append(e, id)[i] = e[i]
        /\ Append(e, id)[Len(e) + 1] = id
    BY <1>1, AppendProperties
  <2>2. /\ DOMAIN e = 1..Len(e) /\ Len(e) \in Nat
        /\ DOMAIN Append(e, id) = 1..(Len(e) + 1)
    BY <1>2, <2>1
  <2>3. ASSUME NEW i \in DOMAIN Append(e, id), NEW j \in DOMAIN Append(e, id), i < j
        PROVE  Append(e, id)[i] < Append(e, id)[j]
    <3>1. i \in DOMAIN e
      BY <2>2, <2>3
    <3>2. CASE j = Len(e) + 1
      BY <1>3, <2>1, <2>2, <3>1, <3>2
    <3>3. CASE j # Len(e) + 1
      <4>1. j \in DOMAIN e
        BY <2>2, <3>3
      <4> QED
        BY <2>1, <2>2, <2>3, <3>1, <4>1 DEF Complete, Rising
    <3> QED
      BY <3>2, <3>3
  <2> QED
    BY <2>3 DEF Rising
<1>5. ToBook(s)' \subseteq ToBook(s) \cup {id}
  BY <1>1 DEF ToBook
<1> QED
  BY <1>1, <1>2, <1>4, <1>5 DEF Complete, Rising

LEMMA OpenedIsComplete ==
    ASSUME CostsInv, NEW s \in Accounts, CanOpen(s)
    PROVE  /\ Opened(s).entries \in Seq(Nat)
           /\ Complete(s, Opened(s).entries)
           /\ Opened(s) \in [loaded : BOOLEAN, entries : Seq(Nat)]
           /\ Opened(s).loaded
BY DEF CostsInv, Accounted, CostsType, CanOpen, Opened, Book

\* The end of a turn, and what is to be booked after it.
LEMMA EndsTurnKeeps ==
    ASSUME CostsType, NEW s \in Accounts, EndsTurn(s), spent' \in [Accounts -> Seq(Nat)],
           \A t \in Accounts : t # s => spent'[t] = spent[t]
    PROVE  /\ filed' \in [Accounts -> Seq(Nat)] /\ inTurn' \subseteq Accounts
           /\ filed'[s] = spent'[s]
           /\ \A t \in Accounts : t # s => filed'[t] = filed[t]
BY DEF EndsTurn, CostsType

\* Books that are opened or left alone, and files that are left alone or torn, while nothing more
\* is to be booked.
LEMMA Stands ==
    ASSUME CostsInv, NEW t \in Accounts,
           AnswersOf(t) \subseteq AnswersOf(t)', torn \subseteq torn', ToBook(t)' \subseteq ToBook(t),
           books'[t].loaded => books'[t] = books[t] \/ (CanOpen(t) /\ books'[t] = Opened(t)),
           costFiles'[t].whole => costFiles'[t] = costFiles[t],
           books'[t].loaded \/ costFiles'[t].whole \/ t \in torn'
    PROVE  Accounted(t)'
<1>1. ASSUME NEW e, Complete(t, e)
      PROVE  Complete(t, e)'
  BY <1>1, StaysComplete DEF CostsInv
<1>2. ASSUME books'[t].loaded
      PROVE  Complete(t, books[t].entries)'
  <2>1. PICK e : e = books'[t].entries
    OBVIOUS
  <2>2. Complete(t, e)
    <3>1. CASE books'[t] = books[t]
      BY <1>2, <2>1, <3>1 DEF CostsInv, Accounted
    <3>2. CASE CanOpen(t) /\ books'[t] = Opened(t)
      BY <2>1, <3>2, OpenedIsComplete
    <3> QED
      BY <1>2, <3>1, <3>2
  <2>3. Complete(t, e)'
    BY <1>1, <2>2
  <2> QED
    BY <2>1, <2>3 DEF Complete, Rising
<1>3. ASSUME costFiles'[t].whole
      PROVE  Complete(t, costFiles[t].entries)'
  <2>1. PICK e : e = costFiles[t].entries
    OBVIOUS
  <2>2. Complete(t, e)'
    BY <1>1, <1>3, <2>1 DEF CostsInv, Accounted
  <2> QED
    BY <1>3, <2>1, <2>2 DEF Complete, Rising
<1> QED
  BY <1>2, <1>3 DEF Accounted

\* Whatever becomes of an answer of session s, the others' accounts stand.
LEMMA OthersStand ==
    ASSUME CostsInv, NEW s \in Accounts, NEW t \in Accounts, t # s,
           AnswersOf(t) \subseteq AnswersOf(t)',
           spent'[t] = spent[t], filed'[t] = filed[t], unbooked \subseteq unbooked', torn' = torn,
           books'[t] = books[t], costFiles'[t] = costFiles[t]
    PROVE  Accounted(t)'
<1>1. ToBook(t)' \subseteq ToBook(t)
  BY DEF ToBook
<1>2. books[t].loaded \/ costFiles[t].whole \/ t \in torn
  BY DEF CostsInv, Accounted
<1> QED
  BY <1>1, <1>2, Stands

\* The book and the file of a session, each with entries that are complete.
LEMMA BothComplete ==
    ASSUME NEW s \in Accounts, NEW e, Complete(s, e)',
           books'[s].entries = e, costFiles'[s].entries = e, books'[s].loaded
    PROVE  Accounted(s)'
BY DEF Accounted, Complete, Rising

LEMMA IsBookedKeeps ==
    ASSUME CostsInv, NEW s \in Accounts, IsBooked(s)
    PROVE  CostsInv'
<1> USE DEF CostsInv
<1>1. Counts(s) /\ CanOpen(s) /\ filed' = filed /\ inTurn' = inTurn /\ unbooked' = unbooked
      /\ torn' = torn
  BY DEF IsBooked
<1>2. PICK id, e : id = Len(billedTo') /\ e = Append(Opened(s).entries, id)
  OBVIOUS
<1>3. e \in Seq(Nat) /\ Complete(s, e)'
  <2>1. PICK f : f = Opened(s).entries
    OBVIOUS
  <2>2. f \in Seq(Nat) /\ Complete(s, f)
    BY <1>1, <2>1, OpenedIsComplete
  <2> QED
    BY <1>1, <1>2, <2>1, <2>2, JoinsBook
<1>4. books' = [books EXCEPT ![s] = Book(e)] /\ costFiles' = [costFiles EXCEPT ![s] = CostFile(e)]
  BY <1>2 DEF IsBooked, Added, Book, CostsType
<1>5. /\ Book(e) \in [loaded : BOOLEAN, entries : Seq(Nat)] /\ Book(e).entries = e
      /\ CostFile(e) \in [whole : BOOLEAN, entries : Seq(Nat)] /\ CostFile(e).entries = e
      /\ Book(e).loaded /\ CostFile(e).whole
  BY <1>3 DEF Book, CostFile
<1>6. CostsType'
  BY <1>1, <1>4, <1>5, NewAnswer DEF CostsType
<1>7. books'[s] = Book(e) /\ costFiles'[s] = CostFile(e)
  BY <1>4 DEF CostsType
<1>8. \A t \in Accounts : t # s => books'[t] = books[t] /\ costFiles'[t] = costFiles[t]
  BY <1>4 DEF CostsType
<1>9. Accounted(s)'
  BY <1>3, <1>5, <1>7, BothComplete
<1>10. ASSUME NEW t \in Accounts, t # s
       PROVE  Accounted(t)'
  BY <1>1, <1>8, <1>10, NewAnswer, OthersStand
<1> QED
  BY <1>6, <1>9, <1>10

\* The answer is in the book alone, and marked.
LEMMA WriteFailsKeeps ==
    ASSUME CostsInv, NEW s \in Accounts, WriteFails(s)
    PROVE  CostsInv'
<1> USE DEF CostsInv
<1>1. /\ Counts(s) /\ CanOpen(s) /\ EndsTurn(s) /\ torn' = torn
      /\ unbooked' = unbooked \cup {Len(billedTo')}
  BY DEF WriteFails
<1>2. PICK id, e : id = Len(billedTo') /\ e = Append(Opened(s).entries, id)
  OBVIOUS
<1>3. /\ filed' \in [Accounts -> Seq(Nat)] /\ inTurn' \subseteq Accounts
      /\ filed'[s] = spent'[s]
      /\ \A t \in Accounts : t # s => filed'[t] = filed[t]
  BY <1>1, NewAnswer, EndsTurnKeeps
<1>4. e \in Seq(Nat) /\ Complete(s, e)'
  <2>1. PICK f : f = Opened(s).entries
    OBVIOUS
  <2>2. f \in Seq(Nat) /\ Complete(s, f)
    BY <1>1, <2>1, OpenedIsComplete
  <2> QED
    BY <1>1, <1>2, <1>3, <2>1, <2>2, JoinsBook
<1>5. /\ books' = [books EXCEPT ![s] = Book(e)]
      /\ costFiles' = costFiles \/ costFiles' = [costFiles EXCEPT ![s] = TornFile]
  BY <1>2 DEF WriteFails, Added, Book, CostsType
<1>6. /\ Book(e) \in [loaded : BOOLEAN, entries : Seq(Nat)] /\ Book(e).entries = e
      /\ Book(e).loaded
      /\ TornFile \in [whole : BOOLEAN, entries : Seq(Nat)] /\ ~TornFile.whole
  BY <1>4 DEF Book, TornFile
<1>7. CostsType'
  BY <1>1, <1>3, <1>5, <1>6, NewAnswer DEF CostsType
<1>8. /\ books'[s] = Book(e)
      /\ costFiles'[s] = costFiles[s] \/ costFiles'[s] = TornFile
      /\ \A t \in Accounts : t # s => books'[t] = books[t] /\ costFiles'[t] = costFiles[t]
  BY <1>5 DEF CostsType
<1>9. Accounted(s)'
  <2>1. ToBook(s)' \subseteq ToBook(s)
    BY <1>1, <1>3, NewAnswer DEF ToBook
  <2>2. Complete(s, books[s].entries)'
    BY <1>4, <1>6, <1>8 DEF Complete, Rising
  <2>3. ASSUME costFiles'[s].whole
        PROVE  Complete(s, costFiles[s].entries)'
    <3>1. PICK f : f = costFiles[s].entries
      OBVIOUS
    <3>2. costFiles'[s] = costFiles[s] /\ costFiles[s].whole
      BY <1>6, <1>8, <2>3
    <3>3. Complete(s, f)
      BY <3>1, <3>2 DEF Accounted
    <3>4. Complete(s, f)'
      BY <1>1, <2>1, <3>3, NewAnswer, StaysComplete
    <3> QED
      BY <3>1, <3>2, <3>4 DEF Complete, Rising
  <2> QED
    BY <1>6, <1>8, <2>2, <2>3 DEF Accounted
<1>10. ASSUME NEW t \in Accounts, t # s
       PROVE  Accounted(t)'
  BY <1>1, <1>3, <1>8, <1>10, NewAnswer, OthersStand
<1> QED
  BY <1>7, <1>9, <1>10

LEMMA CannotOpenKeeps ==
    ASSUME CostsInv, NEW s \in Accounts, CannotOpen(s)
    PROVE  CostsInv'
<1> USE DEF CostsInv
<1>1. /\ Counts(s) /\ EndsTurn(s) /\ torn' = torn /\ books' = books /\ costFiles' = costFiles
      /\ unbooked' = unbooked \cup {Len(billedTo')}
  BY DEF CannotOpen
<1>2. /\ filed' \in [Accounts -> Seq(Nat)] /\ inTurn' \subseteq Accounts
      /\ filed'[s] = spent'[s]
      /\ \A t \in Accounts : t # s => filed'[t] = filed[t]
  BY <1>1, NewAnswer, EndsTurnKeeps
<1>3. CostsType'
  BY <1>1, <1>2, NewAnswer DEF CostsType
<1>4. Accounted(s)'
  <2>1. ToBook(s)' \subseteq ToBook(s)
    BY <1>1, <1>2, NewAnswer DEF ToBook
  <2>2. books[s].loaded \/ costFiles[s].whole \/ s \in torn
    BY DEF Accounted
  <2> QED
    BY <1>1, <2>1, <2>2, NewAnswer, Stands
<1>5. ASSUME NEW t \in Accounts, t # s
      PROVE  Accounted(t)'
  BY <1>1, <1>2, <1>5, NewAnswer, OthersStand
<1> QED
  BY <1>3, <1>4, <1>5

\* Steps without an answer: the totals and what the conversation's file has of them come closer.
LEMMA QuietStepKeeps ==
    ASSUME CostsInv, CostsType', billedTo' = billedTo, unbooked' = unbooked,
           torn \subseteq torn',
           \A t \in Accounts :
             /\ spent'[t] \in {spent[t], filed[t]} /\ filed'[t] \in {spent[t], filed[t]}
             /\ books'[t].loaded => books'[t] = books[t] \/ (CanOpen(t) /\ books'[t] = Opened(t))
             /\ costFiles'[t].whole => costFiles'[t] = costFiles[t]
             /\ books'[t].loaded \/ costFiles'[t].whole \/ t \in torn'
    PROVE  CostsInv'
<1>1. ASSUME NEW t \in Accounts
      PROVE  Accounted(t)'
  <2>1. ToBook(t)' \subseteq ToBook(t)
    BY DEF ToBook
  <2>2. AnswersOf(t)' = AnswersOf(t)
    BY DEF AnswersOf
  <2> QED
    BY <2>1, <2>2, Stands
<1> QED
  BY <1>1 DEF CostsInv

LEMMA TurnsAndSavesKeep ==
    ASSUME CostsInv, NEW s \in Accounts, TurnStarts(s) \/ TurnFinishes(s) \/ ConfigSaved(s)
    PROVE  CostsInv'
<1>1. /\ billedTo' = billedTo /\ unbooked' = unbooked /\ torn' = torn /\ spent' = spent
      /\ books' = books /\ costFiles' = costFiles /\ inTurn' \subseteq Accounts
      /\ filed' = filed \/ filed' = [filed EXCEPT ![s] = spent[s]]
  BY DEF TurnStarts, TurnFinishes, ConfigSaved, EndsTurn, CostsInv, CostsType
<1>2. filed' \in [Accounts -> Seq(Nat)] /\ \A t \in Accounts : filed'[t] \in {spent[t], filed[t]}
  BY <1>1 DEF CostsInv, CostsType
<1>3. CostsType'
  BY <1>1, <1>2 DEF CostsInv, CostsType
<1> QED
  BY <1>1, <1>2, <1>3, QuietStepKeeps DEF CostsInv, Accounted

LEMMA AskingKeeps ==
    ASSUME CostsInv, AskHistory \/ \E s \in Accounts : AskSession(s)
    PROVE  CostsInv'
<1>1. /\ billedTo' = billedTo /\ unbooked' = unbooked /\ torn' = torn /\ spent' = spent
      /\ filed' = filed /\ costFiles' = costFiles /\ inTurn' = inTurn
  BY DEF AskHistory, AskSession
<1>2. \A t \in Accounts : CanOpen(t) => Opened(t) \in [loaded : BOOLEAN, entries : Seq(Nat)]
                                          /\ Opened(t).loaded
  BY OpenedIsComplete
<1>3. /\ books' \in [Accounts -> [loaded : BOOLEAN, entries : Seq(Nat)]]
      /\ \A t \in Accounts : books'[t] = books[t] \/ (CanOpen(t) /\ books'[t] = Opened(t))
  <2>1. CASE AskHistory
    BY <1>2, <2>1 DEF AskHistory, AllOpened, CostsInv, CostsType
  <2>2. ASSUME NEW s \in Accounts, AskSession(s)
        PROVE  /\ books' \in [Accounts -> [loaded : BOOLEAN, entries : Seq(Nat)]]
               /\ \A t \in Accounts : books'[t] = books[t] \/ (CanOpen(t) /\ books'[t] = Opened(t))
    BY <1>2, <2>2 DEF AskSession, CostsInv, CostsType
  <2> QED
    BY <2>1, <2>2
<1>4. CostsType'
  BY <1>1, <1>3 DEF CostsInv, CostsType
<1>5. \A t \in Accounts : books'[t].loaded \/ costFiles'[t].whole \/ t \in torn'
  BY <1>1, <1>2, <1>3 DEF CostsInv, Accounted
<1> QED
  BY <1>1, <1>3, <1>4, <1>5, QuietStepKeeps

LEMMA CostsCrashKeeps ==
    ASSUME CostsInv, CostsCrash
    PROVE  CostsInv'
<1>1. /\ billedTo' = billedTo /\ unbooked' = unbooked /\ torn \subseteq torn' /\ spent' = filed
      /\ filed' = filed /\ inTurn' = {}
      /\ books' = [s \in Accounts |-> NoBook]
      /\ \A s \in Accounts : ~costFiles'[s].whole => s \in torn'
  BY DEF CostsCrash
<1>2. /\ TornFile \in [whole : BOOLEAN, entries : Seq(Nat)] /\ ~TornFile.whole
      /\ NoBook \in [loaded : BOOLEAN, entries : Seq(Nat)] /\ ~NoBook.loaded
  BY DEF TornFile, NoBook
<1>3. /\ costFiles' \in [Accounts -> [whole : BOOLEAN, entries : Seq(Nat)]]
      /\ \A t \in Accounts : costFiles'[t].whole => costFiles'[t] = costFiles[t]
  <2>1. \/ costFiles' = costFiles
        \/ \E s \in Accounts : costFiles' = [costFiles EXCEPT ![s] = TornFile]
    BY DEF CostsCrash, CostsInv, CostsType
  <2> QED
    BY <1>2, <2>1 DEF CostsInv, CostsType
<1>4. CostsType'
  BY <1>1, <1>2, <1>3 DEF CostsInv, CostsType
<1> QED
  BY <1>1, <1>2, <1>3, <1>4, QuietStepKeeps

\* Whatever the number of sessions, answers, failing writes and restarts: a book has answers of
\* its own session, in order and each once, and all that the totals count, but for those whose
\* recording raised and for sessions whose file a crash found torn (conversation.py:429-443).
THEOREM AnswersAreBooked == CostsSpec => []UsageIsBooked
<1>1. CostsInit => CostsInv
  BY DEF CostsInit, CostsInv, CostsType, Accounted, Complete, Rising, ToBook, Range, NoBook, CostFile
<1>2. CostsInv /\ [CostsNext]_costVars => CostsInv'
  <2> SUFFICES ASSUME CostsInv, [CostsNext]_costVars
               PROVE  CostsInv'
    OBVIOUS
  <2>1. CASE CostsNext
    BY <2>1, TurnsAndSavesKeep, IsBookedKeeps, WriteFailsKeeps, CannotOpenKeeps, AskingKeeps,
       CostsCrashKeeps DEF CostsNext
  <2>2. CASE UNCHANGED costVars
    BY <2>2 DEF costVars, CostsInv, CostsType, Accounted, Complete, Rising, AnswersOf, ToBook
  <2> QED
    BY <2>1, <2>2
<1>3. CostsInv => UsageIsBooked
  <2> SUFFICES ASSUME CostsInv, NEW s \in Accounts
               PROVE  LET entries == IF CanOpen(s) THEN Opened(s).entries ELSE <<>>
                      IN  /\ \A i, j \in DOMAIN entries : i < j => entries[i] < entries[j]
                          /\ \A id \in Range(entries) : billedTo[id] = s
                          /\ s \notin torn =>
                                (Range(spent[s]) \cup Range(filed[s])) \ unbooked \subseteq Range(entries)
    BY DEF UsageIsBooked
  <2>1. CASE CanOpen(s)
    BY <2>1, OpenedIsComplete DEF Complete, Rising, AnswersOf, ToBook
  <2>2. CASE ~CanOpen(s)
    BY <2>2 DEF CostsInv, Accounted, CanOpen, Range
  <2> QED
    BY <2>1, <2>2
<1> QED
  BY <1>1, <1>2, <1>3, PTL DEF CostsSpec

-----------------------------------------------------------------------------
(* Coordinator. *)

TraceStates == {"none", "begun", "verified", "reconstructed"}

BoardType ==
    /\ traces \in Seq(TraceStates)
    /\ boardRun = [r \in Runners |-> [on |-> boardRun[r].on, left |-> boardRun[r].left,
                                      previous |-> boardRun[r].previous]]

BoardInv == BoardType /\ RunsAccountForBoard

LEMMA TracesEnsured ==
    ASSUME NEW b, NEW ts \in Seq(TraceStates)
    PROVE  /\ EnsureTraces(b, ts) \in Seq(TraceStates) /\ Len(EnsureTraces(b, ts)) = Len(ts)
           /\ \A i \in 1..Len(ts) : EnsureTraces(b, ts)[i] = "begun" => ts[i] = "begun"
<1> DEFINE e == EnsureTraces(b, ts)
<1>1. Len(ts) \in Nat /\ \A i \in 1..Len(ts) : ts[i] \in TraceStates
  OBVIOUS
<1>2. e = [i \in 1..Len(ts) |-> e[i]] /\ \A i \in 1..Len(ts) : e[i] \in {"reconstructed", ts[i]}
  BY DEF EnsureTraces
<1> HIDE DEF e
<1>3. \A i \in 1..Len(ts) : e[i] \in TraceStates
  BY <1>1, <1>2 DEF TraceStates
<1>4. e \in Seq(TraceStates) /\ Len(e) = Len(ts)
  BY <1>1, <1>2, <1>3
<1> QED
  BY <1>2, <1>4 DEF e

\* A task marked where a run is.
LEMMA TraceMarked ==
    ASSUME NEW ts \in Seq(TraceStates), NEW i, NEW v \in TraceStates
    PROVE  /\ [ts EXCEPT ![i] = v] \in Seq(TraceStates) /\ Len([ts EXCEPT ![i] = v]) = Len(ts)
           /\ \A j \in 1..Len(ts) : [ts EXCEPT ![i] = v][j] = IF j = i THEN v ELSE ts[j]
<1> DEFINE e == [ts EXCEPT ![i] = v]
<1>1. e = [j \in 1..Len(ts) |-> IF j = i THEN v ELSE ts[j]] /\ Len(ts) \in Nat
  OBVIOUS
<1>2. \A j \in 1..Len(ts) : e[j] \in TraceStates
  BY <1>1
<1> HIDE DEF e
<1>3. e \in Seq(TraceStates) /\ Len(e) = Len(ts)
  <2>1. e = [j \in 1..Len(ts) |-> e[j]]
    BY <1>1
  <2> QED
    BY <1>1, <1>2, <2>1
<1>4. \A j \in 1..Len(ts) : e[j] = IF j = i THEN v ELSE ts[j]
  BY <1>1
<1> QED
  BY <1>3, <1>4 DEF e

\* Steps that leave the runs alone, begin nothing and do not say that one orchestrates.
LEMMA RequestsKeepBoard ==
    ASSUME BoardInv, boardRun' = boardRun, mode' \in {mode, "idle", "team_mode"},
           traces' \in Seq(TraceStates),
           \A i \in 1..Len(traces') : traces'[i] = "begun" => i \in 1..Len(traces) /\ traces[i] = "begun"
    PROVE  BoardInv'
BY DEF BoardInv, BoardType, RunsAccountForBoard

LEMMA AddTaskKeeps ==
    ASSUME BoardInv, AddTask
    PROVE  BoardInv'
<1>1. traces \in Seq(TraceStates) /\ "none" \in TraceStates
  BY DEF BoardInv, BoardType, TraceStates
<1>2. traces' = Append(traces, "none") /\ boardRun' = boardRun /\ mode' = mode
  BY DEF AddTask
<1>3. /\ traces' \in Seq(TraceStates) /\ Len(traces') = Len(traces) + 1 /\ Len(traces) \in Nat
      /\ \A i \in 1..Len(traces) : traces'[i] = traces[i]
      /\ traces'[Len(traces) + 1] = "none"
  BY <1>1, <1>2, AppendProperties
<1>4. ASSUME NEW i \in 1..Len(traces'), traces'[i] = "begun"
      PROVE  i \in 1..Len(traces) /\ traces[i] = "begun"
  BY <1>3, <1>4
<1> QED
  BY <1>2, <1>3, <1>4, RequestsKeepBoard

LEMMA RunBeginsKeeps ==
    ASSUME BoardInv, NEW r \in Runners, RunPendingTasks(r)
    PROVE  BoardInv'
<1>1. CASE PendingTasks = <<>>
  BY <1>1, TracesEnsured, RequestsKeepBoard DEF RunPendingTasks, BoardInv, BoardType
<1>2. CASE PendingTasks # <<>>
  <2> DEFINE i == Head(PendingTasks)
  <2>1. /\ boardRun' = [boardRun EXCEPT ![r] = [on |-> TRUE, left |-> PendingTasks, previous |-> mode]]
        /\ mode' = "orchestrating" /\ traces' = [traces EXCEPT ![i] = "begun"]
        /\ ~boardRun[r].on
    BY <1>2 DEF RunPendingTasks, Begun
  <2>2. /\ traces' \in Seq(TraceStates) /\ Len(traces') = Len(traces)
        /\ \A j \in 1..Len(traces) : traces'[j] = IF j = i THEN "begun" ELSE traces[j]
    <3>1. traces \in Seq(TraceStates) /\ "begun" \in TraceStates
      BY DEF BoardInv, BoardType, TraceStates
    <3> QED
      BY <2>1, <3>1, TraceMarked
  <2>3. /\ boardRun'[r].on /\ Head(boardRun'[r].left) = i
        /\ \A q \in Runners : q # r => boardRun'[q] = boardRun[q]
    BY <2>1 DEF BoardInv, BoardType
  <2>4. BoardType'
    BY <2>1, <2>2 DEF BoardInv, BoardType
  <2>5. ASSUME NEW j \in 1..Len(traces'), traces'[j] = "begun"
        PROVE  \E q \in Runners : boardRun'[q].on /\ Head(boardRun'[q].left) = j
    <3>1. CASE j = i
      BY <2>3, <3>1
    <3>2. CASE j # i
      BY <2>1, <2>2, <2>3, <2>5, <3>2 DEF BoardInv, RunsAccountForBoard
    <3> QED
      BY <3>1, <3>2
  <2> QED
    BY <2>3, <2>4, <2>5 DEF BoardInv, RunsAccountForBoard
<1> QED
  BY <1>1, <1>2

\* A run that goes on to the next task has verified the one it was at, and no other run's.
LEMMA RunGoesOnKeeps ==
    ASSUME BoardInv, NEW r \in Runners, RunNext(r)
    PROVE  BoardInv'
<1> DEFINE i == Head(boardRun[r].left)
           rest == Tail(boardRun[r].left)
           verified == [traces EXCEPT ![i] = "verified"]
<1>1. /\ boardRun[r].on /\ traces \in Seq(TraceStates)
      /\ "begun" \in TraceStates /\ "verified" \in TraceStates
  BY DEF RunNext, BoardInv, BoardType, TraceStates
<1>2. /\ verified \in Seq(TraceStates) /\ Len(verified) = Len(traces)
      /\ \A j \in 1..Len(traces) : verified[j] = IF j = i THEN "verified" ELSE traces[j]
  BY <1>1, TraceMarked, ZenonT(30)
<1>3. ASSUME NEW j \in 1..Len(traces), verified[j] = "begun"
      PROVE  \E q \in Runners : q # r /\ boardRun[q].on /\ Head(boardRun[q].left) = j
  <2>1. j # i /\ traces[j] = "begun"
    BY <1>2, <1>3
  <2> QED
    BY <2>1 DEF BoardInv, RunsAccountForBoard
<1> HIDE DEF verified
<1>4. CASE rest # <<>>
  <2> DEFINE k == Head(rest)
  <2>1. /\ boardRun' = [boardRun EXCEPT ![r].left = rest] /\ mode' = mode
        /\ traces' = [verified EXCEPT ![k] = "begun"]
    BY <1>4 DEF RunNext, verified
  <2>2. /\ traces' \in Seq(TraceStates) /\ Len(traces') = Len(traces)
        /\ \A j \in 1..Len(traces) : traces'[j] = IF j = k THEN "begun" ELSE verified[j]
    <3> HIDE DEF k
    <3> QED
      BY <1>1, <1>2, <2>1, TraceMarked
  <2> HIDE DEF rest
  <2>3. /\ boardRun'[r] = [on |-> TRUE, left |-> rest, previous |-> boardRun[r].previous]
        /\ \A q \in Runners : q # r => boardRun'[q] = boardRun[q]
        /\ DOMAIN boardRun' = Runners /\ boardRun' = [q \in Runners |-> boardRun'[q]]
    <3>1. [boardRun[r] EXCEPT !.left = rest]
             = [on |-> TRUE, left |-> rest, previous |-> boardRun[r].previous]
      <4>1. PICK o, l, p : boardRun[r] = [on |-> o, left |-> l, previous |-> p]
        BY DEF BoardInv, BoardType
      <4>2. [[on |-> o, left |-> l, previous |-> p] EXCEPT !.left = rest]
               = [on |-> o, left |-> rest, previous |-> p]
        OBVIOUS
      <4>3. o = TRUE /\ p = boardRun[r].previous
        BY <1>1, <4>1
      <4> QED
        BY <4>1, <4>2, <4>3
    <3>2. boardRun' = [boardRun EXCEPT ![r] = [boardRun[r] EXCEPT !.left = rest]]
      BY <2>1
    <3>3. DOMAIN boardRun = Runners
      BY DEF BoardInv, BoardType
    <3> QED
      BY <3>1, <3>2, <3>3
  <2>4. BoardType'
    BY <2>2, <2>3 DEF BoardInv, BoardType
  <2>5. ASSUME NEW j \in 1..Len(traces'), traces'[j] = "begun"
        PROVE  \E q \in Runners : boardRun'[q].on /\ Head(boardRun'[q].left) = j
    <3>1. CASE j = k
      BY <2>3, <3>1
    <3>2. CASE j # k
      BY <1>3, <2>2, <2>3, <2>5, <3>2
    <3> QED
      BY <3>1, <3>2
  <2> QED
    BY <2>3, <2>4, <2>5 DEF BoardInv, RunsAccountForBoard
<1>5. CASE rest = <<>>
  <2>1. PICK b : /\ boardRun' = [boardRun EXCEPT ![r] = NoRun] /\ mode' \in {"team_mode", "idle"}
                 /\ traces' = EnsureTraces(b, verified)
    BY <1>5 DEF RunNext, verified
  <2>2. /\ traces' \in Seq(TraceStates) /\ Len(traces') = Len(traces)
        /\ \A j \in 1..Len(traces) : traces'[j] = "begun" => verified[j] = "begun"
    BY <1>2, <2>1, TracesEnsured
  <2>3. /\ \A q \in Runners : q # r => boardRun'[q] = boardRun[q]
        /\ BoardType'
    BY <2>1, <2>2 DEF BoardInv, BoardType, NoRun
  <2>4. ASSUME NEW j \in 1..Len(traces'), traces'[j] = "begun"
        PROVE  \E q \in Runners : boardRun'[q].on /\ Head(boardRun'[q].left) = j
    BY <1>3, <2>2, <2>3, <2>4
  <2> QED
    BY <2>1, <2>3, <2>4 DEF BoardInv, RunsAccountForBoard
<1> QED
  BY <1>4, <1>5

\* Whatever the number of runs, tasks and requests, and however they overlap: the board says
\* "orchestrating" only while a run is under way, and a trace without its verification belongs to
\* a task some run is at (coordinator_runner.py:37-63).
THEOREM RunsAreAccountedFor == CoordinatorSpec => []RunsAccountForBoard
<1>1. CoordinatorInit => BoardInv
  BY DEF CoordinatorInit, BoardInv, BoardType, RunsAccountForBoard, NoRun
<1>2. BoardInv /\ [CoordinatorNext]_coordinatorVars => BoardInv'
  <2> SUFFICES ASSUME BoardInv, [CoordinatorNext]_coordinatorVars
               PROVE  BoardInv'
    OBVIOUS
  <2>1. traces \in Seq(TraceStates)
    BY DEF BoardInv, BoardType
  <2>2. CASE AssignTask \/ CompleteTask \/ StartTeam \/ ShutdownTeam \/ DeleteCoordinator
             \/ RebalanceWorkers
    <3>1. boardRun' = boardRun /\ traces' = traces /\ mode' \in {mode, "idle", "team_mode"}
      BY <2>2 DEF AssignTask, CompleteTask, StartTeam, ShutdownTeam, DeleteCoordinator,
                  RebalanceWorkers
    <3> QED
      BY <2>1, <3>1, RequestsKeepBoard
  <2>3. CASE ReadBoard
    BY <2>1, <2>3, TracesEnsured, RequestsKeepBoard DEF ReadBoard
  <2>4. CASE UNCHANGED coordinatorVars
    BY <2>4 DEF coordinatorVars, BoardInv, BoardType, RunsAccountForBoard
  <2> QED
    BY <2>2, <2>3, <2>4, AddTaskKeeps, RunBeginsKeeps, RunGoesOnKeeps DEF CoordinatorNext
<1>3. BoardInv => RunsAccountForBoard
  BY DEF BoardInv
<1> QED
  BY <1>1, <1>2, <1>3, PTL DEF CoordinatorSpec

-----------------------------------------------------------------------------
(* Routing. *)

KeyValues == Keys \cup {"", "env"}
ChatSettings == [model : Models, selected : Selections \cup {""}, own : [Keyed -> KeyValues],
                 kept : [Keyed -> KeyValues], url : [Local -> KeyValues]]
GlobalSettings == [selected : Selections \cup {""}, key : [Keyed -> KeyValues],
                   url : [Local -> KeyValues]]

IsTurn(x) == \E c, ks, to, k : x = [checked |-> c, keys |-> ks, to |-> to, key |-> k]
TurnsShape(f) ==
    /\ DOMAIN f = Chats /\ f = [s \in Chats |-> f[s]]
    /\ \A s \in Chats : IsTurn(f[s])

RoutingType ==
    /\ cfg \in [Chats -> ChatSettings] /\ saved \in [Chats -> ChatSettings]
    /\ glob \in GlobalSettings /\ globFile \in GlobalSettings
    /\ env \in [Keyed -> KeyValues]
    /\ TurnsShape(turn)

\* What a request may carry is a key the turn could have been given: the copy, or, when it was
\* removed with the session's own key, what get_session_api_key gives without them.
CopyIsCurrent(s) ==
    turn[s].checked \in Keyed =>
        LET p == turn[s].checked IN
        /\ SessionKey(cfg[s], glob, p) \in turn[s].keys
        /\ cfg[s].kept[p] # "" => cfg[s].kept[p] \in turn[s].keys
        /\ cfg[s].kept[p] = "" => cfg[s].own[p] = ""

RequestIsCurrent(s) ==
    turn[s].to \in {turn[s].checked} \cap {"opencode", "openrouter"} => turn[s].key \in turn[s].keys

RoutingInv == RoutingType /\ \A s \in Chats : CopyIsCurrent(s) /\ RequestIsCurrent(s)

\* power_levels.py:137, for every provider, model and level.
LEMMA BudgetFits ==
    ASSUME NEW p, NEW model, NEW level
    PROVE  PowerProfile(p, model, level, 16).budget < PowerProfile(p, model, level, 16).tokens
<1>1. CASE p = "anthropic" \/ model = "claude"
  <2>1. PICK budget \in Nat : budget = ThinkingBudget(level)
    BY DEF ThinkingBudget
  <2>2. LeastOf(budget, 16 - 1) < 16
    BY DEF LeastOf
  <2> QED
    BY <1>1, <2>1, <2>2 DEF PowerProfile
<1>2. CASE ~(p = "anthropic" \/ model = "claude")
  <2>1. PICK most \in {4, 8, 16} : most = GenericMaxTokens(level)
    BY DEF GenericMaxTokens
  <2>2. 0 < LeastOf(16, most)
    BY DEF LeastOf
  <2> QED
    BY <1>2, <2>1, <2>2 DEF PowerProfile
<1> QED
  BY <1>1, <1>2

\* One setting of a chat replaced.
LEMMA UrlSet ==
    ASSUME NEW c \in ChatSettings, NEW p \in Local, NEW u \in KeyValues
    PROVE  /\ WithUrl(c, p, u) \in ChatSettings
           /\ WithUrl(c, p, u).own = c.own /\ WithUrl(c, p, u).kept = c.kept
BY DEF WithUrl, ChatSettings

LEMMA SelectionSet ==
    ASSUME NEW c \in [Chats -> ChatSettings], NEW s \in Chats, NEW p \in Selections
    PROVE  LET d == [c EXCEPT ![s].selected = p] IN
           /\ d \in [Chats -> ChatSettings]
           /\ \A t \in Chats : d[t].own = c[t].own /\ d[t].kept = c[t].kept
BY DEF ChatSettings

LEMMA ModelSet ==
    ASSUME NEW c \in [Chats -> ChatSettings], NEW s \in Chats, NEW m \in Models
    PROVE  LET d == [c EXCEPT ![s].model = m] IN
           /\ d \in [Chats -> ChatSettings]
           /\ \A t \in Chats : d[t].own = c[t].own /\ d[t].kept = c[t].kept
BY DEF ChatSettings

LEMMA CopySet ==
    ASSUME NEW c \in ChatSettings, NEW p, NEW k, p \in Keyed => k \in KeyValues
    PROVE  /\ WithCopy(c, p, k) \in ChatSettings
           /\ WithCopy(c, p, k).own = c.own
           /\ p \in Keyed => WithCopy(c, p, k).kept[p] = k
BY DEF WithCopy, ChatSettings

LEMMA GlobalsReplaced ==
    ASSUME NEW g \in GlobalSettings
    PROVE  /\ \A p \in Keyed, k \in KeyValues : [g EXCEPT !.key[p] = k] \in GlobalSettings
           /\ \A p \in Local, u \in KeyValues : [g EXCEPT !.url[p] = u] \in GlobalSettings
           /\ \A p \in Selections : [g EXCEPT !.selected = p] \in GlobalSettings
BY DEF GlobalSettings

LEMMA GlobalSaved ==
    ASSUME RoutingType, NEW g \in GlobalSettings, SaveGlobal(g)
    PROVE  glob' \in GlobalSettings /\ globFile' \in GlobalSettings
<1>1. NoSettings \in GlobalSettings
  BY DEF NoSettings, NoKeys, NoUrls, GlobalSettings, KeyValues
<1> QED
  BY <1>1 DEF SaveGlobal, RoutingType

LEMMA KeysGrow ==
    ASSUME NEW x, IsTurn(x), NEW new
    PROVE  LET y == [x EXCEPT !.keys = new] IN
           /\ IsTurn(y)
           /\ y.checked = x.checked /\ y.to = x.to /\ y.key = x.key /\ y.keys = new
<1>1. PICK c, ks, to, k : x = [checked |-> c, keys |-> ks, to |-> to, key |-> k]
  BY DEF IsTurn
<1>2. [[checked |-> c, keys |-> ks, to |-> to, key |-> k] EXCEPT !.keys = new]
         = [checked |-> c, keys |-> new, to |-> to, key |-> k]
  OBVIOUS
<1>3. PICK y : y = [x EXCEPT !.keys = new]
  OBVIOUS
<1>4. y = [checked |-> c, keys |-> new, to |-> to, key |-> k]
  BY <1>1, <1>2, <1>3
<1>5. IsTurn(y)
  BY <1>4 DEF IsTurn
<1>6. y.checked = x.checked /\ y.to = x.to /\ y.key = x.key /\ y.keys = new
  BY <1>1, <1>4
<1> QED
  BY <1>3, <1>5, <1>6

\* Each turn's keys have what there would be for it now.
LEMMA TurnsRenewed ==
    ASSUME TurnsShape(turn), NEW c, NEW g, NEW f, f = Renewed(c, g)
    PROVE  /\ TurnsShape(f)
           /\ \A s \in Chats :
                /\ f[s].checked = turn[s].checked /\ f[s].to = turn[s].to
                /\ f[s].key = turn[s].key
                /\ turn[s].checked \in Keyed =>
                     f[s].keys = turn[s].keys \cup {SessionKey(c[s], g, turn[s].checked)}
                /\ turn[s].checked \notin Keyed => f[s].keys = turn[s].keys
<1>1. ASSUME NEW s \in Chats
      PROVE  /\ IsTurn(f[s])
             /\ f[s].checked = turn[s].checked /\ f[s].to = turn[s].to
             /\ f[s].key = turn[s].key
             /\ turn[s].checked \in Keyed =>
                     f[s].keys = turn[s].keys \cup {SessionKey(c[s], g, turn[s].checked)}
             /\ turn[s].checked \notin Keyed => f[s].keys = turn[s].keys
  <2>1. IsTurn(turn[s])
    BY DEF TurnsShape
  <2>2. CASE turn[s].checked \in Keyed
    <3>1. f[s] = [turn[s] EXCEPT !.keys = turn[s].keys \cup {SessionKey(c[s], g, turn[s].checked)}]
      BY <2>2 DEF Renewed
    <3> QED
      BY <2>1, <2>2, <3>1, KeysGrow
  <2>3. CASE turn[s].checked \notin Keyed
    BY <2>1, <2>3 DEF Renewed
  <2> QED
    BY <2>2, <2>3
<1>2. f = [s \in Chats |-> f[s]] /\ DOMAIN f = Chats
  BY DEF Renewed
<1> QED
  BY <1>1, <1>2 DEF TurnsShape

LEMMA ChangeKeeps ==
    ASSUME RoutingInv, NEW s \in Chats \cup {"none"}, Change(s)
    PROVE  RoutingInv'
<1> DEFINE OwnOrCopy == \A t \in Chats : \A q \in Keyed :
               \/ cfg'[t].own[q] = cfg[t].own[q] /\ cfg'[t].kept[q] = cfg[t].kept[q]
               \/ cfg'[t].own[q] = cfg'[t].kept[q]
           WellSet == /\ cfg' \in [Chats -> ChatSettings]
                      /\ glob' \in GlobalSettings /\ globFile' \in GlobalSettings
                      /\ OwnOrCopy
<1>1. /\ cfg \in [Chats -> ChatSettings] /\ glob \in GlobalSettings /\ TurnsShape(turn)
      /\ saved \in [Chats -> ChatSettings] /\ RoutingType
  BY DEF RoutingInv, RoutingType
<1>2. ASSUME \E p \in Keyed, k \in Keys \cup {""} :
             /\ cfg' = IF s = "none" THEN cfg
                       ELSE [cfg EXCEPT ![s] = WithKey(@, p, k)]
             /\ SaveGlobal([glob EXCEPT !.key[p] = k])
      PROVE  WellSet
  <2>1. PICK p \in Keyed, k \in KeyValues :
             /\ cfg' = IF s = "none" THEN cfg
                       ELSE [cfg EXCEPT ![s] = WithKey(@, p, k)]
             /\ SaveGlobal([glob EXCEPT !.key[p] = k])
    BY <1>2 DEF KeyValues
  <2>2. glob' \in GlobalSettings /\ globFile' \in GlobalSettings
    BY <1>1, <2>1, GlobalsReplaced, GlobalSaved
  <2>3. CASE cfg' = cfg
    BY <1>1, <2>2, <2>3
  <2>4. CASE s \in Chats /\ cfg' = [cfg EXCEPT ![s] = WithKey(@, p, k)]
    <3>1. /\ cfg' \in [Chats -> ChatSettings]
          /\ cfg'[s].own = [cfg[s].own EXCEPT ![p] = k]
          /\ cfg'[s].kept = [cfg[s].kept EXCEPT ![p] = k]
          /\ \A t \in Chats : t # s => cfg'[t] = cfg[t]
      <4>1. cfg[s] \in ChatSettings
        BY <1>1, <2>4
      <4>2. /\ WithKey(cfg[s], p, k) \in ChatSettings
            /\ WithKey(cfg[s], p, k).own = [cfg[s].own EXCEPT ![p] = k]
            /\ WithKey(cfg[s], p, k).kept = [cfg[s].kept EXCEPT ![p] = k]
        BY <4>1 DEF WithKey, ChatSettings
      <4> QED
        BY <1>1, <2>4, <4>2
    <3>2. cfg[s].own \in [Keyed -> KeyValues] /\ cfg[s].kept \in [Keyed -> KeyValues]
      BY <1>1, <2>4 DEF ChatSettings
    <3>3. OwnOrCopy
      BY <3>1, <3>2
    <3> QED
      BY <2>2, <3>1, <3>3
  <2> QED
    BY <2>1, <2>3, <2>4
<1>3. ASSUME \E p \in Local, u \in Keys :
             /\ cfg' = IF s = "none" THEN cfg ELSE [cfg EXCEPT ![s] = WithUrl(@, p, u)]
             /\ SaveGlobal([glob EXCEPT !.url[p] = u])
      PROVE  WellSet
  <2>1. PICK p \in Local, u \in KeyValues :
             /\ cfg' = IF s = "none" THEN cfg ELSE [cfg EXCEPT ![s] = WithUrl(@, p, u)]
             /\ SaveGlobal([glob EXCEPT !.url[p] = u])
    BY <1>3 DEF KeyValues
  <2>2. glob' \in GlobalSettings /\ globFile' \in GlobalSettings
    BY <1>1, <2>1, GlobalsReplaced, GlobalSaved
  <2>3. CASE cfg' = cfg
    BY <1>1, <2>2, <2>3
  <2>4. CASE s \in Chats /\ cfg' = [cfg EXCEPT ![s] = WithUrl(@, p, u)]
    BY <1>1, <2>2, <2>4, UrlSet
  <2> QED
    BY <2>1, <2>3, <2>4
<1>4. ASSUME \E p \in Selections :
             /\ cfg' = IF s = "none" THEN cfg ELSE [cfg EXCEPT ![s].selected = p]
             /\ SaveGlobal([glob EXCEPT !.selected = p])
      PROVE  WellSet
  <2>1. PICK p \in Selections :
             /\ cfg' = IF s = "none" THEN cfg ELSE [cfg EXCEPT ![s].selected = p]
             /\ SaveGlobal([glob EXCEPT !.selected = p])
    BY <1>4
  <2>2. glob' \in GlobalSettings /\ globFile' \in GlobalSettings
    BY <1>1, <2>1, GlobalsReplaced, GlobalSaved
  <2> QED
    BY <1>1, <2>1, <2>2, SelectionSet
<1>5. ASSUME s # "none", SaveGlobal(glob),
             \E m \in Models \ {cfg[s].model} : cfg' = [cfg EXCEPT ![s].model = m]
      PROVE  WellSet
  <2>1. glob' \in GlobalSettings /\ globFile' \in GlobalSettings
    BY <1>1, <1>5, GlobalSaved
  <2> QED
    BY <1>1, <1>5, <2>1, ModelSet
<1>6. WellSet
  BY <1>2, <1>3, <1>4, <1>5 DEF Change
<1>7. /\ turn' = Renewed(cfg', glob') /\ env' = env
      /\ saved' = IF s = "none" THEN saved ELSE [saved EXCEPT ![s] = cfg'[s]]
  BY DEF Change
<1>10. env' = env
  BY <1>7
<1> HIDE DEF WellSet
<1>8. RoutingType'
  <2>1. saved' \in [Chats -> ChatSettings]
    BY <1>1, <1>6, <1>7 DEF WellSet
  <2>2. TurnsShape(turn')
    BY <1>1, <1>7, TurnsRenewed
  <2>3. env' \in [Keyed -> KeyValues]
    BY <1>1, <1>7 DEF RoutingType
  <2> QED
    BY <1>6, <2>1, <2>2, <2>3 DEF WellSet, RoutingType
<1>9. ASSUME NEW t \in Chats
      PROVE  CopyIsCurrent(t)' /\ RequestIsCurrent(t)'
  <2>1. /\ turn'[t].checked = turn[t].checked /\ turn'[t].to = turn[t].to
        /\ turn'[t].key = turn[t].key
        /\ turn[t].checked \in Keyed =>
              turn'[t].keys = turn[t].keys \cup {SessionKey(cfg'[t], glob', turn[t].checked)}
        /\ turn[t].checked \notin Keyed => turn'[t].keys = turn[t].keys
    BY <1>1, <1>7, TurnsRenewed
  <2>2. CopyIsCurrent(t) /\ RequestIsCurrent(t)
    BY DEF RoutingInv
  <2>3. RequestIsCurrent(t)'
    BY <2>1, <2>2 DEF RequestIsCurrent
  <2>4. PICK p : p = turn[t].checked
    OBVIOUS
  <2>5. CASE p \in Keyed
    <3>1. \/ cfg'[t].own[p] = cfg[t].own[p] /\ cfg'[t].kept[p] = cfg[t].kept[p]
          \/ cfg'[t].own[p] = cfg'[t].kept[p]
      BY <1>6, <2>5 DEF WellSet
    <3>2. cfg'[t].own[p] # "" => SessionKey(cfg'[t], glob', p) = cfg'[t].own[p]
      BY DEF SessionKey, Or
    <3>3. SessionKey(cfg'[t], glob', p) \in turn'[t].keys /\ turn[t].keys \subseteq turn'[t].keys
      BY <2>1, <2>4, <2>5
    <3>4. /\ cfg[t].kept[p] # "" => cfg[t].kept[p] \in turn[t].keys
          /\ cfg[t].kept[p] = "" => cfg[t].own[p] = ""
      BY <2>2, <2>4, <2>5 DEF CopyIsCurrent
    <3>5. /\ cfg'[t].kept[p] # "" => cfg'[t].kept[p] \in turn'[t].keys
          /\ cfg'[t].kept[p] = "" => cfg'[t].own[p] = ""
      BY <3>1, <3>2, <3>3, <3>4
    <3>6. SessionKey(cfg[t], glob, p)' \in turn'[t].keys
      BY <3>3, <1>10 DEF SessionKey
    <3> QED
      BY <2>1, <2>3, <2>4, <3>5, <3>6 DEF CopyIsCurrent
  <2>6. CASE p \notin Keyed
    BY <2>1, <2>3, <2>4, <2>6 DEF CopyIsCurrent
  <2> QED
    BY <2>3, <2>5, <2>6
<1> QED
  BY <1>8, <1>9 DEF RoutingInv

LEMMA CheckedFields ==
    ASSUME NEW p, NEW ks
    PROVE  /\ Checked(p, ks).checked = p /\ Checked(p, ks).keys = ks /\ Checked(p, ks).to = "none"
           /\ IsTurn(Checked(p, ks))
BY DEF Checked, IsTurn

\* A turn of another chat, or nothing that matters to any turn.
LEMMA TurnStands ==
    ASSUME RoutingInv, NEW t \in Chats, turn'[t] = turn[t], glob' = glob, env' = env,
           cfg'[t].own = cfg[t].own, cfg'[t].kept = cfg[t].kept
    PROVE  CopyIsCurrent(t)' /\ RequestIsCurrent(t)'
<1>1. CopyIsCurrent(t) /\ RequestIsCurrent(t)
  BY DEF RoutingInv
<1>2. RequestIsCurrent(t)'
  BY <1>1 DEF RequestIsCurrent
<1>3. PICK p : p = turn[t].checked
  OBVIOUS
<1>4. SessionKey(cfg[t], glob, p)' = SessionKey(cfg[t], glob, p)
  BY DEF SessionKey
<1>5. CopyIsCurrent(t)'
  BY <1>1, <1>3, <1>4 DEF CopyIsCurrent
<1> QED
  BY <1>2, <1>5

LEMMA ChangeModelKeeps ==
    ASSUME RoutingInv, NEW s \in Chats, ChangeModel(s)
    PROVE  RoutingInv'
<1>1. /\ cfg \in [Chats -> ChatSettings] /\ RoutingType
      /\ saved' = saved /\ glob' = glob /\ globFile' = globFile /\ env' = env /\ turn' = turn
  BY DEF RoutingInv, RoutingType, ChangeModel
<1>2. PICK m \in Models : cfg' = [cfg EXCEPT ![s].model = m]
  BY DEF ChangeModel
<1>3. /\ cfg' \in [Chats -> ChatSettings]
      /\ \A t \in Chats : cfg'[t].own = cfg[t].own /\ cfg'[t].kept = cfg[t].kept
  BY <1>1, <1>2, ModelSet
<1>4. RoutingType'
  BY <1>1, <1>3 DEF RoutingType
<1> QED
  BY <1>1, <1>3, <1>4, TurnStands DEF RoutingInv

\* An answer of get_session_api_key.
LEMMA KeyTypes ==
    ASSUME RoutingType, NEW s \in Chats
    PROVE  /\ \A p \in Keyed : SessionKey(cfg[s], glob, p) \in KeyValues
           /\ \A p \in Local : Or(cfg[s].url[p], SessionUrl(cfg[s], glob, p)) \in KeyValues
<1>1. /\ cfg[s].own \in [Keyed -> KeyValues] /\ cfg[s].url \in [Local -> KeyValues]
      /\ glob.key \in [Keyed -> KeyValues] /\ glob.url \in [Local -> KeyValues]
      /\ env \in [Keyed -> KeyValues]
  BY DEF RoutingType, ChatSettings, GlobalSettings
<1>2. "env" \in KeyValues
  BY DEF KeyValues
<1> QED
  BY <1>1, <1>2 DEF SessionKey, SessionUrl, Or

\* The turn begins with the key there is, and a copy of it.
LEMMA CheckKeeps ==
    ASSUME RoutingInv, NEW s \in Chats, Check(s)
    PROVE  RoutingInv'
<1>1. /\ cfg \in [Chats -> ChatSettings] /\ RoutingType /\ TurnsShape(turn)
      /\ saved' = saved /\ glob' = glob /\ globFile' = globFile /\ env' = env
  BY DEF RoutingInv, RoutingType, Check
<1>2. PICK p \in Resolved(cfg[s].model, Or(cfg[s].selected, glob.selected)) :
        LET lookup == IF p = "deepseek" THEN "openrouter" ELSE p IN
        IF p \in Local
        THEN /\ cfg' = [cfg EXCEPT ![s] = WithUrl(@, p, Or(@.url[p], SessionUrl(@, glob, p)))]
             /\ turn' = [turn EXCEPT ![s] = Checked(p, {})]
        ELSE /\ SessionKey(cfg[s], glob, lookup) # ""
             /\ cfg' = CheckedKey(s, lookup)
             /\ turn' = [turn EXCEPT ![s] = Checked(lookup, {SessionKey(cfg[s], glob, lookup)})]
  BY DEF Check
<1>3. PICK q, ks : /\ turn' = [turn EXCEPT ![s] = Checked(q, ks)]
                   /\ cfg' \in [Chats -> ChatSettings]
                   /\ cfg'[s].own = cfg[s].own
                   /\ \A t \in Chats : t # s => cfg'[t] = cfg[t]
                   /\ q \in Keyed => /\ ks = {SessionKey(cfg[s], glob, q)}
                                     /\ cfg'[s].kept[q] = SessionKey(cfg[s], glob, q)
                                     /\ SessionKey(cfg[s], glob, q) # ""
  <2>1. CASE p \in Local
    <3>1. p \notin Keyed
      BY <2>1 DEF Local, Keyed
    <3>2. PICK u \in KeyValues : u = Or(cfg[s].url[p], SessionUrl(cfg[s], glob, p))
      BY <1>1, <2>1, KeyTypes
    <3>3. cfg' = [cfg EXCEPT ![s] = WithUrl(cfg[s], p, u)] /\ turn' = [turn EXCEPT ![s] = Checked(p, {})]
      BY <1>2, <2>1, <3>2
    <3>4. cfg[s] \in ChatSettings
      BY <1>1
    <3>5. WithUrl(cfg[s], p, u) \in ChatSettings /\ WithUrl(cfg[s], p, u).own = cfg[s].own
      BY <2>1, <3>4, UrlSet
    <3> QED
      BY <1>1, <3>1, <3>3, <3>5
  <2>2. CASE p \notin Local
    <3>1. PICK lookup : /\ SessionKey(cfg[s], glob, lookup) # ""
                        /\ cfg' = CheckedKey(s, lookup)
                        /\ turn' = [turn EXCEPT ![s] = Checked(lookup, {SessionKey(cfg[s], glob, lookup)})]
      BY <1>2, <2>2
    <3>2. lookup \in Keyed => SessionKey(cfg[s], glob, lookup) \in KeyValues
      BY <1>1, KeyTypes
    <3>3. /\ cfg' \in [Chats -> ChatSettings]
          /\ cfg'[s].own = cfg[s].own
          /\ lookup \in Keyed => cfg'[s].kept[lookup] = SessionKey(cfg[s], glob, lookup)
          /\ \A t \in Chats : t # s => cfg'[t] = cfg[t]
      <4>1. PICK k : k = SessionKey(cfg[s], glob, lookup)
        OBVIOUS
      <4>2. cfg' = [cfg EXCEPT ![s] = WithCopy(cfg[s], lookup, k)]
        BY <3>1, <4>1 DEF CheckedKey
      <4>3. cfg[s] \in ChatSettings
        BY <1>1
      <4>4. /\ WithCopy(cfg[s], lookup, k) \in ChatSettings
            /\ WithCopy(cfg[s], lookup, k).own = cfg[s].own
            /\ lookup \in Keyed => WithCopy(cfg[s], lookup, k).kept[lookup] = k
        BY <3>2, <4>1, <4>3, CopySet
      <4> QED
        BY <1>1, <4>1, <4>2, <4>4
    <3> QED
      BY <3>1, <3>3
  <2> QED
    BY <2>1, <2>2
<1>4. TurnsShape(turn') /\ turn'[s] = Checked(q, ks) /\ \A t \in Chats : t # s => turn'[t] = turn[t]
  <2>1. IsTurn(Checked(q, ks))
    BY DEF Checked, IsTurn
  <2>2. DOMAIN turn = Chats /\ \A t \in Chats : IsTurn(turn[t])
    BY <1>1 DEF TurnsShape
  <2>3. DOMAIN turn' = Chats /\ turn' = [t \in Chats |-> turn'[t]]
    BY <1>3, <2>2
  <2>4. turn'[s] = Checked(q, ks) /\ \A t \in Chats : t # s => turn'[t] = turn[t]
    BY <1>3, <2>2
  <2> QED
    BY <2>1, <2>2, <2>3, <2>4 DEF TurnsShape
<1>5. RoutingType'
  BY <1>1, <1>3, <1>4 DEF RoutingType
<1>6. CopyIsCurrent(s)' /\ RequestIsCurrent(s)'
  <2>1. turn'[s].checked = q /\ turn'[s].keys = ks /\ turn'[s].to = "none"
    BY <1>4, CheckedFields
  <2>2. SessionKey(cfg[s], glob, q)' = SessionKey(cfg[s], glob, q)
    BY <1>1, <1>3 DEF SessionKey
  <2>3. CopyIsCurrent(s)'
    BY <1>3, <2>1, <2>2 DEF CopyIsCurrent
  <2> QED
    BY <2>1, <2>3 DEF RequestIsCurrent
<1>7. ASSUME NEW t \in Chats, t # s
      PROVE  CopyIsCurrent(t)' /\ RequestIsCurrent(t)'
  BY <1>1, <1>3, <1>4, <1>7, TurnStands
<1> QED
  BY <1>5, <1>6, <1>7 DEF RoutingInv

\* A request carries the copy, or what there is without it.
LEMMA StreamKeeps ==
    ASSUME RoutingInv, NEW s \in Chats, Stream(s)
    PROVE  RoutingInv'
<1>1. /\ RoutingType /\ TurnsShape(turn) /\ cfg' = cfg
      /\ saved' = saved /\ glob' = glob /\ globFile' = globFile /\ env' = env
  BY DEF RoutingInv, RoutingType, Stream
<1>2. PICK p, k : /\ k = Client(s, p)
                  /\ turn' = [turn EXCEPT ![s] = [checked |-> turn[s].checked, keys |-> turn[s].keys,
                                                  to |-> p, key |-> k]]
  BY DEF Stream
<1>3. PICK x : x = [checked |-> turn[s].checked, keys |-> turn[s].keys, to |-> p, key |-> k]
  OBVIOUS
<1>4. TurnsShape(turn') /\ turn'[s] = x /\ \A t \in Chats : t # s => turn'[t] = turn[t]
  <2>1. IsTurn(x)
    BY <1>3 DEF IsTurn
  <2>2. DOMAIN turn = Chats /\ \A t \in Chats : IsTurn(turn[t])
    BY <1>1 DEF TurnsShape
  <2>3. turn' = [turn EXCEPT ![s] = x]
    BY <1>2, <1>3
  <2>4. DOMAIN turn' = Chats /\ turn' = [t \in Chats |-> turn'[t]]
    BY <2>2, <2>3
  <2>5. turn'[s] = x /\ \A t \in Chats : t # s => turn'[t] = turn[t]
    BY <2>2, <2>3
  <2> QED
    BY <2>1, <2>2, <2>4, <2>5 DEF TurnsShape
<1>5. RoutingType'
  BY <1>1, <1>4 DEF RoutingType
<1>6. /\ turn'[s].checked = turn[s].checked /\ turn'[s].keys = turn[s].keys
      /\ turn'[s].to = p /\ turn'[s].key = k
  BY <1>3, <1>4
<1>7. CopyIsCurrent(s)'
  <2>1. PICK q : q = turn[s].checked
    OBVIOUS
  <2>2. SessionKey(cfg[s], glob, q)' = SessionKey(cfg[s], glob, q)
    BY <1>1 DEF SessionKey
  <2> QED
    BY <1>1, <1>6, <2>1, <2>2 DEF RoutingInv, CopyIsCurrent
<1>8. RequestIsCurrent(s)'
  <2>1. SUFFICES ASSUME p = turn[s].checked, p \in {"opencode", "openrouter"}
                 PROVE  k \in turn[s].keys
    BY <1>6 DEF RequestIsCurrent
  <2>2. p \in Keyed /\ p \in Fresh
    BY <2>1 DEF Keyed, Fresh
  <2>3. /\ SessionKey(cfg[s], glob, p) \in turn[s].keys
        /\ cfg[s].kept[p] # "" => cfg[s].kept[p] \in turn[s].keys
        /\ cfg[s].kept[p] = "" => cfg[s].own[p] = ""
    BY <2>1, <2>2 DEF RoutingInv, CopyIsCurrent
  <2>4. k = NewClient(s, p)
    BY <1>2, <2>2 DEF Client
  <2>5. k = IF cfg[s].kept[p] # "" THEN cfg[s].kept[p] ELSE SessionKey(cfg[s], glob, p)
    <3>1. PICK own, kept, all, general :
            /\ own = cfg[s].own[p] /\ kept = cfg[s].kept[p] /\ all = glob.key[p] /\ general = env[p]
      OBVIOUS
    <3>2. SessionKey(cfg[s], glob, p) = Or(Or(own, all), general)
      BY <3>1 DEF SessionKey
    <3>3. CASE p = "opencode"
      <4>1. NewClient(s, p) = Or(Or(cfg[s].kept[p], glob.key[p]), env[p])
        <5>1. /\ (p = "opencode") = TRUE /\ (p = "anthropic") = FALSE
              /\ (p \in {"openrouter", "deepseek"}) = FALSE /\ (p \in Local) = FALSE
          BY <3>3 DEF Local
        <5> QED
          BY <5>1 DEF NewClient
      <4>2. k = Or(Or(kept, all), general)
        BY <2>4, <3>1, <4>1
      <4> QED
        BY <2>3, <3>1, <3>2, <4>2 DEF Or
    <3>4. CASE p = "openrouter"
      <4>1. NewClient(s, p) = Or(Or(Or(cfg[s].kept[p], cfg[s].own[p]), glob.key[p]), env[p])
        <5>1. /\ (p = "opencode") = FALSE /\ (p = "anthropic") = FALSE
              /\ (p \in {"openrouter", "deepseek"}) = TRUE /\ (p \in Local) = FALSE
          BY <3>4 DEF Local
        <5> QED
          BY <3>4, <5>1 DEF NewClient
      <4>2. k = Or(Or(Or(kept, own), all), general)
        BY <2>4, <3>1, <4>1
      <4> QED
        BY <2>3, <3>1, <3>2, <4>2 DEF Or
    <3> QED
      BY <2>1, <3>3, <3>4
  <2> QED
    BY <2>3, <2>5
<1>9. ASSUME NEW t \in Chats, t # s
      PROVE  CopyIsCurrent(t)' /\ RequestIsCurrent(t)'
  BY <1>1, <1>4, <1>9, TurnStands
<1> QED
  BY <1>5, <1>7, <1>8, <1>9 DEF RoutingInv

\* Without a turn there is nothing to keep.
LEMMA NoTurnStands ==
    ASSUME NEW s \in Chats, turn'[s] = NoTurn
    PROVE  CopyIsCurrent(s)' /\ RequestIsCurrent(s)'
<1>1. turn'[s].checked = "none" /\ turn'[s].to = "none"
  BY CheckedFields DEF NoTurn
<1>2. "none" \notin Keyed
  BY DEF Keyed
<1> QED
  BY <1>1, <1>2 DEF CopyIsCurrent, RequestIsCurrent

LEMMA EndKeeps ==
    ASSUME RoutingInv, NEW s \in Chats, End(s)
    PROVE  RoutingInv'
<1>1. /\ RoutingType /\ TurnsShape(turn) /\ cfg' = cfg
      /\ saved' = [saved EXCEPT ![s] = cfg[s]] /\ turn' = [turn EXCEPT ![s] = NoTurn]
      /\ glob' = glob /\ globFile' = globFile /\ env' = env
  BY DEF RoutingInv, RoutingType, End
<1>2. TurnsShape(turn') /\ turn'[s] = NoTurn /\ \A t \in Chats : t # s => turn'[t] = turn[t]
  <2>1. IsTurn(NoTurn)
    BY DEF NoTurn, Checked, IsTurn
  <2>2. DOMAIN turn = Chats /\ \A t \in Chats : IsTurn(turn[t])
    BY <1>1 DEF TurnsShape
  <2>3. DOMAIN turn' = Chats /\ turn' = [t \in Chats |-> turn'[t]]
    BY <1>1, <2>2
  <2>4. turn'[s] = NoTurn /\ \A t \in Chats : t # s => turn'[t] = turn[t]
    BY <1>1, <2>2
  <2> QED
    BY <2>1, <2>2, <2>3, <2>4 DEF TurnsShape
<1>3. RoutingType'
  BY <1>1, <1>2 DEF RoutingType
<1> QED
  BY <1>1, <1>2, <1>3, NoTurnStands, TurnStands DEF RoutingInv

LEMMA RestartKeeps ==
    ASSUME RoutingInv, Restart
    PROVE  RoutingInv'
<1>1. /\ cfg' = saved /\ saved' = saved /\ glob' = globFile /\ globFile' = globFile /\ env' = env
      /\ turn' = [s \in Chats |-> NoTurn]
  BY DEF Restart
<1>2. IsTurn(NoTurn)
  BY DEF NoTurn, Checked, IsTurn
<1>3. RoutingType'
  BY <1>1, <1>2 DEF RoutingInv, RoutingType, TurnsShape
<1> QED
  BY <1>1, <1>3, NoTurnStands DEF RoutingInv

\* Whatever the chats, the keys, the changes of the settings and the restarts: a request to the
\* provider its turn was checked for carries a key that the turn could have been given since it
\* began; and the thinking budget is below the limit (conversation.py:608, power_levels.py:137).
THEOREM CopiesAreCurrent == RoutingSpec => []KeysAreCurrent
<1>1. RoutingInit => RoutingInv
  <2> SUFFICES ASSUME RoutingInit
               PROVE  RoutingInv
    OBVIOUS
  <2>1. NoKeys \in [Keyed -> KeyValues] /\ NoUrls \in [Local -> KeyValues]
        /\ [p \in Keyed |-> "env"] \in [Keyed -> KeyValues]
    BY DEF NoKeys, NoUrls, KeyValues
  <2>2. cfg \in [Chats -> ChatSettings] /\ saved = cfg
    <3>1. /\ cfg \in [Chats -> [model : Models, selected : {""}, own : {NoKeys}, kept : {NoKeys},
                               url : {NoUrls}]]
          /\ saved = cfg
      BY DEF RoutingInit
    <3>2. [model : Models, selected : {""}, own : {NoKeys}, kept : {NoKeys}, url : {NoUrls}]
             \subseteq ChatSettings
      BY <2>1 DEF ChatSettings
    <3> QED
      BY <3>1, <3>2
  <2>3. glob \in GlobalSettings /\ globFile \in GlobalSettings /\ env \in [Keyed -> KeyValues]
    BY <2>1 DEF RoutingInit, GlobalSettings, NoSettings
  <2>4. IsTurn(NoTurn) /\ turn = [s \in Chats |-> NoTurn]
    BY DEF NoTurn, Checked, IsTurn, RoutingInit
  <2>5. TurnsShape(turn)
    BY <2>4 DEF TurnsShape
  <2>6. ASSUME NEW s \in Chats
        PROVE  CopyIsCurrent(s) /\ RequestIsCurrent(s)
    <3>1. turn[s].checked = "none" /\ turn[s].to = "none"
      BY <2>4, CheckedFields DEF NoTurn
    <3>2. "none" \notin Keyed
      BY DEF Keyed
    <3> QED
      BY <3>1, <3>2 DEF CopyIsCurrent, RequestIsCurrent
  <2> QED
    BY <2>2, <2>3, <2>5, <2>6 DEF RoutingInv, RoutingType
<1>2. RoutingInv /\ [RoutingNext]_routingVars => RoutingInv'
  <2> SUFFICES ASSUME RoutingInv, [RoutingNext]_routingVars
               PROVE  RoutingInv'
    OBVIOUS
  <2>1. CASE RoutingNext
    BY <2>1, RestartKeeps, ChangeKeeps, ChangeModelKeeps, CheckKeeps, StreamKeeps, EndKeeps
    DEF RoutingNext
  <2>2. CASE UNCHANGED routingVars
    <3>1. /\ turn' = turn /\ glob' = glob /\ env' = env /\ cfg' = cfg /\ saved' = saved
          /\ globFile' = globFile
      BY <2>2 DEF routingVars
    <3>2. RoutingType'
      BY <3>1 DEF RoutingInv, RoutingType
    <3> QED
      BY <3>1, <3>2, TurnStands DEF RoutingInv
  <2> QED
    BY <2>1, <2>2
<1>3. RoutingInv => KeysAreCurrent
  BY BudgetFits DEF RoutingInv, RequestIsCurrent, KeysAreCurrent
<1> QED
  BY <1>1, <1>2, <1>3, PTL DEF RoutingSpec

-----------------------------------------------------------------------------
(* AgentEditor. *)

Slugs == Builtin \cup Custom
AgentTexts == Slugs \cup {"shipped", "blank", "new", "other", "torn", ""}
AgentDefs == [name : AgentNames \cup {""}, prompt : AgentTexts, rest : AgentTexts]

TextsOf(key) == {key} \cup (IF key \in Builtin THEN {"shipped"} ELSE {"blank", "new"})

\* What may be registered, shown and selected: an agent whose texts are its own.
Proper(d) ==
    /\ d \in AgentDefs
    /\ d.name \in AgentNames
    /\ d.prompt \in TextsOf(Key(d.name))
    /\ Key(d.name) \in Builtin => d.rest = "shipped"

IsMap(f) == f = [x \in DOMAIN f |-> f[x]]

ProperRegistry(defs) ==
    /\ IsMap(defs)
    /\ Builtin \subseteq DOMAIN defs /\ DOMAIN defs \subseteq Slugs
    /\ \A key \in DOMAIN defs : Proper(defs[key]) /\ Key(defs[key].name) = key

ProperFiles(files) ==
    /\ IsMap(files)
    /\ DOMAIN files \subseteq Custom \cup Capitalised
    /\ \A name \in DOMAIN files : files[name] = Torn \/ (Proper(files[name]) /\ files[name].name = name)

\* The files and the registry agree on an agent whose last write or deletion did not fail.
Kept(slug, files, defs, bad) ==
    /\ slug \in DOMAIN defs => defs[slug].name = slug
    /\ slug \notin bad =>
          /\ slug \in DOMAIN files <=> slug \in DOMAIN defs
          /\ slug \in DOMAIN files => files[slug] = defs[slug] /\ files[slug] # Torn

FilesAgree(files, defs, bad) ==
    \A slug \in Custom : OwnFileOnly(slug, files) => Kept(slug, files, defs, bad)

Editors == [agents : SUBSET AgentDefs, selected : AgentDefs, form : AgentDefs, isNew : BOOLEAN,
          saving : BOOLEAN]

\* The form holds a new agent, or the selected one with texts of its own.
ProperEditor(e) ==
    /\ e \in Editors
    /\ \A d \in e.agents : Proper(d)
    /\ e.isNew => e.form.name \in Slugs \cup {""} /\ e.form.prompt \in {"blank", "new"}
    /\ e.selected # NoAgent =>
          ~e.isNew /\ Proper(e.selected) /\ Proper(e.form) /\ e.form.name = e.selected.name

AgentCalls == [op : {"list", "create", "update", "patch", "delete"}, name : AgentNames \cup {""},
               body : AgentDefs, stage : {"sent", "failed", "answered", "listing", "listed", "lost"},
               answer : AgentDefs, list : SUBSET AgentDefs]

\* A call carries a proper definition, but for a new agent with the name of a built-in one; what
\* it was answered and the list it got are proper.
ProperCall(c) ==
    /\ c \in AgentCalls
    /\ c.op = "list" => c.stage # "sent"
    /\ c.op # "list" => c.name \in AgentNames
    /\ c.op \in {"create", "update", "patch"} => c.body.name = c.name
    /\ c.op = "create" => c.name \in Slugs /\ (c.name \notin Builtin => Proper(c.body))
    /\ c.op \in {"update", "patch"} => Proper(c.body)
    /\ c.op \in {"create", "update", "patch"} /\ c.stage \notin {"sent", "failed"} => Proper(c.answer)
    /\ \A d \in c.list : Proper(d)

AgentsOfServer ==
    /\ ProperRegistry(definitions) /\ ProperFiles(agentFiles)
    /\ FilesAgree(agentFiles, definitions, spoiled)

AgentsInv ==
    /\ AgentsOfServer
    /\ ProperEditor(editor)
    /\ \A c \in agentCalls : ProperCall(c)

\* name.lower() is a slug, of a built-in agent or of a custom one.
LEMMA KeyFacts ==
    /\ \A name \in AgentNames : Key(name) \in Slugs
    /\ \A key \in Slugs : Key(key) = key
    /\ \A name \in Custom \cup Capitalised : Key(name) \in Custom
    /\ Slugs \subseteq AgentNames /\ Builtin \cap Custom = {} /\ Slugs \cap Capitalised = {}
  BY AgentAssumption DEF Key, AgentNames, Slugs

LEMMA ShippedIsProper ==
    ASSUME NEW key \in Builtin
    PROVE  Proper(Shipped(key)) /\ Key(Shipped(key).name) = key
  <1>1. key \in AgentNames /\ key \in Slugs /\ Key(key) = key
    BY KeyFacts DEF Slugs
  <1> QED
    BY <1>1 DEF Proper, Shipped, Definition, AgentDefs, AgentTexts, TextsOf, Slugs

\* A file with an agent's own slug that is proper is not torn.
LEMMA ProperIsWhole ==
    ASSUME NEW slug \in Custom, NEW d, Proper(d), d.name = slug
    PROVE  d # Torn
  <1>1. Key(slug) = slug /\ slug \notin Builtin
    BY KeyFacts DEF Slugs
  <1>2. d.prompt \in {slug, "blank", "new"}
    BY <1>1 DEF Proper, TextsOf
  <1>3. Torn.name = "" /\ Torn.prompt = "torn"
    BY DEF Torn, Definition
  <1> QED
    BY <1>2, <1>3

-----------------------------------------------------------------------------
\* What the registry holds after a start.
Readable(files) == {name \in DOMAIN files : files[name] # Torn}

LEMMA StartedFacts ==
    ASSUME NEW files, ProperFiles(files)
    PROVE  /\ ProperRegistry(Started(files))
           /\ \A key \in Builtin : Started(files)[key] = Shipped(key)
           /\ \A slug \in Custom : OwnFileOnly(slug, files) =>
                 /\ slug \in DOMAIN Started(files) <=> slug \in Readable(files)
                 /\ slug \in Readable(files) => Started(files)[slug] = files[slug]
  <1> DEFINE OfKey(key) == {name \in Readable(files) : Key(name) = key}
             D == Builtin \cup {Key(name) : name \in Readable(files)}
             F(key) == IF OfKey(key) = {} THEN Shipped(key)
                       ELSE IF key \in OfKey(key) THEN files[key]
                       ELSE files[CHOOSE name \in OfKey(key) : TRUE]
  <1>1. Started(files) = [key \in D |-> F(key)]
    BY Zenon DEF Started, Readable
  <1>2. Readable(files) \subseteq Custom \cup Capitalised /\ Readable(files) \subseteq DOMAIN files
    BY DEF Readable, ProperFiles
  <1>3. \A name \in Readable(files) : Proper(files[name]) /\ files[name].name = name
    BY DEF Readable, ProperFiles
  <1>4. \A name \in Readable(files) : Key(name) \in Custom
    BY <1>2, KeyFacts
  <1>5. D \subseteq Slugs
    BY <1>4 DEF Slugs
  <1>6. \A key \in Builtin : F(key) = Shipped(key)
    BY <1>4, KeyFacts
  <1>7. ASSUME NEW key \in D
        PROVE  Proper(F(key)) /\ Key(F(key).name) = key
    <2>1. CASE OfKey(key) = {}
      <3>1. key \in Builtin
        BY <2>1
      <3> QED
        BY <2>1, <3>1, ShippedIsProper
    <2>2. CASE OfKey(key) # {}
      <3>1. PICK n : n \in OfKey(key) /\ F(key) = files[n]
        <4>1. CASE key \in OfKey(key)
          BY <4>1, <2>2
        <4>2. CASE key \notin OfKey(key)
          BY <4>2, <2>2
        <4> QED
          BY <4>1, <4>2
      <3> QED
        BY <3>1, <1>3
    <2> QED
      BY <2>1, <2>2
  <1>8. ASSUME NEW slug \in Custom, OwnFileOnly(slug, files)
        PROVE  /\ slug \in D <=> slug \in Readable(files)
               /\ slug \in Readable(files) => F(slug) = files[slug]
    <2>1. \A name \in Readable(files) : Key(name) = slug => name = slug
      BY <1>2, <1>8 DEF OwnFileOnly
    <2>2. Key(slug) = slug /\ slug \notin Builtin
      BY KeyFacts DEF Slugs
    <2> QED
      BY <2>1, <2>2
  <1>9. ProperRegistry(Started(files))
    <2>1. DOMAIN Started(files) = D
      BY <1>1
    <2>2. \A key \in D : Started(files)[key] = F(key)
      BY <1>1
    <2>3. IsMap(Started(files))
      BY <1>1 DEF IsMap
    <2> HIDE DEF F
    <2>4. \A key \in D : Proper(Started(files)[key]) /\ Key(Started(files)[key].name) = key
      BY <2>2, <1>7
    <2> QED
      BY <2>1, <2>3, <2>4, <1>5 DEF ProperRegistry
  <1> HIDE DEF F, D
  <1>10. DOMAIN Started(files) = D /\ \A key \in D : Started(files)[key] = F(key)
    BY <1>1
  <1>11. Builtin \subseteq D
    BY DEF D
  <1> QED
    BY <1>9, <1>10, <1>11, <1>6, <1>8

-----------------------------------------------------------------------------
\* What the endpoints do to the registry and the files.
LEMMA WithoutFacts ==
    ASSUME NEW f, NEW x
    PROVE  /\ DOMAIN Without(f, x) = DOMAIN f \ {x}
           /\ IsMap(Without(f, x))
           /\ \A y \in DOMAIN f : y # x => Without(f, x)[y] = f[y]
  BY DEF Without, IsMap

LEMMA RecordedKeeps ==
    ASSUME AgentsOfServer, NEW d, Proper(d), NEW persist \in BOOLEAN, NEW wrote \in BOOLEAN,
           persist <=> Key(d.name) \notin Builtin, Recorded(d, persist, wrote)
    PROVE  AgentsOfServer' /\ definitions'[Key(d.name)] = d
  <1> DEFINE key == Key(d.name)
  <1>1. key \in Slugs /\ d.name \in AgentNames
    BY KeyFacts DEF Proper
  <1> HIDE DEF key
  <1>2. definitions' = Put(definitions, key, d)
    BY DEF Recorded, key
  <1>3. /\ DOMAIN definitions' = DOMAIN definitions \cup {key}
        /\ IsMap(definitions')
        /\ definitions'[key] = d
        /\ \A y \in DOMAIN definitions : y # key => definitions'[y] = definitions[y]
    BY <1>2 DEF Put, IsMap
  <1>4. ProperRegistry(definitions')
    BY <1>1, <1>3 DEF AgentsOfServer, ProperRegistry, key
  <1>5. CASE ~persist
    <2>1. agentFiles' = agentFiles /\ spoiled' = spoiled
      BY <1>5, Zenon DEF Recorded
    <2>2. key \notin Custom
      BY <1>5, KeyFacts DEF key
    <2>3. ASSUME NEW slug \in Custom, Kept(slug, agentFiles, definitions, spoiled)
          PROVE  Kept(slug, agentFiles, definitions', spoiled)
      BY <2>2, <2>3, <1>3 DEF Kept
    <2>4. FilesAgree(agentFiles, definitions', spoiled)
      BY <2>3 DEF FilesAgree, AgentsOfServer
    <2> QED
      BY <2>1, <2>4, <1>3, <1>4 DEF AgentsOfServer, key
  <1>6. CASE persist
    <2> DEFINE name == d.name
               file == IF wrote THEN d ELSE Torn
    <2>1. agentFiles' = Put(agentFiles, name, file)
      BY <1>6, Zenon DEF Recorded
    <2>2. spoiled' = IF wrote THEN spoiled \ {name} ELSE spoiled \cup {name}
      BY <1>6 DEF Recorded
    <2>3. name \in Custom \cup Capitalised
      BY <1>6, <1>1, KeyFacts DEF AgentNames, Slugs, key
    <2> HIDE DEF file
    <2>4. /\ DOMAIN agentFiles' = DOMAIN agentFiles \cup {name}
          /\ IsMap(agentFiles')
          /\ agentFiles'[name] = file
          /\ \A y \in DOMAIN agentFiles : y # name => agentFiles'[y] = agentFiles[y]
      BY <2>1 DEF Put, IsMap
    <2>5. file = Torn \/ (Proper(file) /\ file.name = name)
      BY DEF file
    <2>6. ProperFiles(agentFiles')
      BY <2>3, <2>4, <2>5 DEF AgentsOfServer, ProperFiles
    <2>7. ASSUME NEW slug \in Custom, OwnFileOnly(slug, agentFiles')
          PROVE  Kept(slug, agentFiles', definitions', spoiled')
      <3>1. Kept(slug, agentFiles, definitions, spoiled)
        BY <2>7, <2>4 DEF AgentsOfServer, FilesAgree, OwnFileOnly
      <3>2. slug = key <=> slug = name
        BY <2>4, <2>7, KeyFacts DEF Slugs, OwnFileOnly, key
      <3>3. CASE slug = name
        <4>1. definitions'[slug] = d /\ slug \in DOMAIN definitions' /\ slug \in DOMAIN agentFiles'
          BY <3>2, <3>3, <1>3, <2>4
        <4>2. slug \notin spoiled' => agentFiles'[slug] = d
          BY <2>2, <2>4, <3>3 DEF file
        <4>3. d # Torn
          BY <3>3, ProperIsWhole
        <4> QED
          BY <4>1, <4>2, <4>3, <3>3 DEF Kept
      <3>4. CASE slug # name
        <4>1. slug \in spoiled' <=> slug \in spoiled
          BY <2>2, <3>4
        <4>2. slug \in DOMAIN agentFiles' <=> slug \in DOMAIN agentFiles
          BY <2>4, <3>4
        <4>3. slug \in DOMAIN agentFiles => agentFiles'[slug] = agentFiles[slug]
          BY <2>4, <3>4
        <4>4. slug \in DOMAIN definitions' <=> slug \in DOMAIN definitions
          BY <1>3, <3>2, <3>4
        <4>5. slug \in DOMAIN definitions => definitions'[slug] = definitions[slug]
          BY <1>3, <3>2, <3>4
        <4> QED
          BY <3>1, <4>1, <4>2, <4>3, <4>4, <4>5 DEF Kept
      <3> QED
        BY <3>3, <3>4
    <2>8. FilesAgree(agentFiles', definitions', spoiled')
      BY <2>7 DEF FilesAgree
    <2> QED
      BY <2>6, <2>8, <1>3, <1>4 DEF AgentsOfServer, key
  <1> QED
    BY <1>5, <1>6

LEMMA NothingKeeps ==
    ASSUME AgentsOfServer, NothingRecorded
    PROVE  AgentsOfServer'
  BY DEF AgentsOfServer, NothingRecorded, ProperRegistry, ProperFiles, FilesAgree, Kept

LEMMA DeleteKeeps ==
    ASSUME AgentsOfServer, NEW name \in AgentNames, NEW ok, NEW wrote, DeleteAgent(name, ok, wrote)
    PROVE  AgentsOfServer'
  <1> DEFINE key == Key(name)
             gone == wrote \/ key \notin DOMAIN agentFiles
  <1>1. CASE NothingRecorded
    BY <1>1, NothingKeeps
  <1>2. CASE ~NothingRecorded
    <2>1. key \in Custom /\ key \notin Builtin /\ key \notin Capitalised /\ Key(key) = key
      BY <1>2, KeyFacts DEF DeleteAgent, Slugs
    <2>2. /\ definitions' = Without(definitions, key)
          /\ agentFiles' = IF gone THEN Without(agentFiles, key) ELSE agentFiles
          /\ spoiled' = IF gone THEN spoiled \ {key} ELSE spoiled \cup {key}
      BY <1>2 DEF DeleteAgent
    <2> HIDE DEF key, gone
    <2>3. /\ DOMAIN definitions' = DOMAIN definitions \ {key}
          /\ IsMap(definitions')
          /\ \A y \in DOMAIN definitions : y # key => definitions'[y] = definitions[y]
      BY <2>2, WithoutFacts
    <2>4. ProperRegistry(definitions')
      BY <2>1, <2>3 DEF AgentsOfServer, ProperRegistry
    <2>5. CASE gone
      <3>1. agentFiles' = Without(agentFiles, key) /\ spoiled' = spoiled \ {key}
        BY <2>2, <2>5
      <3>2. /\ DOMAIN agentFiles' = DOMAIN agentFiles \ {key}
            /\ IsMap(agentFiles')
            /\ \A y \in DOMAIN agentFiles : y # key => agentFiles'[y] = agentFiles[y]
        BY <3>1, WithoutFacts
      <3>3. ProperFiles(agentFiles')
        BY <3>2 DEF AgentsOfServer, ProperFiles
      <3>4. ASSUME NEW slug \in Custom, OwnFileOnly(slug, agentFiles')
            PROVE  Kept(slug, agentFiles', definitions', spoiled')
        <4>1. CASE slug = key
          BY <4>1, <2>3, <3>2 DEF Kept
        <4>2. CASE slug # key
          <5>1. OwnFileOnly(slug, agentFiles)
            BY <4>2, <3>2, <3>4, <2>1 DEF OwnFileOnly
          <5>2. Kept(slug, agentFiles, definitions, spoiled)
            BY <5>1 DEF AgentsOfServer, FilesAgree
          <5> QED
            BY <4>2, <5>2, <3>1, <2>3, <3>2 DEF Kept
        <4> QED
          BY <4>1, <4>2
      <3>5. FilesAgree(agentFiles', definitions', spoiled')
        BY <3>4 DEF FilesAgree
      <3> QED
        BY <2>4, <3>3, <3>5 DEF AgentsOfServer
    <2>6. CASE ~gone
      <3>1. agentFiles' = agentFiles /\ spoiled' = spoiled \cup {key}
        BY <2>2, <2>6
      <3>2. ASSUME NEW slug \in Custom, OwnFileOnly(slug, agentFiles)
            PROVE  Kept(slug, agentFiles, definitions', spoiled')
        <4>1. Kept(slug, agentFiles, definitions, spoiled)
          BY <3>2 DEF AgentsOfServer, FilesAgree
        <4>2. CASE slug = key
          BY <4>2, <3>1, <2>3 DEF Kept
        <4>3. CASE slug # key
          BY <4>3, <4>1, <3>1, <2>3 DEF Kept
        <4> QED
          BY <4>2, <4>3
      <3>3. FilesAgree(agentFiles', definitions', spoiled')
        BY <3>1, <3>2 DEF FilesAgree
      <3> QED
        BY <2>4, <3>1, <3>3 DEF AgentsOfServer
    <2> QED
      BY <2>5, <2>6
  <1> QED
    BY <1>1, <1>2

Patched(old, d, fields) == [f \in {"name", "prompt", "rest"} |-> IF f \in fields THEN d[f] ELSE old[f]]

\* A patch is of an agent's own texts: the agent stays proper.
LEMMA PatchedIsProper ==
    ASSUME AgentsOfServer, NEW key \in DOMAIN definitions, NEW d \in AgentDefs,
           NEW fields \in {{"prompt"}, {"prompt", "rest"}},
           d.prompt \in TextsOf(key), key \in Builtin => "rest" \notin fields
    PROVE  Proper(Patched(definitions[key], d, fields)) /\ Key(Patched(definitions[key], d, fields).name) = key
  <1> DEFINE old == definitions[key]
             new == Patched(old, d, fields)
  <1>1. Proper(old) /\ Key(old.name) = key
    BY DEF AgentsOfServer, ProperRegistry
  <1>2. new.name = old.name /\ new.prompt = d.prompt
    BY DEF Patched
  <1>3. new.rest = IF "rest" \in fields THEN d.rest ELSE old.rest
    BY DEF Patched
  <1>4. new = [name |-> new.name, prompt |-> new.prompt, rest |-> new.rest]
    BY DEF Patched
  <1>5. new.name \in AgentNames \cup {""} /\ new.prompt \in AgentTexts /\ new.rest \in AgentTexts
    BY <1>1, <1>2, <1>3 DEF Proper, AgentDefs
  <1> HIDE DEF new, old
  <1>6. new \in AgentDefs
    BY <1>4, <1>5 DEF AgentDefs
  <1>7. Proper(new) /\ Key(new.name) = key
    BY <1>1, <1>2, <1>3, <1>6 DEF Proper
  <1> QED
    BY <1>7 DEF new, old

LEMMA CreateKeeps ==
    ASSUME AgentsOfServer, NEW d, d.name \in AgentNames, Key(d.name) \notin Builtin => Proper(d),
           NEW ok, NEW wrote \in BOOLEAN, CreateAgent(d, ok, wrote)
    PROVE  AgentsOfServer' /\ (ok => Proper(definitions'[Key(d.name)]))
  <1>1. CASE d.name \in Builtin
    BY <1>1, NothingKeeps DEF CreateAgent
  <1>2. CASE d.name \notin Builtin
    <2>1. Key(d.name) \notin Builtin
      BY <1>2, KeyFacts DEF AgentNames
    <2>2. Recorded(d, TRUE, wrote) /\ Proper(d)
      BY <1>2, <2>1 DEF CreateAgent
    <2> QED
      BY <2>1, <2>2, RecordedKeeps
  <1> QED
    BY <1>1, <1>2

LEMMA UpdateKeeps ==
    ASSUME AgentsOfServer, NEW name \in AgentNames, NEW d, d.name \in AgentNames,
           Key(d.name) \notin Builtin => Proper(d),
           NEW ok, NEW wrote \in BOOLEAN, UpdateAgent(name, d, ok, wrote)
    PROVE  AgentsOfServer' /\ (ok => Proper(definitions'[Key(name)]))
  <1>1. CASE name \in Builtin \/ Key(d.name) # Key(name)
    BY <1>1, NothingKeeps DEF UpdateAgent
  <1>2. CASE name \notin Builtin /\ Key(d.name) = Key(name)
    <2>1. Key(d.name) \notin Builtin
      BY <1>2, KeyFacts DEF AgentNames
    <2>2. Recorded(d, TRUE, wrote) /\ Proper(d)
      BY <1>2, <2>1 DEF UpdateAgent
    <2> QED
      BY <1>2, <2>1, <2>2, RecordedKeeps
  <1> QED
    BY <1>1, <1>2

LEMMA PatchKeeps ==
    ASSUME AgentsOfServer, NEW name \in AgentNames, NEW d \in AgentDefs,
           d.prompt \in TextsOf(Key(name)), NEW fields \in {{"prompt"}, {"prompt", "rest"}},
           NEW ok, NEW wrote \in BOOLEAN, PatchAgent(name, d, fields, ok, wrote)
    PROVE  AgentsOfServer' /\ (ok => Proper(definitions'[Key(name)]))
  <1> DEFINE key == Key(name)
             refused == key \notin DOMAIN definitions \/ (key \in Builtin /\ "rest" \in fields)
             new == Patched(definitions[key], d, fields)
  <1>1. CASE refused
    BY <1>1, NothingKeeps DEF PatchAgent
  <1>2. CASE ~refused
    <2>1. Proper(new) /\ Key(new.name) = key
      BY <1>2, PatchedIsProper
    <2>2. Recorded(new, key \notin Builtin, wrote)
      BY <1>2, Zenon DEF PatchAgent, Patched
    <2> HIDE DEF new
    <2> QED
      BY <2>1, <2>2, RecordedKeeps
  <1> QED
    BY <1>1, <1>2

\* Another client: any of them, with any definition of its own.
LEMMA OtherClientKeeps ==
    ASSUME AgentsInv, OtherClient
    PROVE  AgentsInv'
  <1>1. PICK name \in AgentNames, wrote \in BOOLEAN, ok \in BOOLEAN :
          LET d == Definition(name, Key(name), "other") IN
          \/ CreateAgent(d, ok, wrote)
          \/ UpdateAgent(Key(name), d, ok, wrote)
          \/ \E fields \in {{"prompt"}, {"prompt", "rest"}} : PatchAgent(name, d, fields, ok, wrote)
          \/ DeleteAgent(name, ok, wrote)
    BY Zenon DEF OtherClient
  <1> DEFINE d == Definition(name, Key(name), "other")
  <1>2. Key(name) \in Slugs /\ Key(name) \in AgentNames /\ Key(Key(name)) = Key(name)
    BY KeyFacts
  <1>3. d.name = name /\ d.prompt = Key(name) /\ d \in AgentDefs
    BY <1>2 DEF Definition, AgentDefs, AgentTexts
  <1> HIDE DEF d
  <1>4. Key(d.name) \notin Builtin => Proper(d)
    BY <1>3 DEF Proper, TextsOf
  <1>5. d.prompt \in TextsOf(Key(name))
    BY <1>3 DEF TextsOf
  <1>6. AgentsOfServer
    BY DEF AgentsInv
  <1>7. AgentsOfServer'
    <2>1. CASE CreateAgent(d, ok, wrote)
      BY <2>1, <1>3, <1>4, <1>6, CreateKeeps
    <2>2. CASE UpdateAgent(Key(name), d, ok, wrote)
      BY <2>2, <1>2, <1>3, <1>4, <1>6, UpdateKeeps
    <2>3. CASE \E fields \in {{"prompt"}, {"prompt", "rest"}} : PatchAgent(name, d, fields, ok, wrote)
      BY <2>3, <1>3, <1>5, <1>6, PatchKeeps
    <2>4. CASE DeleteAgent(name, ok, wrote)
      BY <2>4, <1>6, DeleteKeeps
    <2> QED
      BY <1>1, <2>1, <2>2, <2>3, <2>4, Zenon DEF d
  <1>8. editor' = editor /\ agentCalls' = agentCalls
    BY DEF OtherClient
  <1> QED
    BY <1>7, <1>8 DEF AgentsInv

-----------------------------------------------------------------------------
\* The page.
EditorOf(agents, selected, form, isNew, saving) ==
    [agents |-> agents, selected |-> selected, form |-> form, isNew |-> isNew, saving |-> saving]

PageStage(c, stage, answer, list) ==
    [op |-> c.op, name |-> c.name, body |-> c.body, stage |-> stage, answer |-> answer, list |-> list]

LEMMA CallUpdates ==
    ASSUME NEW c \in AgentCalls, NEW st, NEW an
    PROVE  /\ [c EXCEPT !.stage = st] = PageStage(c, st, c.answer, c.list)
           /\ [c EXCEPT !.stage = st, !.answer = an] = PageStage(c, st, an, c.list)
  <1>1. c = [op |-> c.op, name |-> c.name, body |-> c.body, stage |-> c.stage, answer |-> c.answer,
             list |-> c.list]
    BY DEF AgentCalls
  <1>2. PICK o, n, b, s, a, l :
          c = [op |-> o, name |-> n, body |-> b, stage |-> s, answer |-> a, list |-> l]
    BY <1>1
  <1>3. c.op = o /\ c.name = n /\ c.body = b /\ c.answer = a /\ c.list = l
    BY <1>2
  <1>4. [c EXCEPT !.stage = st] = [op |-> o, name |-> n, body |-> b, stage |-> st, answer |-> a, list |-> l]
    BY <1>2
  <1>5. [[op |-> o, name |-> n, body |-> b, stage |-> st, answer |-> a, list |-> l] EXCEPT !.answer = an]
          = [op |-> o, name |-> n, body |-> b, stage |-> st, answer |-> an, list |-> l]
    OBVIOUS
  <1>6. [c EXCEPT !.stage = st, !.answer = an] = [[c EXCEPT !.stage = st] EXCEPT !.answer = an]
    OBVIOUS
  <1> QED
    BY <1>3, <1>4, <1>5, <1>6, Zenon DEF PageStage

LEMMA ListUpdate ==
    ASSUME NEW c \in AgentCalls, NEW st, NEW li
    PROVE  [c EXCEPT !.stage = st, !.list = li] = PageStage(c, st, c.answer, li)
  <1>1. c = [op |-> c.op, name |-> c.name, body |-> c.body, stage |-> c.stage, answer |-> c.answer,
             list |-> c.list]
    BY DEF AgentCalls
  <1>2. PICK o, n, b, s, a, l :
          c = [op |-> o, name |-> n, body |-> b, stage |-> s, answer |-> a, list |-> l]
    BY <1>1
  <1>3. c.op = o /\ c.name = n /\ c.body = b /\ c.answer = a
    BY <1>2
  <1>4. [c EXCEPT !.stage = st] = [op |-> o, name |-> n, body |-> b, stage |-> st, answer |-> a, list |-> l]
    BY <1>2
  <1>5. [[op |-> o, name |-> n, body |-> b, stage |-> st, answer |-> a, list |-> l] EXCEPT !.list = li]
          = [op |-> o, name |-> n, body |-> b, stage |-> st, answer |-> a, list |-> li]
    OBVIOUS
  <1>6. [c EXCEPT !.stage = st, !.list = li] = [[c EXCEPT !.stage = st] EXCEPT !.list = li]
    OBVIOUS
  <1> QED
    BY <1>3, <1>4, <1>5, <1>6, Zenon DEF PageStage

LEMMA StageIsProper ==
    ASSUME NEW c, ProperCall(c), NEW st \in {"failed", "answered", "listing", "listed", "lost"},
           NEW an \in AgentDefs, NEW li \in SUBSET AgentDefs, \A d \in li : Proper(d),
           c.op \in {"create", "update", "patch"} /\ st # "failed" => Proper(an)
    PROVE  ProperCall(PageStage(c, st, an, li))
  <1> DEFINE n == PageStage(c, st, an, li)
  <1>1. n.op = c.op /\ n.name = c.name /\ n.body = c.body /\ n.stage = st /\ n.answer = an /\ n.list = li
    BY DEF PageStage
  <1>2. n \in AgentCalls
    BY DEF PageStage, ProperCall, AgentCalls
  <1> HIDE DEF n
  <1>3. ProperCall(n)
    BY <1>1, <1>2 DEF ProperCall
  <1> QED
    BY <1>3 DEF n

LEMMA FormUpdates ==
    ASSUME NEW f \in AgentDefs, NEW x, NEW y
    PROVE  /\ [f EXCEPT !.name = x] = Definition(x, f.prompt, f.rest)
           /\ [[f EXCEPT !.prompt = y] EXCEPT !.rest = x] = Definition(f.name, y, x)
  <1>1. PICK n, p, r : f = [name |-> n, prompt |-> p, rest |-> r]
    BY DEF AgentDefs
  <1>2. [[name |-> n, prompt |-> p, rest |-> r] EXCEPT !.name = x] = [name |-> x, prompt |-> p, rest |-> r]
    OBVIOUS
  <1>3. [[name |-> n, prompt |-> p, rest |-> r] EXCEPT !.prompt = y] = [name |-> n, prompt |-> y, rest |-> r]
    OBVIOUS
  <1>4. [[name |-> n, prompt |-> y, rest |-> r] EXCEPT !.rest = x] = [name |-> n, prompt |-> y, rest |-> x]
    OBVIOUS
  <1>5. f.name = n /\ f.prompt = p /\ f.rest = r
    BY <1>1
  <1> QED
    BY <1>1, <1>2, <1>3, <1>4, <1>5, Zenon DEF Definition

\* The page as a whole after each update of editor.
LEMMA EditorUpdates ==
    ASSUME NEW e \in Editors, NEW d, NEW x, NEW y
    PROVE  /\ Selecting(e, d) = EditorOf(e.agents, d, d, FALSE, e.saving)
           /\ [e EXCEPT !.isNew = TRUE, !.selected = NoAgent, !.form = Blank]
                 = EditorOf(e.agents, NoAgent, Blank, TRUE, e.saving)
           /\ [e EXCEPT !.form.name = x]
                 = EditorOf(e.agents, e.selected, Definition(x, e.form.prompt, e.form.rest), e.isNew, e.saving)
           /\ [e EXCEPT !.form.prompt = y, !.form.rest = x]
                 = EditorOf(e.agents, e.selected, Definition(e.form.name, y, x), e.isNew, e.saving)
           /\ [e EXCEPT !.saving = x] = EditorOf(e.agents, e.selected, e.form, e.isNew, x)
           /\ [e EXCEPT !.selected = NoAgent, !.isNew = FALSE]
                 = EditorOf(e.agents, NoAgent, e.form, FALSE, e.saving)
           /\ [e EXCEPT !.agents = x] = EditorOf(x, e.selected, e.form, e.isNew, e.saving)
  <1>1. e = EditorOf(e.agents, e.selected, e.form, e.isNew, e.saving) /\ e.form \in AgentDefs
    BY DEF Editors, EditorOf
  <1>2. [e EXCEPT !.isNew = FALSE, !.selected = d, !.form = d]
          = [[[e EXCEPT !.isNew = FALSE] EXCEPT !.selected = d] EXCEPT !.form = d]
    OBVIOUS
  <1>3. [e EXCEPT !.isNew = TRUE, !.selected = NoAgent, !.form = Blank]
          = [[[e EXCEPT !.isNew = TRUE] EXCEPT !.selected = NoAgent] EXCEPT !.form = Blank]
    OBVIOUS
  <1>4. [e EXCEPT !.selected = NoAgent, !.isNew = FALSE]
          = [[e EXCEPT !.selected = NoAgent] EXCEPT !.isNew = FALSE]
    OBVIOUS
  <1>5. PICK a, s, f, n, v : a = e.agents /\ s = e.selected /\ f = e.form /\ n = e.isNew /\ v = e.saving
    OBVIOUS
  <1>5a. PICK tt, ff, no, bl : tt = TRUE /\ ff = FALSE /\ no = NoAgent /\ bl = Blank
    OBVIOUS
  <1>6. e = EditorOf(a, s, f, n, v)
    BY <1>1, <1>5
  <1>7. Selecting(e, d) = EditorOf(a, d, d, FALSE, v)
    <2>1. [EditorOf(a, s, f, n, v) EXCEPT !.isNew = ff] = EditorOf(a, s, f, ff, v)
      BY DEF EditorOf
    <2>2. [EditorOf(a, s, f, ff, v) EXCEPT !.selected = d] = EditorOf(a, d, f, ff, v)
      BY DEF EditorOf
    <2>3. [EditorOf(a, d, f, ff, v) EXCEPT !.form = d] = EditorOf(a, d, d, ff, v)
      BY DEF EditorOf
    <2> QED
      BY <2>1, <2>2, <2>3, <1>2, <1>6, <1>5a, Zenon DEF Selecting
  <1>8. [e EXCEPT !.isNew = TRUE, !.selected = NoAgent, !.form = Blank] = EditorOf(a, NoAgent, Blank, TRUE, v)
    <2>1. [EditorOf(a, s, f, n, v) EXCEPT !.isNew = tt] = EditorOf(a, s, f, tt, v)
      BY DEF EditorOf
    <2>2. [EditorOf(a, s, f, tt, v) EXCEPT !.selected = no] = EditorOf(a, no, f, tt, v)
      BY DEF EditorOf
    <2>3. [EditorOf(a, no, f, tt, v) EXCEPT !.form = bl] = EditorOf(a, no, bl, tt, v)
      BY DEF EditorOf
    <2> QED
      BY <2>1, <2>2, <2>3, <1>3, <1>6, <1>5a, Zenon
  <1>9. [e EXCEPT !.form.name = x] = EditorOf(a, s, Definition(x, f.prompt, f.rest), n, v)
    <2>1. [EditorOf(a, s, f, n, v) EXCEPT !.form.name = x] = EditorOf(a, s, [f EXCEPT !.name = x], n, v)
      BY DEF EditorOf
    <2>2. [f EXCEPT !.name = x] = Definition(x, f.prompt, f.rest)
      BY <1>1, <1>5, FormUpdates
    <2> QED
      BY <2>1, <2>2, <1>6, <1>5a, Zenon
  <1>10. [e EXCEPT !.form.prompt = y, !.form.rest = x] = EditorOf(a, s, Definition(f.name, y, x), n, v)
    <2>1. PICK g : g = [f EXCEPT !.prompt = y]
      OBVIOUS
    <2>2. [EditorOf(a, s, f, n, v) EXCEPT !.form.prompt = y] = EditorOf(a, s, g, n, v)
      BY <2>1 DEF EditorOf
    <2>3. [EditorOf(a, s, g, n, v) EXCEPT !.form.rest = x] = EditorOf(a, s, [g EXCEPT !.rest = x], n, v)
      BY DEF EditorOf
    <2>4. [e EXCEPT !.form.prompt = y, !.form.rest = x]
            = [[e EXCEPT !.form.prompt = y] EXCEPT !.form.rest = x]
      OBVIOUS
    <2>5. [g EXCEPT !.rest = x] = Definition(f.name, y, x)
      BY <2>1, <1>1, <1>5, FormUpdates, ZenonT(30)
    <2> QED
      BY <2>2, <2>3, <2>4, <2>5, <1>6, <1>5a, Zenon
  <1>11. [e EXCEPT !.saving = x] = EditorOf(a, s, f, n, x)
    <2>1. [EditorOf(a, s, f, n, v) EXCEPT !.saving = x] = EditorOf(a, s, f, n, x)
      BY DEF EditorOf
    <2> QED
      BY <2>1, <1>6, <1>5a, Zenon
  <1>12. [e EXCEPT !.selected = NoAgent, !.isNew = FALSE] = EditorOf(a, NoAgent, f, FALSE, v)
    <2>1. [EditorOf(a, s, f, n, v) EXCEPT !.selected = no] = EditorOf(a, no, f, n, v)
      BY DEF EditorOf
    <2>2. [EditorOf(a, no, f, n, v) EXCEPT !.isNew = ff] = EditorOf(a, no, f, ff, v)
      BY DEF EditorOf
    <2> QED
      BY <2>1, <2>2, <1>4, <1>6, <1>5a, Zenon
  <1>13. [e EXCEPT !.agents = x] = EditorOf(x, s, f, n, v)
    <2>1. [EditorOf(a, s, f, n, v) EXCEPT !.agents = x] = EditorOf(x, s, f, n, v)
      BY DEF EditorOf
    <2> QED
      BY <2>1, <1>6, <1>5a, Zenon
  <1> QED
    BY <1>5, <1>7, <1>8, <1>9, <1>10, <1>11, <1>12, <1>13, Zenon

\* NoAgent and Blank are texts of nobody; a page of such parts is well typed.
LEMMA BlankTypes ==
    /\ NoAgent \in AgentDefs /\ Blank \in AgentDefs /\ Blank.name = "" /\ Blank.prompt = "blank"
    /\ NoAgent.name = ""
  BY DEF NoAgent, Blank, Definition, AgentDefs, AgentTexts

\* A page that shows proper agents, with one of them selected or a new one in the form.
LEMMA EditorIsProper ==
    ASSUME NEW a \in SUBSET AgentDefs, NEW s \in AgentDefs, NEW f \in AgentDefs, NEW n \in BOOLEAN,
           NEW v \in BOOLEAN, \A d \in a : Proper(d),
           n => f.name \in Slugs \cup {""} /\ f.prompt \in {"blank", "new"},
           s # NoAgent => ~n /\ Proper(s) /\ Proper(f) /\ f.name = s.name
    PROVE  ProperEditor(EditorOf(a, s, f, n, v))
  <1>1. PICK p : p = EditorOf(a, s, f, n, v)
    OBVIOUS
  <1>2. p \in Editors /\ p.agents = a /\ p.selected = s /\ p.form = f /\ p.isNew = n /\ p.saving = v
    BY <1>1 DEF EditorOf, Editors
  <1>3. ProperEditor(p)
    BY <1>2 DEF ProperEditor
  <1> QED
    BY <1>1, <1>3

LEMMA EditorFields ==
    ASSUME ProperEditor(editor)
    PROVE  /\ editor.agents \in SUBSET AgentDefs /\ editor.selected \in AgentDefs
           /\ editor.form \in AgentDefs /\ editor.isNew \in BOOLEAN /\ editor.saving \in BOOLEAN
           /\ editor \in Editors /\ \A d \in editor.agents : Proper(d)
  BY DEF ProperEditor, Editors

LEMMA SelectingKeeps ==
    ASSUME NEW e \in Editors, \A x \in e.agents : Proper(x), NEW d, Proper(d)
    PROVE  ProperEditor(Selecting(e, d))
  <1>1. e.agents \in SUBSET AgentDefs /\ e.saving \in BOOLEAN
    BY DEF Editors
  <1>2. d \in AgentDefs
    BY DEF Proper
  <1>3. Selecting(e, d) = EditorOf(e.agents, d, d, FALSE, e.saving)
    BY EditorUpdates
  <1>4. ProperEditor(EditorOf(e.agents, d, d, FALSE, e.saving))
    BY <1>1, <1>2, EditorIsProper
  <1> QED
    BY <1>3, <1>4

\* What the user does with the form.
LEMMA FormKeeps ==
    ASSUME ProperEditor(editor),
           \/ \E d \in editor.agents : SelectAgent(d)
           \/ NewAgent
           \/ \E name \in Builtin \cup Custom : TypeName(name)
           \/ TypeTexts
    PROVE  ProperEditor(editor')
  <1> USE EditorFields
  <1>1. CASE \E d \in editor.agents : SelectAgent(d)
    BY <1>1, SelectingKeeps DEF SelectAgent
  <1>2. CASE NewAgent
    <2>1. editor' = EditorOf(editor.agents, NoAgent, Blank, TRUE, editor.saving)
      BY <1>2, EditorUpdates, Zenon DEF NewAgent
    <2>2. ProperEditor(EditorOf(editor.agents, NoAgent, Blank, TRUE, editor.saving))
      BY BlankTypes, EditorIsProper
    <2> QED
      BY <2>1, <2>2
  <1>3. ASSUME NEW name \in Slugs, TypeName(name)
        PROVE  ProperEditor(editor')
    <2> DEFINE f == Definition(name, editor.form.prompt, editor.form.rest)
    <2>1. editor' = EditorOf(editor.agents, editor.selected, f, editor.isNew, editor.saving)
      BY <1>3, EditorUpdates, Zenon DEF TypeName
    <2>2. f \in AgentDefs /\ f.name = name /\ f.prompt = editor.form.prompt
      BY KeyFacts DEF Definition, AgentDefs
    <2> HIDE DEF f
    <2>3. editor.isNew /\ editor.form.prompt \in {"blank", "new"} /\ editor.selected = NoAgent
      BY <1>3 DEF TypeName, ProperEditor
    <2>4. ProperEditor(EditorOf(editor.agents, editor.selected, f, editor.isNew, editor.saving))
      BY <2>2, <2>3, EditorIsProper
    <2> QED
      BY <2>1, <2>4
  <1>4. CASE TypeTexts
    <2> DEFINE typed == IF editor.isNew THEN "new" ELSE Key(editor.selected.name)
               locked == ~editor.isNew /\ Key(editor.selected.name) \in Builtin
               rest == IF locked THEN editor.form.rest ELSE typed
               f == Definition(editor.form.name, typed, rest)
    <2>1. editor' = [editor EXCEPT !.form.prompt = typed, !.form.rest = rest]
      BY <1>4, Zenon DEF TypeTexts
    <2>2. editor.isNew \/ editor.selected # NoAgent
      BY <1>4 DEF TypeTexts
    <2>3. ~editor.isNew => /\ Proper(editor.selected) /\ Proper(editor.form)
                           /\ editor.form.name = editor.selected.name
                           /\ Key(editor.selected.name) \in Slugs
      BY <2>2, KeyFacts DEF ProperEditor, Proper
    <2>4. typed \in AgentTexts
      BY <2>3 DEF AgentTexts
    <2>5. rest \in AgentTexts
      BY <2>4 DEF AgentDefs
    <2>6. f.name = editor.form.name /\ f.prompt = typed /\ f.rest = rest
      BY DEF Definition
    <2>7. f \in AgentDefs
      BY <2>4, <2>5 DEF Definition, AgentDefs
    <2>8. ~editor.isNew => /\ typed = Key(editor.form.name)
                           /\ Key(editor.form.name) \in Builtin => rest = editor.form.rest
      BY <2>3
    <2>9. editor.isNew =>
            typed = "new" /\ editor.form.name \in Slugs \cup {""} /\ editor.selected = NoAgent
      BY DEF ProperEditor
    <2> HIDE DEF typed, rest, locked
    <2>10. editor' = EditorOf(editor.agents, editor.selected, f, editor.isNew, editor.saving)
      BY <2>1, EditorUpdates, ZenonT(30)
    <2> HIDE DEF f
    <2>11. ~editor.isNew => Proper(f)
      BY <2>3, <2>6, <2>7, <2>8 DEF Proper, TextsOf
    <2>12. ProperEditor(EditorOf(editor.agents, editor.selected, f, editor.isNew, editor.saving))
      BY <2>2, <2>3, <2>6, <2>7, <2>9, <2>11, EditorIsProper
    <2> QED
      BY <2>10, <2>12
  <1> QED
    BY <1>1, <1>2, <1>3, <1>4 DEF Slugs

-----------------------------------------------------------------------------
\* The page's calls.
FreshCall(op, name, body, stage) ==
    [op |-> op, name |-> name, body |-> body, stage |-> stage, answer |-> NoAgent, list |-> {}]

LEMMA FreshIsProper ==
    ASSUME NEW op \in {"list", "create", "update", "patch", "delete"}, NEW name \in AgentNames \cup {""},
           NEW body \in AgentDefs, NEW stage \in {"sent", "answered"},
           op = "list" <=> stage = "answered",
           op # "list" => name \in AgentNames,
           op \in {"create", "update", "patch"} => body.name = name,
           op = "create" => name \in Slugs /\ (name \notin Builtin => Proper(body)),
           op \in {"update", "patch"} => Proper(body)
    PROVE  ProperCall(FreshCall(op, name, body, stage))
  <1>1. PICK c : c = FreshCall(op, name, body, stage)
    OBVIOUS
  <1>2. /\ c.op = op /\ c.name = name /\ c.body = body /\ c.stage = stage /\ c.list = {}
    BY <1>1 DEF FreshCall
  <1>3. c \in AgentCalls
    BY <1>1, BlankTypes DEF FreshCall, AgentCalls
  <1>4. ProperCall(c)
    BY <1>2, <1>3 DEF ProperCall
  <1> QED
    BY <1>1, <1>4

\* A list may be asked for at any time.
LEMMA ReloadIsProper == ProperCall([ReloadCall EXCEPT !.stage = "answered"])
  <1>1. PICK no, em, an, se, op, nm : /\ no = NoAgent /\ em = {} /\ an = "answered" /\ se = "sent"
                                     /\ op = "list" /\ nm = ""
    OBVIOUS
  <1>2. ReloadCall = [op |-> op, name |-> nm, body |-> no, stage |-> se, answer |-> no, list |-> em]
    BY <1>1 DEF ReloadCall, Call
  <1>3. [[op |-> op, name |-> nm, body |-> no, stage |-> se, answer |-> no, list |-> em] EXCEPT !.stage = an]
          = [op |-> op, name |-> nm, body |-> no, stage |-> an, answer |-> no, list |-> em]
    OBVIOUS
  <1>4. [ReloadCall EXCEPT !.stage = "answered"] = FreshCall("list", "", NoAgent, "answered")
    BY <1>1, <1>2, <1>3, Zenon DEF FreshCall
  <1>5. ProperCall(FreshCall("list", "", NoAgent, "answered"))
    BY FreshIsProper, BlankTypes
  <1> QED
    BY <1>4, <1>5

LEMMA ClickSaveKeeps ==
    ASSUME AgentsInv, ClickSave
    PROVE  AgentsInv'
  <1>1. ProperEditor(editor) /\ AgentsOfServer
    BY DEF AgentsInv
  <1> USE EditorFields
  <1> DEFINE op == IF editor.isNew THEN "create"
                   ELSE IF Key(editor.selected.name) \in Builtin THEN "patch" ELSE "update"
  <1>2. /\ editor' = [editor EXCEPT !.saving = TRUE]
        /\ editor.isNew \/ editor.selected # NoAgent
        /\ editor.form.name # ""
        /\ agentCalls' = agentCalls \cup {Call(op, editor.form.name, editor.form)}
        /\ UNCHANGED <<definitions, agentFiles, spoiled>>
    BY DEF ClickSave, SendCall, Server
  <1>3. editor.form.name \in AgentNames
    BY <1>1, <1>2 DEF AgentDefs
  <1>4. editor.isNew => editor.form.name \in Slugs /\ (editor.form.name \notin Builtin => Proper(editor.form))
    <2>1. SUFFICES ASSUME editor.isNew
                   PROVE  /\ editor.form.name \in Slugs
                          /\ editor.form.name \notin Builtin => Proper(editor.form)
      OBVIOUS
    <2>2. editor.form.name \in Slugs /\ editor.form.prompt \in {"blank", "new"}
      BY <2>1, <1>1, <1>2 DEF ProperEditor
    <2>3. Key(editor.form.name) = editor.form.name
      BY <2>2, KeyFacts
    <2> QED
      BY <1>1, <1>3, <2>2, <2>3 DEF Proper, TextsOf
  <1>5. ~editor.isNew => Proper(editor.form)
    BY <1>1, <1>2 DEF ProperEditor
  <1>6. op \in {"create", "update", "patch"} /\ (op = "create" <=> editor.isNew)
    OBVIOUS
  <1> HIDE DEF op
  <1>7. ProperCall(FreshCall(op, editor.form.name, editor.form, "sent"))
    BY <1>1, <1>3, <1>4, <1>5, <1>6, FreshIsProper
  <1>8. Call(op, editor.form.name, editor.form) = FreshCall(op, editor.form.name, editor.form, "sent")
    BY DEF Call, FreshCall
  <1>9. \A c \in agentCalls' : ProperCall(c)
    BY <1>2, <1>7, <1>8 DEF AgentsInv
  <1>10. editor' = EditorOf(editor.agents, editor.selected, editor.form, editor.isNew, TRUE)
    BY <1>1, <1>2, EditorUpdates, Zenon
  <1>11. /\ editor.isNew => editor.form.name \in Slugs \cup {""} /\ editor.form.prompt \in {"blank", "new"}
         /\ editor.selected # NoAgent => /\ ~editor.isNew /\ Proper(editor.selected) /\ Proper(editor.form)
                                         /\ editor.form.name = editor.selected.name
    BY <1>1 DEF ProperEditor
  <1>12. ProperEditor(EditorOf(editor.agents, editor.selected, editor.form, editor.isNew, TRUE))
    BY <1>1, <1>11, EditorIsProper
  <1> QED
    BY <1>1, <1>2, <1>9, <1>10, <1>12 DEF AgentsInv, AgentsOfServer

LEMMA ClickDeleteKeeps ==
    ASSUME AgentsInv, ClickDelete
    PROVE  AgentsInv'
  <1>1. ProperEditor(editor) /\ AgentsOfServer
    BY DEF AgentsInv
  <1>2. /\ editor.selected # NoAgent /\ editor' = editor
        /\ agentCalls' = agentCalls \cup {Call("delete", editor.selected.name, NoAgent)}
        /\ UNCHANGED <<definitions, agentFiles, spoiled>>
    BY DEF ClickDelete, SendCall, Server
  <1>3. editor.selected.name \in AgentNames
    BY <1>1, <1>2 DEF ProperEditor, Proper
  <1>4. ProperCall(FreshCall("delete", editor.selected.name, NoAgent, "sent"))
    BY <1>3, FreshIsProper, BlankTypes
  <1>5. Call("delete", editor.selected.name, NoAgent) = FreshCall("delete", editor.selected.name, NoAgent, "sent")
    BY DEF Call, FreshCall
  <1> QED
    BY <1>1, <1>2, <1>4, <1>5 DEF AgentsInv, AgentsOfServer

LEMMA ReloadKeeps ==
    ASSUME AgentsInv, Reload
    PROVE  AgentsInv'
  BY ReloadIsProper DEF Reload, SendCall, Server, AgentsInv, AgentsOfServer

\* The server handles a call: what it answers is as proper as its registry.
LEMMA ServedKeeps ==
    ASSUME AgentsInv, NEW c \in agentCalls, NEW wrote \in BOOLEAN, Served(c, wrote)
    PROVE  AgentsInv'
  <1>1. ProperCall(c) /\ AgentsOfServer /\ c.stage = "sent"
    BY DEF AgentsInv, Served
  <1>2. PICK ok \in BOOLEAN :
          /\ CASE c.op = "create" -> CreateAgent(c.body, ok, wrote)
               [] c.op = "update" -> UpdateAgent(c.name, c.body, ok, wrote)
               [] c.op = "patch"  -> PatchAgent(c.name, c.body, {"prompt"}, ok, wrote)
               [] c.op = "delete" -> DeleteAgent(c.name, ok, wrote)
          /\ agentCalls' = (agentCalls \ {c}) \cup
               {[c EXCEPT !.stage = IF ok THEN "answered" ELSE "failed",
                          !.answer = IF ok /\ c.op # "delete" THEN definitions'[Key(c.name)] ELSE NoAgent]}
    BY Zenon DEF Served
  <1>3. c.op \in {"create", "update", "patch", "delete"} /\ c.name \in AgentNames /\ c \in AgentCalls
    BY <1>1 DEF ProperCall, AgentCalls
  <1>4. c.body \in AgentDefs /\ c.list \in SUBSET AgentDefs
    BY <1>3 DEF AgentCalls
  <1>5. AgentsOfServer' /\ (ok /\ c.op # "delete" => Proper(definitions'[Key(c.name)]))
    <2>1. CASE c.op = "create"
      <3>1. CreateAgent(c.body, ok, wrote)
        BY <1>2, <2>1
      <3>2. c.body.name = c.name /\ c.name \in Slugs /\ (c.name \notin Builtin => Proper(c.body))
        BY <1>1, <2>1 DEF ProperCall
      <3>3. Key(c.name) = c.name
        BY <3>2, KeyFacts
      <3> QED
        BY <1>1, <1>3, <3>1, <3>2, <3>3, CreateKeeps
    <2>2. CASE c.op = "update"
      <3>1. UpdateAgent(c.name, c.body, ok, wrote)
        BY <1>2, <2>2
      <3>2. c.body.name = c.name /\ Proper(c.body)
        BY <1>1, <2>2 DEF ProperCall
      <3> QED
        BY <1>1, <1>3, <3>1, <3>2, UpdateKeeps
    <2>3. CASE c.op = "patch"
      <3>1. PatchAgent(c.name, c.body, {"prompt"}, ok, wrote)
        BY <1>2, <2>3
      <3>2. c.body.name = c.name /\ Proper(c.body)
        BY <1>1, <2>3 DEF ProperCall
      <3>3. c.body.prompt \in TextsOf(Key(c.name))
        BY <3>2 DEF Proper
      <3> QED
        BY <1>1, <1>3, <1>4, <3>1, <3>3, PatchKeeps
    <2>4. CASE c.op = "delete"
      <3>1. DeleteAgent(c.name, ok, wrote)
        BY <1>2, <2>4
      <3> QED
        BY <1>1, <1>3, <2>4, <3>1, DeleteKeeps
    <2> QED
      BY <1>3, <2>1, <2>2, <2>3, <2>4
  <1> DEFINE st == IF ok THEN "answered" ELSE "failed"
             an == IF ok /\ c.op # "delete" THEN definitions'[Key(c.name)] ELSE NoAgent
  <1>6. agentCalls' = (agentCalls \ {c}) \cup {[c EXCEPT !.stage = st, !.answer = an]}
    BY <1>2, Zenon
  <1>7. st \in {"answered", "failed"} /\ (st = "failed" <=> ~ok)
    OBVIOUS
  <1>8. an \in AgentDefs /\ (ok /\ c.op # "delete" => Proper(an))
    BY <1>5, BlankTypes DEF Proper
  <1> HIDE DEF st, an
  <1>9. ProperCall(PageStage(c, st, an, c.list))
    BY <1>1, <1>3, <1>4, <1>7, <1>8, StageIsProper DEF ProperCall
  <1>10. [c EXCEPT !.stage = st, !.answer = an] = PageStage(c, st, an, c.list)
    BY <1>3, CallUpdates, Zenon
  <1>11. \A x \in agentCalls' : ProperCall(x)
    BY <1>6, <1>9, <1>10 DEF AgentsInv
  <1>12. editor' = editor
    BY DEF Served
  <1> QED
    BY <1>5, <1>11, <1>12 DEF AgentsInv

\* An answer of the server reaches the page, or its list does.
LEMMA RefusedKeeps ==
    ASSUME AgentsInv, NEW c \in agentCalls, Refused(c)
    PROVE  AgentsInv'
  <1>1. ProperEditor(editor)
    BY DEF AgentsInv
  <1> USE EditorFields
  <1> DEFINE v == editor.saving /\ c.op = "delete"
  <1>2. editor' = [editor EXCEPT !.saving = v]
    BY DEF Refused
  <1>3. /\ editor.isNew => editor.form.name \in Slugs \cup {""} /\ editor.form.prompt \in {"blank", "new"}
        /\ editor.selected # NoAgent => /\ ~editor.isNew /\ Proper(editor.selected) /\ Proper(editor.form)
                                        /\ editor.form.name = editor.selected.name
    BY <1>1 DEF ProperEditor
  <1>4. v \in BOOLEAN
    BY <1>1
  <1> HIDE DEF v
  <1>5. editor' = EditorOf(editor.agents, editor.selected, editor.form, editor.isNew, v)
    BY <1>1, <1>2, EditorUpdates
  <1>6. ProperEditor(EditorOf(editor.agents, editor.selected, editor.form, editor.isNew, v))
    BY <1>1, <1>3, <1>4, EditorIsProper
  <1> QED
    BY <1>5, <1>6 DEF Refused, Server, AgentsInv, AgentsOfServer

LEMMA ContinuedKeeps ==
    ASSUME AgentsInv, NEW c \in agentCalls, Continued(c)
    PROVE  AgentsInv'
  <1>1. ProperEditor(editor) /\ ProperCall(c)
    BY DEF AgentsInv
  <1> USE EditorFields
  <1>2. ProperEditor(editor')
    <2>1. CASE c.op = "delete"
      <3>1. editor' = EditorOf(editor.agents, NoAgent, editor.form, FALSE, editor.saving)
        BY <1>1, <2>1, EditorUpdates, Zenon DEF Continued
      <3>2. ProperEditor(EditorOf(editor.agents, NoAgent, editor.form, FALSE, editor.saving))
        BY <1>1, BlankTypes, EditorIsProper
      <3> QED
        BY <3>1, <3>2
    <2>2. CASE c.op # "delete"
      BY <1>1, <2>2 DEF Continued
    <2> QED
      BY <2>1, <2>2
  <1>3. ProperCall([c EXCEPT !.stage = "listing"])
    <2>1. [c EXCEPT !.stage = "listing"] = PageStage(c, "listing", c.answer, c.list)
      BY <1>1, CallUpdates, Zenon DEF ProperCall
    <2>2. c.answer \in AgentDefs /\ c.list \in SUBSET AgentDefs /\ c.stage = "answered"
      BY <1>1 DEF ProperCall, AgentCalls, Continued
    <2>3. ProperCall(PageStage(c, "listing", c.answer, c.list))
      BY <1>1, <2>2, StageIsProper DEF ProperCall
    <2> QED
      BY <2>1, <2>3
  <1>4. agentCalls' = (agentCalls \ {c}) \cup {[c EXCEPT !.stage = "listing"]}
    BY DEF Continued
  <1>5. \A x \in agentCalls' : ProperCall(x)
    BY <1>3, <1>4 DEF AgentsInv
  <1> QED
    BY <1>2, <1>5 DEF Continued, Server, AgentsInv, AgentsOfServer

LEMMA ListAgentsKeeps ==
    ASSUME AgentsInv, NEW c \in agentCalls, ListAgents(c)
    PROVE  AgentsInv'
  <1> DEFINE l == {definitions[key] : key \in DOMAIN definitions}
  <1>1. ProperCall(c) /\ c.stage = "listing"
    BY DEF AgentsInv, ListAgents
  <1>2. \A d \in l : Proper(d)
    BY DEF AgentsInv, AgentsOfServer, ProperRegistry
  <1>3. l \in SUBSET AgentDefs
    BY <1>2 DEF Proper
  <1>4. agentCalls' = (agentCalls \ {c}) \cup {[c EXCEPT !.stage = "listed", !.list = l]}
    BY DEF ListAgents
  <1> HIDE DEF l
  <1>5. [c EXCEPT !.stage = "listed", !.list = l] = PageStage(c, "listed", c.answer, l)
    <2>1. c \in AgentCalls
      BY <1>1 DEF ProperCall
    <2> QED
      BY <2>1, ListUpdate, Zenon
  <1>6. c.answer \in AgentDefs /\ (c.op \in {"create", "update", "patch"} => Proper(c.answer))
    BY <1>1 DEF ProperCall, AgentCalls
  <1>7. ProperCall(PageStage(c, "listed", c.answer, l))
    BY <1>1, <1>2, <1>3, <1>6, StageIsProper
  <1>8. \A x \in agentCalls' : ProperCall(x)
    BY <1>4, <1>5, <1>7 DEF AgentsInv
  <1> QED
    BY <1>8 DEF ListAgents, Server, AgentsInv, AgentsOfServer

LEMMA ListedKeeps ==
    ASSUME AgentsInv, NEW c \in agentCalls, Listed(c)
    PROVE  AgentsInv'
  <1>1. ProperEditor(editor) /\ ProperCall(c) /\ c.stage \in {"listed", "lost"}
    BY DEF AgentsInv, Listed
  <1> USE EditorFields
  <1> DEFINE seen == IF c.list = {} THEN editor ELSE [editor EXCEPT !.agents = c.list]
             agents == IF c.list = {} THEN editor.agents ELSE c.list
  <1>2. c.list \in SUBSET AgentDefs /\ \A d \in c.list : Proper(d)
    BY <1>1 DEF ProperCall, AgentCalls
  <1>3. agents \in SUBSET AgentDefs /\ \A d \in agents : Proper(d)
    BY <1>1, <1>2
  <1>4. seen = EditorOf(agents, editor.selected, editor.form, editor.isNew, editor.saving)
    <2>1. editor = EditorOf(editor.agents, editor.selected, editor.form, editor.isNew, editor.saving)
      BY <1>1 DEF Editors, EditorOf
    <2> QED
      BY <1>1, <2>1, EditorUpdates, Zenon
  <1>5. /\ editor.isNew => editor.form.name \in Slugs \cup {""} /\ editor.form.prompt \in {"blank", "new"}
        /\ editor.selected # NoAgent => /\ ~editor.isNew /\ Proper(editor.selected) /\ Proper(editor.form)
                                        /\ editor.form.name = editor.selected.name
    BY <1>1 DEF ProperEditor
  <1>6. editor' = IF c.op \in {"list", "delete"} THEN seen
                  ELSE [Selecting(seen, c.answer) EXCEPT !.saving = FALSE]
    BY Zenon DEF Listed
  <1> HIDE DEF seen, agents
  <1>7. ProperEditor(seen)
    BY <1>1, <1>3, <1>4, <1>5, EditorIsProper
  <1>8. ProperEditor(editor')
    <2>1. CASE c.op \in {"list", "delete"}
      BY <1>6, <1>7, <2>1
    <2>2. CASE c.op \notin {"list", "delete"}
      <3>1. Proper(c.answer) /\ c.answer \in AgentDefs
        BY <1>1, <2>2 DEF ProperCall, AgentCalls
      <3>2. seen \in Editors /\ seen.agents = agents
        BY <1>3, <1>4, <1>1, Zenon DEF EditorOf, Editors, ProperEditor
      <3>3. PICK e : e = Selecting(seen, c.answer)
        OBVIOUS
      <3>4. e = EditorOf(agents, c.answer, c.answer, FALSE, seen.saving) /\ seen.saving \in BOOLEAN
        BY <3>2, <3>3, EditorUpdates DEF Editors
      <3>5. e \in Editors /\ e.agents = agents /\ e.selected = c.answer /\ e.form = c.answer /\ e.isNew = FALSE
        BY <1>3, <3>1, <3>4 DEF EditorOf, Editors
      <3>6. [e EXCEPT !.saving = FALSE] = EditorOf(agents, c.answer, c.answer, FALSE, FALSE)
        <4>1. PICK no : no = FALSE
          OBVIOUS
        <4>2. [e EXCEPT !.saving = no] = EditorOf(e.agents, e.selected, e.form, e.isNew, no)
          BY <3>5, EditorUpdates
        <4> QED
          BY <3>5, <4>1, <4>2, Zenon
      <3>7. ProperEditor(EditorOf(agents, c.answer, c.answer, FALSE, FALSE))
        BY <1>3, <3>1, EditorIsProper
      <3> QED
        BY <1>6, <2>2, <3>3, <3>6, <3>7
    <2> QED
      BY <2>1, <2>2
  <1> QED
    BY <1>8 DEF Listed, Server, AgentsInv, AgentsOfServer

\* The server starts again: what it reads is what it had.
LEMMA ServerRestartsKeeps ==
    ASSUME AgentsInv, ServerRestarts
    PROVE  AgentsInv'
  <1>1. /\ definitions' = Started(agentFiles) /\ agentFiles' = agentFiles /\ spoiled' = spoiled
        /\ editor' = editor
    BY DEF ServerRestarts
  <1>2. ProperFiles(agentFiles) /\ FilesAgree(agentFiles, definitions, spoiled)
    BY DEF AgentsInv, AgentsOfServer
  <1>3. ProperRegistry(definitions')
    BY <1>1, <1>2, StartedFacts
  <1>4. ASSUME NEW slug \in Custom, OwnFileOnly(slug, agentFiles)
        PROVE  Kept(slug, agentFiles, definitions', spoiled)
    <2>1. /\ slug \in DOMAIN definitions' <=> slug \in Readable(agentFiles)
          /\ slug \in Readable(agentFiles) => definitions'[slug] = agentFiles[slug]
      BY <1>1, <1>2, <1>4, StartedFacts
    <2>2. Kept(slug, agentFiles, definitions, spoiled)
      BY <1>2, <1>4 DEF FilesAgree
    <2>3. slug \in Readable(agentFiles) => agentFiles[slug].name = slug
      BY <1>2 DEF ProperFiles, Readable
    <2> QED
      BY <2>1, <2>2, <2>3 DEF Kept, Readable
  <1>5. FilesAgree(agentFiles, definitions', spoiled)
    BY <1>4 DEF FilesAgree
  <1>6. ASSUME NEW x \in agentCalls'
        PROVE  ProperCall(x)
    <2>1. PICK c \in agentCalls :
            x = IF c.stage = "sent" THEN [c EXCEPT !.stage = "failed"]
                ELSE IF c.stage = "listing" THEN [c EXCEPT !.stage = "lost"] ELSE c
      BY <1>6, Zenon DEF ServerRestarts
    <2>2. ProperCall(c) /\ c \in AgentCalls /\ c.answer \in AgentDefs /\ c.list \in SUBSET AgentDefs
      BY DEF AgentsInv, ProperCall, AgentCalls
    <2>3. CASE c.stage = "sent"
      <3>1. x = PageStage(c, "failed", c.answer, c.list)
        BY <2>1, <2>2, <2>3, CallUpdates, Zenon
      <3>2. ProperCall(PageStage(c, "failed", c.answer, c.list))
        BY <2>2, StageIsProper DEF ProperCall
      <3> QED
        BY <3>1, <3>2
    <2>4. CASE c.stage = "listing"
      <3>1. x = PageStage(c, "lost", c.answer, c.list)
        BY <2>1, <2>2, <2>4, CallUpdates
      <3>2. ProperCall(PageStage(c, "lost", c.answer, c.list))
        BY <2>2, <2>4, StageIsProper DEF ProperCall
      <3> QED
        BY <3>1, <3>2
    <2>5. CASE c.stage \notin {"sent", "listing"}
      BY <2>1, <2>2, <2>5
    <2> QED
      BY <2>3, <2>4, <2>5
  <1> QED
    BY <1>1, <1>2, <1>3, <1>5, <1>6 DEF AgentsInv, AgentsOfServer

LEMMA EditorStarts == EditorInit => AgentsInv
  <1> SUFFICES ASSUME EditorInit
               PROVE  AgentsInv
    OBVIOUS
  <1>1. ProperFiles(agentFiles) /\ DOMAIN agentFiles = {}
    BY DEF EditorInit, ProperFiles, IsMap
  <1>2. ProperRegistry(definitions)
    BY <1>1, StartedFacts DEF EditorInit
  <1>3. FilesAgree(agentFiles, definitions, spoiled)
    BY <1>1, StartedFacts DEF EditorInit, FilesAgree, Kept, Readable
  <1>4. editor = EditorOf({Shipped(name) : name \in Builtin}, NoAgent, Blank, FALSE, FALSE)
    BY DEF EditorInit, EditorOf
  <1>5. ProperEditor(EditorOf({Shipped(name) : name \in Builtin}, NoAgent, Blank, FALSE, FALSE))
    <2>1. PICK a : a = {Shipped(name) : name \in Builtin}
      OBVIOUS
    <2>2. \A d \in a : Proper(d)
      BY <2>1, ShippedIsProper
    <2>3. a \in SUBSET AgentDefs
      BY <2>2 DEF Proper
    <2>4. ProperEditor(EditorOf(a, NoAgent, Blank, FALSE, FALSE))
      BY <2>2, <2>3, BlankTypes, EditorIsProper
    <2> QED
      BY <2>1, <2>4
  <1>6. \A c \in agentCalls : ProperCall(c)
    BY DEF EditorInit
  <1> QED
    BY <1>1, <1>2, <1>3, <1>4, <1>5, <1>6 DEF AgentsInv, AgentsOfServer

\* For any built-in agents, names and calls of the page and of other clients, and however they
\* interleave with restarts and failing writes: no text lands in an agent it was not typed for,
\* and a restart neither loses nor revives an agent whose last write did not fail.
THEOREM AgentsStay == EditorSpec => []AgentsAreKept
  <1>1. EditorInit => AgentsInv
    BY EditorStarts
  <1>2. AgentsInv /\ [EditorNext]_agentVars => AgentsInv'
    <2> SUFFICES ASSUME AgentsInv, [EditorNext]_agentVars
                 PROVE  AgentsInv'
      OBVIOUS
    <2>1. CASE OtherClient
      BY <2>1, OtherClientKeeps
    <2>2. ASSUME PageOnly, ProperEditor(editor')
          PROVE  AgentsInv'
      BY <2>2 DEF PageOnly, Server, AgentsInv, AgentsOfServer
    <2>3. ASSUME NEW d \in editor.agents, SelectAgent(d), PageOnly
          PROVE  AgentsInv'
      BY <2>2, <2>3, FormKeeps DEF AgentsInv
    <2>4. CASE NewAgent /\ PageOnly
      BY <2>2, <2>4, FormKeeps DEF AgentsInv
    <2>5. ASSUME NEW name \in Builtin \cup Custom, TypeName(name), PageOnly
          PROVE  AgentsInv'
      BY <2>2, <2>5, FormKeeps DEF AgentsInv
    <2>6. CASE TypeTexts /\ PageOnly
      BY <2>2, <2>6, FormKeeps DEF AgentsInv
    <2>7. CASE ClickSave
      BY <2>7, ClickSaveKeeps
    <2>8. CASE ClickDelete
      BY <2>8, ClickDeleteKeeps
    <2>9. CASE Reload
      BY <2>9, ReloadKeeps
    <2>10. ASSUME NEW c \in agentCalls,
                  (\E wrote \in BOOLEAN : Served(c, wrote)) \/ Refused(c) \/ Continued(c)
                  \/ ListAgents(c) \/ Listed(c)
           PROVE  AgentsInv'
      BY <2>10, ServedKeeps, RefusedKeeps, ContinuedKeeps, ListAgentsKeeps, ListedKeeps
    <2>11. CASE ServerRestarts
      BY <2>11, ServerRestartsKeeps
    <2>12. CASE UNCHANGED agentVars
      BY <2>12 DEF agentVars, AgentsInv, AgentsOfServer
    <2> QED
      BY <2>1, <2>3, <2>4, <2>5, <2>6, <2>7, <2>8, <2>9, <2>10, <2>11, <2>12 DEF EditorNext
  <1>3. AgentsInv => AgentsAreKept
    <2> SUFFICES ASSUME AgentsInv
                 PROVE  AgentsAreKept
      OBVIOUS
    <2>1. TextsStayTheirs
      BY DEF AgentsInv, AgentsOfServer, ProperRegistry, Proper, TextsOf, TextsStayTheirs
    <2>2. RestartsKeepAgents
      <3>1. ProperFiles(agentFiles) /\ FilesAgree(agentFiles, definitions, spoiled)
        BY DEF AgentsInv, AgentsOfServer
      <3>2. \A key \in Builtin : Started(agentFiles)[key] = Shipped(key)
        BY <3>1, StartedFacts
      <3>3. ASSUME NEW slug \in Custom \ spoiled, OwnFileOnly(slug, agentFiles)
            PROVE  /\ slug \in DOMAIN Started(agentFiles) <=> slug \in DOMAIN definitions
                   /\ slug \in DOMAIN Started(agentFiles) => Started(agentFiles)[slug] = definitions[slug]
        <4>1. Kept(slug, agentFiles, definitions, spoiled)
          BY <3>1, <3>3 DEF FilesAgree
        <4> QED
          BY <3>1, <3>3, <4>1, StartedFacts DEF Kept, Readable
      <3> QED
        BY <3>2, <3>3, Zenon DEF RestartsKeepAgents
    <2> QED
      BY <2>1, <2>2 DEF AgentsAreKept
  <1> QED
    BY <1>1, <1>2, <1>3, PTL DEF EditorSpec

-----------------------------------------------------------------------------
(* Memory. *)

\* An index has entries only from a scan, and the files had each of them when they were read.
CurrentIndex(ix) ==
    /\ ix \in [entries : SUBSET Lines, scanned : BOOLEAN, lastScan : Nat, read : Nat]
    /\ ix.lastScan <= minute
    /\ \A l \in ix.entries : ix.scanned /\ ix.read <= removedAt[l]

FilesOfMemory ==
    /\ minute \in Nat /\ memoryFile \subseteq Lines /\ removedAt \in [Lines -> Nat]
    /\ \A l \in Lines : removedAt[l] <= minute
    /\ \A l \in memoryFile : removedAt[l] = minute

IndicesCurrent ==
    /\ CurrentIndex(indexFile)
    /\ DOMAIN directory = Spellings
    /\ directory = [d \in Spellings |-> directory[d]]
    /\ \A d \in Spellings : CurrentIndex(directory[d].index)

PromptCurrent ==
    /\ prompt.at \in Nat /\ CurrentIndex(prompt.index)
    /\ \A l \in prompt.index.entries : prompt.at < prompt.index.lastScan + RescanAfter

\* What was counted as saved is in the file as long as it is whole, and in the index of the
\* manager, which is loaded before anything is written.
SignalsKept ==
    /\ scoped = [s \in Scopes |-> scoped[s]] /\ scopedFile = [s \in Scopes |-> scopedFile[s]]
    /\ counted = [s \in Scopes |-> counted[s]]
    /\ \A s \in Scopes :
          /\ s \in cutOff => scoped[s].loaded
          /\ s \notin cutOff => counted[s] \subseteq scopedFile[s]
          /\ scoped[s].loaded => counted[s] \subseteq scoped[s].entries

MemoryInv == FilesOfMemory /\ IndicesCurrent /\ PromptCurrent /\ SignalsKept

LEMMA EmptyIsCurrent ==
    ASSUME minute \in Nat
    PROVE  CurrentIndex(EmptyIndex) /\ CurrentIndex(NotLoaded.index)
  <1>1. EmptyIndex.entries = {} /\ EmptyIndex.scanned \in BOOLEAN /\ EmptyIndex.lastScan = 0
        /\ EmptyIndex.read = 0
        /\ EmptyIndex \in [entries : SUBSET Lines, scanned : BOOLEAN, lastScan : Nat, read : Nat]
    BY DEF EmptyIndex
  <1>2. NotLoaded.index = EmptyIndex
    BY DEF NotLoaded
  <1> QED
    BY <1>1, <1>2 DEF CurrentIndex

\* What was current stays so as time goes on.
LEMMA StaysCurrent ==
    ASSUME NEW ix, CurrentIndex(ix), minute \in Nat, minute' \in Nat, minute <= minute',
           removedAt \in [Lines -> Nat], removedAt' \in [Lines -> Nat],
           \A l \in Lines : removedAt[l] <= removedAt'[l]
    PROVE  /\ ix.lastScan <= minute'
           /\ \A l \in ix.entries : ix.scanned /\ ix.read <= removedAt'[l]
  BY DEF CurrentIndex

LEMMA TimeKeeps ==
    ASSUME MemoryInv, minute' \in Nat, minute <= minute', removedAt' \in [Lines -> Nat],
           \A l \in Lines : removedAt[l] <= removedAt'[l], UNCHANGED <<indexFile, directory, prompt>>
    PROVE  IndicesCurrent' /\ PromptCurrent'
  <1>1. /\ minute \in Nat /\ removedAt \in [Lines -> Nat] /\ IndicesCurrent /\ PromptCurrent
    BY DEF MemoryInv, FilesOfMemory
  <1>2. CurrentIndex(indexFile)'
    BY <1>1, StaysCurrent DEF IndicesCurrent, CurrentIndex
  <1>3. ASSUME NEW d \in Spellings
        PROVE  CurrentIndex(directory[d].index)'
    BY <1>1, StaysCurrent DEF IndicesCurrent, CurrentIndex
  <1>4. IndicesCurrent'
    BY <1>1, <1>2, <1>3 DEF IndicesCurrent
  <1>5. PromptCurrent'
    <2>1. CurrentIndex(prompt.index)'
      BY <1>1, StaysCurrent DEF PromptCurrent, CurrentIndex
    <2> QED
      BY <1>1, <2>1 DEF PromptCurrent
  <1> QED
    BY <1>4, <1>5

LEMMA EditFileKeeps == ASSUME MemoryInv, EditFile PROVE MemoryInv'
  <1>1. PICK lines \in SUBSET Lines :
          /\ memoryFile' = lines
          /\ removedAt' = [l \in Lines |-> IF l \in memoryFile \cup lines THEN minute ELSE removedAt[l]]
    BY DEF EditFile
  <1>2. FilesOfMemory
    BY DEF MemoryInv
  <1>3. minute' = minute /\ UNCHANGED <<indexFile, directory, prompt, scoped, scopedFile, cutOff, counted>>
    BY DEF EditFile
  <1>4. FilesOfMemory' /\ \A l \in Lines : removedAt[l] <= removedAt'[l]
    BY <1>1, <1>2, <1>3 DEF FilesOfMemory
  <1>5. IndicesCurrent' /\ PromptCurrent'
    BY <1>2, <1>3, <1>4, TimeKeeps DEF FilesOfMemory
  <1> QED
    BY <1>3, <1>4, <1>5 DEF MemoryInv, SignalsKept

LEMMA LaterKeeps == ASSUME MemoryInv, Later PROVE MemoryInv'
  <1>1. /\ minute' = minute + 1 /\ memoryFile' = memoryFile
        /\ removedAt' = [l \in Lines |-> IF l \in memoryFile THEN minute + 1 ELSE removedAt[l]]
        /\ UNCHANGED <<indexFile, directory, prompt, scoped, scopedFile, cutOff, counted>>
    BY DEF Later
  <1>2. FilesOfMemory
    BY DEF MemoryInv
  <1>3. FilesOfMemory' /\ \A l \in Lines : removedAt[l] <= removedAt'[l]
    BY <1>1, <1>2 DEF FilesOfMemory
  <1>4. IndicesCurrent' /\ PromptCurrent'
    BY <1>1, <1>2, <1>3, TimeKeeps DEF FilesOfMemory
  <1> QED
    BY <1>1, <1>3, <1>4 DEF MemoryInv, SignalsKept

\* A turn scans again when the last scan is as old as RescanAfter: what it finds is then current.
LEMMA ScannedIsCurrent ==
    ASSUME FilesOfMemory, NEW ix, CurrentIndex(ix), NEW new \in Scanned(ix)
    PROVE  CurrentIndex(new) /\ \A l \in new.entries : minute < new.lastScan + RescanAfter
  <1>1. CASE ~ScanDue(ix)
    <2>1. new = ix
      BY <1>1 DEF Scanned
    <2>2. minute \in Nat /\ ix.lastScan \in Nat /\ minute - ix.lastScan < 2
      BY <1>1 DEF ScanDue, CurrentIndex, FilesOfMemory, RescanAfter
    <2>3. minute < ix.lastScan + RescanAfter
      BY <2>2 DEF RescanAfter
    <2> QED
      BY <2>1, <2>3
  <1>2. CASE ScanDue(ix)
    <2>1. PICK lines \in SUBSET memoryFile :
             new = [entries |-> lines, scanned |-> TRUE, lastScan |-> minute, read |-> minute]
      BY <1>2 DEF Scanned, InFiles
    <2>2. /\ new.entries = lines /\ new.scanned \in BOOLEAN /\ new.scanned /\ new.lastScan = minute
          /\ new.read = minute
      BY <2>1
    <2>3. minute \in Nat /\ memoryFile \subseteq Lines /\ \A l \in memoryFile : removedAt[l] = minute
      BY DEF FilesOfMemory
    <2>4. CurrentIndex(new)
      <3>1. new \in [entries : SUBSET Lines, scanned : BOOLEAN, lastScan : Nat, read : Nat]
        BY <2>1, <2>3
      <3> QED
        BY <2>2, <2>3, <3>1 DEF CurrentIndex
    <2>5. minute < new.lastScan + RescanAfter
      BY <2>2, <2>3 DEF RescanAfter
    <2> QED
      BY <2>4, <2>5
  <1> QED
    BY <1>1, <1>2

\* A scan that fails leaves the entries, and so what was in the files when they were read.
LEMMA TriedIsCurrent ==
    ASSUME FilesOfMemory, NEW ix, CurrentIndex(ix),
           NEW new, new = [ix EXCEPT !.scanned = TRUE, !.lastScan = minute]
    PROVE  CurrentIndex(new)
  <1>1. ix \in [entries : SUBSET Lines, scanned : BOOLEAN, lastScan : Nat, read : Nat] /\ minute \in Nat
    BY DEF CurrentIndex, FilesOfMemory
  <1>2. /\ new \in [entries : SUBSET Lines, scanned : BOOLEAN, lastScan : Nat, read : Nat]
        /\ new.entries = ix.entries /\ new.scanned = TRUE /\ new.lastScan = minute /\ new.read = ix.read
    BY <1>1
  <1> QED
    BY <1>1, <1>2 DEF CurrentIndex

LEMMA KeepKeeps ==
    ASSUME FilesOfMemory, IndicesCurrent, NEW d \in Spellings, NEW ix, CurrentIndex(ix), Keep(d, ix),
           CurrentIndex(indexFile'), UNCHANGED <<minute, removedAt>>
    PROVE  IndicesCurrent'
  <1>1. PICK o : o = [loaded |-> TRUE, index |-> ix]
    OBVIOUS
  <1>2. directory' = [directory EXCEPT ![d] = o] /\ o.index = ix
    BY <1>1 DEF Keep
  <1>3. \A x \in Spellings : directory'[x] = IF x = d THEN o ELSE directory[x]
    BY <1>2 DEF IndicesCurrent
  <1>4. DOMAIN directory' = Spellings /\ directory' = [x \in Spellings |-> directory'[x]]
    BY <1>2 DEF IndicesCurrent
  <1>5. \A x \in Spellings : CurrentIndex(directory'[x].index)
    BY <1>2, <1>3 DEF IndicesCurrent
  <1>6. \A x \in Spellings : CurrentIndex(directory'[x].index) <=> CurrentIndex(directory[x].index)'
    BY DEF CurrentIndex
  <1>7. CurrentIndex(indexFile)'
    BY DEF CurrentIndex
  <1> QED
    BY <1>4, <1>5, <1>6, <1>7 DEF IndicesCurrent

LEMMA TellKeeps ==
    ASSUME FilesOfMemory, NEW ix, CurrentIndex(ix), Tell(ix), UNCHANGED <<minute, removedAt>>,
           \A l \in ix.entries : minute < ix.lastScan + RescanAfter
    PROVE  PromptCurrent'
  <1>1. prompt'.at = minute /\ prompt'.index = ix
    BY DEF Tell
  <1>2. CurrentIndex(prompt.index)'
    BY <1>1 DEF CurrentIndex
  <1> QED
    BY <1>1, <1>2 DEF PromptCurrent, FilesOfMemory

\* Every scope's index is loaded.
LEMMA BuiltKeeps ==
    ASSUME SignalsKept, scoped' = BuiltContext, UNCHANGED <<scopedFile, cutOff, counted>>
    PROVE  SignalsKept'
  <1>1. \A s \in Scopes : scoped'[s].entries = ScopedIndex(s) /\ scoped'[s].loaded
    BY DEF BuiltContext, Loaded
  <1>2. \A s \in Scopes : counted[s] \subseteq ScopedIndex(s)
    BY DEF SignalsKept, ScopedIndex
  <1>3. scoped' = [s \in Scopes |-> scoped'[s]]
    BY Zenon DEF BuiltContext
  <1> QED
    BY <1>1, <1>2, <1>3 DEF SignalsKept

LEMMA RememberKeeps ==
    ASSUME MemoryInv, NEW d \in Spellings, Remember(d) \/ RememberFails(d)
    PROVE  MemoryInv'
  <1>1. FilesOfMemory /\ IndicesCurrent /\ SignalsKept
    BY DEF MemoryInv
  <1>2. CurrentIndex(Index(d))
    BY <1>1 DEF IndicesCurrent, Index
  <1>3. /\ scoped' = BuiltContext
        /\ UNCHANGED <<minute, memoryFile, removedAt, scopedFile, cutOff, counted>>
    BY DEF Remember, RememberFails
  <1>4. FilesOfMemory'
    BY <1>1, <1>3 DEF FilesOfMemory
  <1>5. SignalsKept'
    BY <1>1, <1>3, BuiltKeeps
  <1>6. minute \in Nat
    BY <1>1 DEF FilesOfMemory
  <1>7. CASE Remember(d)
    <2>1. PICK ix \in Scanned(Index(d)) : Keep(d, ix) /\ indexFile' = ix /\ Tell(ix)
      BY <1>7 DEF Remember
    <2>2. CurrentIndex(ix) /\ \A l \in ix.entries : minute < ix.lastScan + RescanAfter
      BY <1>1, <1>2, ScannedIsCurrent
    <2>3. IndicesCurrent'
      BY <1>1, <1>3, <2>1, <2>2, KeepKeeps
    <2>4. PromptCurrent'
      BY <1>1, <1>3, <2>1, <2>2, TellKeeps
    <2> QED
      BY <1>4, <1>5, <2>3, <2>4 DEF MemoryInv
  <1>8. CASE RememberFails(d)
    <2>1. CurrentIndex(EmptyIndex) /\ EmptyIndex.entries = {}
      BY <1>6, EmptyIsCurrent DEF EmptyIndex
    <2>2. PromptCurrent'
      BY <1>1, <1>3, <1>8, <2>1, TellKeeps DEF RememberFails
    <2>3. ASSUME Keep(d, [Index(d) EXCEPT !.scanned = TRUE, !.lastScan = minute]), UNCHANGED indexFile
          PROVE  IndicesCurrent'
      <3>1. PICK ix : ix = [Index(d) EXCEPT !.scanned = TRUE, !.lastScan = minute]
        OBVIOUS
      <3>2. CurrentIndex(ix)
        BY <1>1, <1>2, <3>1, TriedIsCurrent
      <3>3. CurrentIndex(indexFile')
        BY <1>1, <2>3 DEF IndicesCurrent
      <3>4. Keep(d, ix)
        BY <2>3, <3>1
      <3> QED
        BY <1>1, <1>3, <3>2, <3>3, <3>4, KeepKeeps
    <2>4. ASSUME NEW ix \in Scanned(Index(d)), Keep(d, ix), indexFile' \in {indexFile, ix, EmptyIndex}
          PROVE  IndicesCurrent'
      <3>1. CurrentIndex(ix)
        BY <1>1, <1>2, ScannedIsCurrent
      <3>2. CurrentIndex(indexFile')
        BY <1>1, <2>1, <2>4, <3>1 DEF IndicesCurrent
      <3> QED
        BY <1>1, <1>3, <2>4, <3>1, <3>2, KeepKeeps
    <2> QED
      BY <1>4, <1>5, <1>8, <2>2, <2>3, <2>4 DEF MemoryInv, RememberFails
  <1> QED
    BY <1>7, <1>8

LEMMA UntouchedKeeps ==
    ASSUME MemoryInv, UNCHANGED <<minute, memoryFile, removedAt, directory, indexFile, prompt>>
    PROVE  FilesOfMemory' /\ IndicesCurrent' /\ PromptCurrent'
  BY DEF MemoryInv, FilesOfMemory, IndicesCurrent, PromptCurrent, CurrentIndex

LEMMA SaveSignalKeeps == ASSUME MemoryInv, NEW s \in Scopes, SaveSignal(s) PROVE MemoryInv'
  <1>1. SignalsKept
    BY DEF MemoryInv
  <1>2. PICK e, entries :
          /\ e \in Extracted
          /\ entries = ScopedIndex(s) \cup {e}
          /\ scoped' = [scoped EXCEPT ![s] = Loaded(entries)]
          /\ \/ /\ scopedFile' = [scopedFile EXCEPT ![s] = entries] /\ cutOff' = cutOff \ {s}
                /\ counted' = [counted EXCEPT ![s] = counted[s] \cup {e}]
             \/ UNCHANGED <<scopedFile, cutOff, counted>>
             \/ /\ scopedFile' = [scopedFile EXCEPT ![s] = entries] /\ cutOff' = cutOff \ {s}
                /\ UNCHANGED counted
             \/ /\ scopedFile' = [scopedFile EXCEPT ![s] = {}] /\ cutOff' = cutOff \cup {s}
                /\ UNCHANGED counted
    BY Zenon DEF SaveSignal
  <1>3. counted[s] \subseteq entries /\ e \in entries
    BY <1>1, <1>2 DEF SignalsKept, ScopedIndex
  <1>4. Loaded(entries).entries = entries /\ Loaded(entries).loaded
    BY DEF Loaded
  <1>5. PICK o : o = Loaded(entries)
    OBVIOUS
  <1>6. scoped' = [scoped EXCEPT ![s] = o] /\ o.entries = entries /\ o.loaded
    BY <1>2, <1>4, <1>5
  <1>7. SignalsKept'
    <2>1. CASE /\ scopedFile' = [scopedFile EXCEPT ![s] = entries] /\ cutOff' = cutOff \ {s}
               /\ counted' = [counted EXCEPT ![s] = counted[s] \cup {e}]
      BY <1>1, <1>3, <1>6, <2>1 DEF SignalsKept
    <2>2. CASE UNCHANGED <<scopedFile, cutOff, counted>>
      BY <1>1, <1>3, <1>6, <2>2 DEF SignalsKept
    <2>3. CASE /\ scopedFile' = [scopedFile EXCEPT ![s] = entries] /\ cutOff' = cutOff \ {s}
               /\ UNCHANGED counted
      BY <1>1, <1>3, <1>6, <2>3 DEF SignalsKept
    <2>4. CASE /\ scopedFile' = [scopedFile EXCEPT ![s] = {}] /\ cutOff' = cutOff \cup {s}
               /\ UNCHANGED counted
      BY <1>1, <1>3, <1>6, <2>4 DEF SignalsKept
    <2> QED
      BY <1>2, <2>1, <2>2, <2>3, <2>4
  <1>8. UNCHANGED <<minute, memoryFile, removedAt, directory, indexFile, prompt>>
    BY DEF SaveSignal
  <1> QED
    BY <1>7, <1>8, UntouchedKeeps DEF MemoryInv

LEMMA CrashKeeps == ASSUME MemoryInv, Crash PROVE MemoryInv'
  <1>1. FilesOfMemory /\ IndicesCurrent /\ SignalsKept
    BY DEF MemoryInv
  <1>2. /\ directory' = [d \in Spellings |-> NotLoaded]
        /\ scoped' = [s \in Scopes |-> [loaded |-> FALSE, entries |-> {}]]
        /\ prompt' = NoPrompt
        /\ UNCHANGED <<minute, memoryFile, removedAt>>
    BY DEF Crash
  <1>3. FilesOfMemory'
    BY <1>1, <1>2 DEF FilesOfMemory
  <1>4. indexFile' \in {indexFile, EmptyIndex}
    BY DEF Crash
  <1>5. minute \in Nat
    BY <1>1 DEF FilesOfMemory
  <1>6. CurrentIndex(indexFile')
    BY <1>1, <1>4, <1>5, EmptyIsCurrent DEF IndicesCurrent
  <1>7. CurrentIndex(indexFile)'
    BY <1>2, <1>6 DEF CurrentIndex
  <1>8. ASSUME NEW d \in Spellings
        PROVE  CurrentIndex(directory[d].index)'
    <2>1. directory'[d].index = NotLoaded.index
      BY <1>2
    <2> QED
      BY <1>2, <1>5, <2>1, EmptyIsCurrent DEF CurrentIndex
  <1>9. IndicesCurrent'
    BY <1>2, <1>7, <1>8 DEF IndicesCurrent
  <1>10. PromptCurrent'
    <2>1. CurrentIndex(EmptyIndex) /\ EmptyIndex.entries = {}
      BY <1>5, EmptyIsCurrent DEF EmptyIndex
    <2>2. prompt'.at = 0 /\ prompt'.index = EmptyIndex
      BY <1>2 DEF NoPrompt
    <2>3. CurrentIndex(prompt.index)'
      BY <1>2, <2>1, <2>2 DEF CurrentIndex
    <2> QED
      BY <2>1, <2>2, <2>3 DEF PromptCurrent
  <1>11. /\ cutOff' = {} /\ counted' = [s \in Scopes |-> counted[s] \cap scopedFile'[s]]
         /\ \/ UNCHANGED scopedFile
            \/ \E s \in Scopes : scopedFile' = [scopedFile EXCEPT ![s] = {}]
    BY DEF Crash
  <1>12. \A s \in Scopes : scoped'[s].loaded = FALSE
    BY <1>2
  <1>13. scoped' = [s \in Scopes |-> scoped'[s]]
    BY <1>2
  <1>14. SignalsKept'
    <2>1. scopedFile' = [s \in Scopes |-> scopedFile'[s]]
      BY <1>1, <1>11 DEF SignalsKept
    <2> QED
      BY <1>11, <1>12, <1>13, <2>1 DEF SignalsKept
  <1> QED
    BY <1>3, <1>9, <1>10, <1>14 DEF MemoryInv

\* For any lines, scopes and signals, any spellings of the project's path, and however scans, edits
\* of the files, failing scans and writes and crashes follow each other: a turn is told nothing
\* that was not in the memory files when they were last read, reading them was tried less than
\* RescanAfter ago, and a signal counted as saved stays in its index, and in its file unless a
\* write broke off.
THEOREM MemoriesStayCurrent == MemorySpec => []MemoriesCurrent
  <1>1. MemoryInit => MemoryInv
    <2> SUFFICES ASSUME MemoryInit
                 PROVE  MemoryInv
      OBVIOUS
    <2>1. FilesOfMemory
      BY DEF MemoryInit, FilesOfMemory
    <2>2. IndicesCurrent
      BY EmptyIsCurrent DEF MemoryInit, IndicesCurrent
    <2>3. PromptCurrent
      <3>1. minute \in Nat
        BY DEF MemoryInit
      <3>2. CurrentIndex(EmptyIndex) /\ EmptyIndex.entries = {}
        BY <3>1, EmptyIsCurrent DEF EmptyIndex
      <3>3. prompt.at = 0 /\ prompt.index = EmptyIndex
        BY DEF MemoryInit, NoPrompt
      <3> QED
        BY <3>2, <3>3 DEF PromptCurrent
    <2>4. SignalsKept
      BY DEF MemoryInit, SignalsKept
    <2> QED
      BY <2>1, <2>2, <2>3, <2>4 DEF MemoryInv
  <1>2. MemoryInv /\ [MemoryNext]_memoryVars => MemoryInv'
    <2> SUFFICES ASSUME MemoryInv, [MemoryNext]_memoryVars
                 PROVE  MemoryInv'
      OBVIOUS
    <2>1. CASE UNCHANGED memoryVars
      BY <2>1, UntouchedKeeps DEF memoryVars, MemoryInv, SignalsKept
    <2> QED
      BY <2>1, EditFileKeeps, LaterKeeps, CrashKeeps, RememberKeeps, SaveSignalKeeps DEF MemoryNext
  <1>3. MemoryInv => MemoriesCurrent
    BY DEF MemoryInv, PromptCurrent, CurrentIndex, SignalsKept, ScopedIndex, MemoriesCurrent
  <1> QED
    BY <1>1, <1>2, <1>3, PTL DEF MemorySpec

-----------------------------------------------------------------------------
(* HistoryPages. *)

ScreenFields == {"filter", "list", "offset", "more", "loading", "loadingMore", "asks", "sound"}
AskFields == {"filter", "offset", "reset", "page", "answered", "alone"}

UpTo(m, n) == IF m < n THEN m ELSE n
Numbers(n) == [i \in 1..n |-> i]

\* The list is what the filter lets through, up to the offset.
ScreenFits ==
    screen.sound =>
        LET shown == ListedSessions(screen.filter) IN
        /\ screen.list = SubSeq(shown, 1, UpTo(screen.offset, Len(shown)))
        /\ ~screen.more => screen.list = shown

\* A request that nothing disturbed is the only one, is for what the screen shows, and its page is
\* the one there is now.
AskFits(r) ==
    /\ DOMAIN r = AskFields /\ r.offset \in Nat
    /\ r.alone =>
          /\ asked = {r} /\ r.filter = screen.filter
          /\ r.offset = IF r.reset THEN 0 ELSE screen.offset
          /\ r.answered => r.page = Page(ListedSessions(r.filter), r.offset)

\* The cursor is the last message shown, in a session that has only grown since or is gone.
CursorFits ==
    /\ detail.list = Numbers(Len(detail.list)) /\ Len(detail.list) \in Nat
    /\ ~detail.more => Len(detail.list) = detail.total
    /\ detail.more =>
          /\ detail.s \in DOMAIN stored
          /\ detail.cursor = Len(detail.list) /\ detail.cursor # 0
          /\ stored[detail.s] = 0 \/ detail.cursor <= stored[detail.s]

HistoryInv ==
    /\ stored \in Seq(Nat)
    /\ DOMAIN screen = ScreenFields /\ screen.offset \in Nat /\ ScreenFits
    /\ \A r \in asked : AskFits(r)
    /\ CursorFits

-----------------------------------------------------------------------------
(* Pages of a list. *)

LEMMA LesserOfTwo ==
    ASSUME NEW m \in Nat, NEW n \in Nat
    PROVE  Min({m, n}) = UpTo(m, n)
  <1>1. UpTo(m, n) \in {m, n} /\ \A y \in {m, n} : UpTo(m, n) <= y
    BY DEF UpTo
  <1>2. \A x \in {m, n} : (\A y \in {m, n} : x <= y) => x = UpTo(m, n)
    BY DEF UpTo
  <1>3. Min({m, n}) \in {m, n} /\ \A y \in {m, n} : Min({m, n}) <= y
    BY <1>1, Zenon DEF Min
  <1> QED
    BY <1>2, <1>3

Nth(found, k) == CHOOSE s \in found : Cardinality({t \in found : t >= s}) = k

LEMMA ListedIsSeq ==
    ASSUME stored \in Seq(Nat), NEW filter
    PROVE  ListedSessions(filter) \in Seq(Range(ListedSessions(filter)))
  <1> DEFINE found == {s \in DOMAIN stored : stored[s] > 0 /\ (filter = "" \/ s \in matching)}
  <1>1. IsFiniteSet(found)
    <2>1. DOMAIN stored = 1..Len(stored) /\ Len(stored) \in Nat
      OBVIOUS
    <2>2. IsFiniteSet(1..Len(stored))
      BY <2>1, FS_Interval
    <2> QED
      BY <2>1, <2>2, FS_Subset
  <1>2. Cardinality(found) \in Nat
    BY <1>1, FS_CardinalityType
  <1>3. PICK n, l : /\ n \in Nat /\ n = Cardinality(found)
                /\ l = [k \in 1..n |-> Nth(found, k)]
    BY <1>2
  <1>4. ListedSessions(filter) = l
    BY <1>3, Zenon DEF ListedSessions, Nth
  <1> HIDE DEF found
  <1>5. DOMAIN l = 1..n /\ \A k \in 1..n : l[k] \in Range(l)
    BY <1>3 DEF Range
  <1>6. l \in [1..n -> Range(l)]
    BY <1>3, <1>5
  <1>7. l \in Seq(Range(l))
    BY <1>3, <1>6
  <1> QED
    BY <1>4, <1>7

LEMMA ListedSame ==
    ASSUME UNCHANGED <<stored, matching>>, NEW filter
    PROVE  ListedSessions(filter)' = ListedSessions(filter)
  BY DEF ListedSessions

\* The first page, and a page that follows what there is.
LEMMA PageFollows ==
    ASSUME NEW S, NEW list \in Seq(S), NEW offset \in Nat
    PROVE  /\ SubSeq(list, 1, UpTo(offset, Len(list))) \o Page(list, offset)
                = SubSeq(list, 1, UpTo(offset + PageSize, Len(list)))
           /\ offset = 0 => Page(list, 0) = SubSeq(list, 1, UpTo(PageSize, Len(list)))
           /\ Len(Page(list, offset)) # PageSize =>
                 SubSeq(list, 1, UpTo(offset + PageSize, Len(list))) = list
           /\ Len(Page(list, offset)) = IF offset + PageSize <= Len(list) THEN PageSize
                                        ELSE IF offset <= Len(list) THEN Len(list) - offset ELSE 0
  <1> DEFINE n == Len(list)
             k == UpTo(offset + PageSize, n)
  <1>1. n \in Nat /\ PageSize \in Nat /\ PageSize > 0 /\ offset + PageSize \in Nat
    BY HistoryAssumption
  <1>2. Page(list, offset) = SubSeq(list, offset + 1, k)
    BY <1>1, LesserOfTwo DEF Page
  <1>3. k \in Nat /\ k <= n /\ k <= offset + PageSize
    BY <1>1 DEF UpTo
  <1>4. \A i \in (offset + 1)..k : list[i] \in S
    BY <1>1, <1>3
  <1>5. Len(Page(list, offset)) = IF offset + 1 <= k THEN k - (offset + 1) + 1 ELSE 0
    BY <1>1, <1>2, <1>3, <1>4, SubSeqProperties
  <1>6. SubSeq(list, 1, n) = list
    BY SubSeqFull
  <1>7. Len(Page(list, offset)) = IF offset + PageSize <= n THEN PageSize
                                  ELSE IF offset <= n THEN n - offset ELSE 0
    BY <1>1, <1>5 DEF UpTo
  <1>8. Len(Page(list, offset)) # PageSize => k = n
    BY <1>1, <1>7 DEF UpTo
  <1>9. SubSeq(list, 1, UpTo(offset, n)) \o Page(list, offset) = SubSeq(list, 1, k)
    <2>1. CASE offset <= n
      <3>1. UpTo(offset, n) = offset /\ offset <= k
        BY <1>1, <2>1 DEF UpTo
      <3>2. 1 \in 1..(n + 1) /\ offset \in (1 - 1)..n /\ k \in offset..n
        BY <1>1, <1>3, <2>1, <3>1
      <3> HIDE DEF k
      <3>3. SubSeq(list, 1, offset) \o SubSeq(list, offset + 1, k) = SubSeq(list, 1, k)
        BY <3>2, ConcatAdjacentSubSeq
      <3> QED
        BY <1>2, <3>1, <3>3
    <2>2. CASE offset > n
      <3>1. UpTo(offset, n) = n /\ k = n
        BY <1>1, <2>2 DEF UpTo
      <3>2. Page(list, offset) = <<>>
        BY <1>1, <1>2, <1>3, <2>2, SubSeqEmpty
      <3> QED
        BY <1>6, <3>1, <3>2, ConcatEmptySeq
    <2>3. offset <= n \/ offset > n
      BY <1>1
    <2> QED
      BY <2>1, <2>2, <2>3, Zenon
  <1>10. offset = 0 => Page(list, 0) = SubSeq(list, 1, UpTo(PageSize, n))
    BY <1>1, <1>2
  <1> QED
    BY <1>6, <1>7, <1>8, <1>9, <1>10

\* A request of which all is known but that it is alone.
LEMMA NotAlone ==
    ASSUME NEW r, AskFits(r), NEW q, q = [r EXCEPT !.alone = FALSE]
    PROVE  DOMAIN q = AskFields /\ q.offset \in Nat /\ ~q.alone
  BY DEF AskFits, AskFields

\* What others do to the sessions leaves nothing that claims to fit.
LEMMA DisturbedFits ==
    ASSUME HistoryInv, Disturbed
    PROVE  /\ DOMAIN screen' = ScreenFields /\ screen'.offset \in Nat /\ ScreenFits'
           /\ \A r \in asked' : AskFits(r)'
  <1>1. DOMAIN screen = ScreenFields /\ screen.offset \in Nat
    BY DEF HistoryInv
  <1>2. PICK v : v = [screen EXCEPT !.sound = FALSE]
    OBVIOUS
  <1>3. DOMAIN v = ScreenFields /\ v.offset \in Nat /\ ~v.sound
    BY <1>1, <1>2 DEF ScreenFields
  <1>4. screen' = v
    BY <1>2, Zenon DEF Disturbed
  <1>5. ASSUME NEW q \in asked' PROVE AskFits(q)'
    <2>1. PICK r \in asked : q = [r EXCEPT !.alone = FALSE]
      BY <1>5, Zenon DEF Disturbed
    <2>2. AskFits(r)
      BY Zenon DEF HistoryInv
    <2>3. DOMAIN q = AskFields /\ q.offset \in Nat /\ ~q.alone
      BY <2>1, <2>2, NotAlone, Zenon
    <2> QED
      BY <2>3 DEF AskFits
  <1>6. ScreenFits'
    BY <1>3, <1>4 DEF ScreenFits
  <1> QED
    BY <1>3, <1>4, <1>5, <1>6

\* A session that is deleted, or has more messages than before, leaves the cursor where it was.
LEMMA CursorStays ==
    ASSUME CursorFits, UNCHANGED detail,
           detail.more => /\ detail.s \in DOMAIN stored'
                          /\ stored'[detail.s] = 0 \/ detail.cursor <= stored'[detail.s]
    PROVE  CursorFits'
  BY DEF CursorFits

LEMMA GrowsFits ==
    ASSUME HistoryInv, SessionGrows
    PROVE  HistoryInv'
  <1>1. Disturbed /\ UNCHANGED detail
    BY Zenon DEF SessionGrows
  <1>2. stored \in Seq(Nat) /\ CursorFits
    BY Zenon DEF HistoryInv
  <1>3. PICK s \in 1..MaxSessions :
           \/ s = Len(stored) + 1 /\ stored' = Append(stored, 1)
           \/ s \in DOMAIN stored /\ stored[s] \in 1..(MaxLength - 1) /\ stored' = [stored EXCEPT ![s] = @ + 1]
    BY Zenon DEF SessionGrows
  <1>4. stored' \in Seq(Nat) /\ \A t \in DOMAIN stored :
           t \in DOMAIN stored' /\ (stored'[t] = stored[t] \/ (stored[t] > 0 /\ stored'[t] = stored[t] + 1))
    <2>1. CASE s = Len(stored) + 1 /\ stored' = Append(stored, 1)
      BY <1>2, <2>1
    <2>2. CASE s \in DOMAIN stored /\ stored[s] \in 1..(MaxLength - 1) /\ stored' = [stored EXCEPT ![s] = @ + 1]
      <3>1. s \in 1..Len(stored) /\ stored[s] \in Nat /\ stored[s] > 0
        BY <1>2, <2>2
      <3>2. stored' = [stored EXCEPT ![s] = stored[s] + 1]
        BY <2>2, Zenon
      <3>3. stored' \in Seq(Nat) /\ Len(stored') = Len(stored)
        BY <1>2, <3>1, <3>2, ExceptSeq
      <3> QED
        BY <1>2, <3>1, <3>2, <3>3
    <2> QED
      BY <1>3, <2>1, <2>2
  <1>5. CursorFits'
    <2>1. ASSUME detail.more
          PROVE  /\ detail.s \in DOMAIN stored'
                 /\ stored'[detail.s] = 0 \/ detail.cursor <= stored'[detail.s]
      <3>1. /\ detail.s \in DOMAIN stored /\ detail.cursor \in Nat
            /\ stored[detail.s] = 0 \/ detail.cursor <= stored[detail.s]
        BY <1>2, <2>1 DEF CursorFits
      <3>2. stored[detail.s] \in Nat
        BY <1>2, <3>1
      <3> QED
        BY <1>4, <3>1, <3>2
    <2> QED
      BY <1>1, <1>2, <2>1, CursorStays
  <1> QED
    BY <1>1, <1>4, <1>5, DisturbedFits, Zenon DEF HistoryInv

LEMMA DeleteFits ==
    ASSUME HistoryInv, HandleDelete
    PROVE  HistoryInv'
  <1>1. Disturbed /\ UNCHANGED detail
    BY Zenon DEF HandleDelete
  <1>2. stored \in Seq(Nat) /\ CursorFits
    BY Zenon DEF HistoryInv
  <1>3. PICK s \in DOMAIN stored : stored' = [stored EXCEPT ![s] = 0]
    BY Zenon DEF HandleDelete
  <1>4. s \in 1..Len(stored) /\ 0 \in Nat
    BY <1>2
  <1>5. stored' \in Seq(Nat) /\ DOMAIN stored' = DOMAIN stored
    BY <1>2, <1>3, <1>4, ExceptSeq
  <1>6. \A t \in DOMAIN stored : stored'[t] = stored[t] \/ stored'[t] = 0
    BY <1>3
  <1>7. CursorFits'
    <2>1. detail.more => /\ detail.s \in DOMAIN stored'
                         /\ stored'[detail.s] = 0 \/ detail.cursor <= stored'[detail.s]
      BY <1>2, <1>5, <1>6 DEF CursorFits
    <2> QED
      BY <1>1, <1>2, <2>1, CursorStays
  <1> QED
    BY <1>1, <1>5, <1>7, DisturbedFits, Zenon DEF HistoryInv

LEMMA DeleteAllFits ==
    ASSUME HistoryInv, HandleDeleteAll
    PROVE  HistoryInv'
  <1>1. stored \in Seq(Nat) /\ CursorFits /\ DOMAIN screen = ScreenFields
    BY Zenon DEF HistoryInv
  <1>2. stored' = [s \in DOMAIN stored |-> 0] /\ UNCHANGED detail
    BY Zenon DEF HandleDeleteAll
  <1>3. stored' \in Seq(Nat) /\ DOMAIN stored' = DOMAIN stored
    <2>1. DOMAIN stored = 1..Len(stored) /\ Len(stored) \in Nat
      BY <1>1
    <2> QED
      BY <1>2, <2>1
  <1>4. CursorFits'
    <2>1. detail.more => detail.s \in DOMAIN stored' /\ stored'[detail.s] = 0
      BY <1>1, <1>2 DEF CursorFits
    <2> QED
      BY <1>1, <1>2, <2>1, CursorStays
  <1>5. PICK v : v = [screen EXCEPT !.list = <<>>, !.more = FALSE, !.offset = 0, !.sound = FALSE]
    OBVIOUS
  <1>6. DOMAIN v = ScreenFields /\ v.offset \in Nat /\ ~v.sound
    BY <1>1, <1>5 DEF ScreenFields
  <1>7. screen' = v
    BY <1>5, Zenon DEF HandleDeleteAll
  <1>8. ASSUME NEW q \in asked' PROVE AskFits(q)'
    <2>1. PICK r \in asked : q = [r EXCEPT !.alone = FALSE]
      BY <1>8, Zenon DEF HandleDeleteAll
    <2>2. AskFits(r)
      BY Zenon DEF HistoryInv
    <2>3. DOMAIN q = AskFields /\ q.offset \in Nat /\ ~q.alone
      BY <2>1, <2>2, NotAlone, Zenon
    <2> QED
      BY <2>3 DEF AskFits
  <1>9. ScreenFits'
    BY <1>6, <1>7 DEF ScreenFits
  <1> QED
    BY <1>3, <1>4, <1>6, <1>7, <1>8, <1>9 DEF HistoryInv

\* The request that is made.
LEMMA AskIs ==
    ASSUME NEW f, NEW o, NEW reset, NEW r, r = Asks(f, o, reset)
    PROVE  /\ DOMAIN r = AskFields /\ r.filter = f /\ r.offset = o
           /\ r.reset = reset /\ ~r.answered /\ r.alone
  BY DEF Asks, AskFields

AskedFor(q, f, o, reset, b) == q = [Asks(f, o, reset) EXCEPT !.alone = b]

LEMMA AskMade ==
    ASSUME NEW f, NEW o, NEW reset, NEW b, NEW q, AskedFor(q, f, o, reset, b)
    PROVE  /\ DOMAIN q = AskFields /\ q.filter = f /\ q.offset = o
           /\ q.reset = reset /\ ~q.answered /\ q.alone = b
  <1>1. PICK r : r = Asks(f, o, reset)
    OBVIOUS
  <1>2. /\ DOMAIN r = AskFields /\ r.filter = f /\ r.offset = o
        /\ r.reset = reset /\ ~r.answered
    BY <1>1, AskIs
  <1>3. q = [r EXCEPT !.alone = b]
    BY <1>1, Zenon DEF AskedFor
  <1> QED
    BY <1>2, <1>3 DEF AskFields

\* A request for what the screen shows next, and those before it: they overlap unless there are none.
LEMMA LoadFits ==
    ASSUME \A r \in asked : AskFits(r), NEW f, NEW o \in Nat, NEW reset \in BOOLEAN,
           LoadSessions(f, o, reset), screen'.filter = f, o = IF reset THEN 0 ELSE screen'.offset
    PROVE  \A r \in asked' : AskFits(r)'
  <1>1. PICK b : b = (asked = {}) /\ b \in BOOLEAN
    OBVIOUS
  <1>2. PICK new : new = [Asks(f, o, reset) EXCEPT !.alone = b]
    OBVIOUS
  <1>3. /\ DOMAIN new = AskFields /\ new.filter = f /\ new.offset = o
        /\ new.reset = reset /\ ~new.answered /\ new.alone = b
    <2>1. AskedFor(new, f, o, reset, b)
      BY <1>2, Zenon DEF AskedFor
    <2> QED
      BY <2>1, AskMade
  <1>4. asked' = {[r EXCEPT !.alone = FALSE] : r \in asked} \cup {new}
    BY <1>1, <1>2, Zenon DEF LoadSessions
  <1>5. b => asked' = {new}
    <2>1. b => {[r EXCEPT !.alone = FALSE] : r \in asked} = {}
      BY <1>1
    <2> QED
      BY <1>4, <2>1
  <1>6. ASSUME NEW q \in asked' PROVE AskFits(q)'
    <2>1. CASE q = new
      BY <1>3, <1>5, <2>1 DEF AskFits
    <2>2. CASE q \in {[r EXCEPT !.alone = FALSE] : r \in asked}
      <3>1. PICK r \in asked : q = [r EXCEPT !.alone = FALSE]
        BY <2>2, Zenon
      <3>2. AskFits(r)
        BY Zenon
      <3>3. DOMAIN q = AskFields /\ q.offset \in Nat /\ ~q.alone
        BY <3>1, <3>2, NotAlone, Zenon
      <3> QED
        BY <3>3 DEF AskFits
    <2> QED
      BY <1>4, <1>6, <2>1, <2>2
  <1> QED
    BY <1>6

\* The cursor as it is, in the sessions as they are.
LEMMA CursorSame ==
    ASSUME CursorFits, UNCHANGED <<detail, stored>>
    PROVE  CursorFits'
  BY DEF CursorFits

LEMMA SetFilterFits ==
    ASSUME HistoryInv, SetFilter
    PROVE  HistoryInv'
  <1>1. /\ stored \in Seq(Nat) /\ CursorFits /\ DOMAIN screen = ScreenFields /\ screen.offset \in Nat
        /\ \A r \in asked : AskFits(r)
    BY Zenon DEF HistoryInv
  <1>2. UNCHANGED <<stored, detail>>
    BY Zenon DEF SetFilter
  <1>3. PICK f : /\ screen' = [screen EXCEPT !.filter = f, !.loading = TRUE, !.asks = @ + 1, !.sound = FALSE]
                 /\ LoadSessions(f, 0, TRUE)
    BY Zenon DEF SetFilter
  <1>4. PICK v : v = [screen EXCEPT !.filter = f, !.loading = TRUE, !.asks = @ + 1, !.sound = FALSE]
    OBVIOUS
  <1>5. DOMAIN v = ScreenFields /\ v.offset = screen.offset /\ v.filter = f /\ ~v.sound
    BY <1>1, <1>4 DEF ScreenFields
  <1>6. screen' = v
    BY <1>3, <1>4
  <1>7. 0 \in Nat /\ TRUE \in BOOLEAN /\ 0 = IF TRUE THEN 0 ELSE screen'.offset
    OBVIOUS
  <1>8. screen'.filter = f
    BY <1>5, <1>6
  <1>9. \A r \in asked' : AskFits(r)'
    BY <1>1, <1>3, <1>7, <1>8, LoadFits, Zenon
  <1>10. ScreenFits'
    BY <1>5, <1>6 DEF ScreenFits
  <1>11. CursorFits'
    BY <1>1, <1>2, CursorSame
  <1> QED
    BY <1>1, <1>2, <1>5, <1>6, <1>9, <1>10, <1>11 DEF HistoryInv

LEMMA LoadMoreFits ==
    ASSUME HistoryInv, LoadMore
    PROVE  HistoryInv'
  <1>1. /\ stored \in Seq(Nat) /\ CursorFits /\ DOMAIN screen = ScreenFields /\ screen.offset \in Nat
        /\ ScreenFits /\ \A r \in asked : AskFits(r)
    BY Zenon DEF HistoryInv
  <1>2. UNCHANGED <<stored, matching, detail>> /\ LoadSessions(screen.filter, screen.offset, FALSE)
    BY Zenon DEF LoadMore
  <1>3. PICK v : v = [screen EXCEPT !.loading = TRUE, !.loadingMore = TRUE, !.asks = @ + 1]
    OBVIOUS
  <1>4. /\ DOMAIN v = ScreenFields /\ v.offset = screen.offset /\ v.filter = screen.filter
        /\ v.sound = screen.sound /\ v.more = screen.more /\ v.list = screen.list
    BY <1>1, <1>3 DEF ScreenFields
  <1>5. screen' = v
    BY <1>3, Zenon DEF LoadMore
  <1>6. /\ FALSE \in BOOLEAN /\ screen.offset = IF FALSE THEN 0 ELSE screen'.offset
        /\ screen'.filter = screen.filter
    BY <1>4, <1>5
  <1>7. \A r \in asked' : AskFits(r)'
    BY <1>1, <1>2, <1>6, LoadFits, Zenon
  <1>8. ListedSessions(screen.filter)' = ListedSessions(screen.filter)
    <2>1. PICK f : f = screen.filter
      OBVIOUS
    <2>2. ListedSessions(f)' = ListedSessions(f)
      BY <1>2, ListedSame
    <2> QED
      BY <1>4, <1>5, <2>1, <2>2, Zenon
  <1>9. ScreenFits'
    BY <1>1, <1>4, <1>5, <1>8 DEF ScreenFits
  <1>10. CursorFits'
    BY <1>1, <1>2, CursorSame
  <1> QED
    BY <1>1, <1>2, <1>4, <1>5, <1>7, <1>9, <1>10 DEF HistoryInv

LEMMA AnsweredFits ==
    ASSUME HistoryInv, Answered
    PROVE  HistoryInv'
  <1>1. /\ stored \in Seq(Nat) /\ CursorFits /\ DOMAIN screen = ScreenFields /\ screen.offset \in Nat
        /\ ScreenFits /\ \A r \in asked : AskFits(r)
    BY Zenon DEF HistoryInv
  <1>2. UNCHANGED <<stored, matching, screen, detail>>
    BY Zenon DEF Answered
  <1>3. PICK r \in asked :
           asked' = (asked \ {r})
                \cup {[r EXCEPT !.answered = TRUE, !.page = Page(ListedSessions(r.filter), r.offset)]}
    BY Zenon DEF Answered
  <1>4. AskFits(r)
    BY <1>1
  <1>5. PICK p : p = Page(ListedSessions(r.filter), r.offset)
    OBVIOUS
  <1>6. PICK q : q = [r EXCEPT !.answered = TRUE, !.page = p]
    OBVIOUS
  <1>7. /\ DOMAIN q = AskFields /\ q.filter = r.filter /\ q.offset = r.offset
        /\ q.reset = r.reset /\ q.page = p /\ q.alone = r.alone
    BY <1>4, <1>6 DEF AskFits, AskFields
  <1>8. asked' = (asked \ {r}) \cup {q}
    BY <1>3, <1>5, <1>6, Zenon
  <1>9. p = Page(ListedSessions(q.filter), q.offset)'
    <2>1. PICK f, o : f = q.filter /\ o = q.offset
      OBVIOUS
    <2>2. ListedSessions(f)' = ListedSessions(f)
      BY <1>2, ListedSame
    <2>3. Page(ListedSessions(f)', o) = Page(ListedSessions(f), o)
      BY <2>2, Zenon
    <2>4. p = Page(ListedSessions(f), o)
      BY <1>5, <1>7, <2>1, Zenon
    <2> QED
      BY <2>1, <2>3, <2>4, Zenon DEF Page
  <1>10. AskFits(q)'
    <2>1. r.alone => asked' = {q}
      BY <1>4, <1>8 DEF AskFits
    <2> QED
      BY <1>2, <1>4, <1>7, <1>9, <2>1 DEF AskFits
  <1>11. ASSUME NEW t \in asked', t # q PROVE AskFits(t)'
    <2>1. t \in asked /\ t # r
      BY <1>8, <1>11
    <2>2. AskFits(t) /\ ~t.alone
      <3>1. AskFits(t)
        BY <1>1, <2>1
      <3> QED
        BY <2>1, <3>1, <1>3 DEF AskFits
    <2> QED
      BY <2>2 DEF AskFits
  <1>12. ScreenFits'
    <2>1. PICK f : f = screen.filter
      OBVIOUS
    <2>2. ListedSessions(f)' = ListedSessions(f)
      BY <1>2, ListedSame
    <2>3. ListedSessions(screen.filter)' = ListedSessions(screen.filter)
      BY <1>2, <2>1, <2>2, Zenon
    <2> QED
      BY <1>1, <1>2, <2>3 DEF ScreenFits
  <1>13. CursorFits'
    BY <1>1, <1>2, CursorSame
  <1>14. \A t \in asked' : AskFits(t)'
    BY <1>10, <1>11, Zenon
  <1> QED
    BY <1>1, <1>2, <1>12, <1>13, <1>14 DEF HistoryInv

\* The page of a request that nothing disturbed: the start of the list, or what follows on the screen.
LEMMA PageFits ==
    ASSUME HistoryInv, NEW r \in asked, r.answered, r.alone, r.reset \/ screen.sound,
           NEW list, list = IF r.reset THEN r.page ELSE screen.list \o r.page
    PROVE  LET shown == ListedSessions(screen.filter) IN
           /\ list = SubSeq(shown, 1, UpTo(r.offset + PageSize, Len(shown)))
           /\ Len(r.page) # PageSize => list = shown
  <1>1. AskFits(r) /\ ScreenFits /\ stored \in Seq(Nat) /\ screen.offset \in Nat
    BY Zenon DEF HistoryInv
  <1>2. PICK shown, o : shown = ListedSessions(screen.filter) /\ o = r.offset
    OBVIOUS
  <1>3. o \in Nat /\ r.filter = screen.filter /\ o = (IF r.reset THEN 0 ELSE screen.offset)
    BY <1>1, <1>2 DEF AskFits
  <1>4. r.page = Page(ListedSessions(r.filter), r.offset)
    BY <1>1 DEF AskFits
  <1>5. r.page = Page(shown, o)
    BY <1>2, <1>3, <1>4, Zenon
  <1>6. shown \in Seq(Range(shown))
    <2>1. PICK f : f = screen.filter
      OBVIOUS
    <2>2. ListedSessions(f) \in Seq(Range(ListedSessions(f)))
      BY <1>1, ListedIsSeq
    <2> QED
      BY <1>2, <2>1, <2>2, Zenon
  <1>7. PageSize \in Nat /\ PageSize > 0
    BY HistoryAssumption
  <1>8. PICK S : S = Range(shown)
    OBVIOUS
  <1>9. shown \in Seq(S)
    BY <1>6, <1>8, Zenon
  <1>10. /\ SubSeq(shown, 1, UpTo(o, Len(shown))) \o Page(shown, o)
                = SubSeq(shown, 1, UpTo(o + PageSize, Len(shown)))
         /\ o = 0 => Page(shown, 0) = SubSeq(shown, 1, UpTo(PageSize, Len(shown)))
         /\ Len(Page(shown, o)) # PageSize => SubSeq(shown, 1, UpTo(o + PageSize, Len(shown))) = shown
    BY <1>3, <1>9, PageFollows
  <1>11. list = SubSeq(shown, 1, UpTo(o + PageSize, Len(shown)))
    <2>1. CASE r.reset
      <3>1. o = 0 /\ list = r.page /\ o + PageSize = PageSize
        BY <1>3, <1>7, <2>1
      <3> QED
        BY <1>5, <1>10, <3>1, Zenon
    <2>2. CASE ~r.reset
      <3>1. o = screen.offset /\ list = screen.list \o r.page /\ screen.sound
        BY <1>3, <2>2
      <3>2. screen.list = SubSeq(shown, 1, UpTo(screen.offset, Len(shown)))
        BY <1>1, <1>2, <3>1 DEF ScreenFits
      <3> QED
        BY <1>5, <1>10, <3>1, <3>2, Zenon
    <2> QED
      BY <2>1, <2>2
  <1> QED
    BY <1>2, <1>5, <1>10, <1>11, Zenon

LEMMA ShownFits ==
    ASSUME HistoryInv, Shown
    PROVE  HistoryInv'
  <1>1. /\ stored \in Seq(Nat) /\ CursorFits /\ DOMAIN screen = ScreenFields /\ screen.offset \in Nat
        /\ ScreenFits /\ \A r \in asked : AskFits(r)
    BY Zenon DEF HistoryInv
  <1>2. UNCHANGED <<stored, matching, detail>>
    BY Zenon DEF Shown
  <1>3. PICK r \in asked :
          /\ r.answered
          /\ asked' = asked \ {r}
          /\ LET idle == [screen EXCEPT !.loading = FALSE, !.loadingMore = @ /\ r.reset] IN
             screen' \in {idle,
                          [idle EXCEPT !.list = IF r.reset THEN r.page ELSE @ \o r.page,
                                       !.more = Len(r.page) = PageSize,
                                       !.offset = r.offset + PageSize,
                                       !.sound = r.alone /\ (r.reset \/ @)]}
    BY Zenon DEF Shown
  <1>4. PICK idle : idle = [screen EXCEPT !.loading = FALSE, !.loadingMore = @ /\ r.reset]
    OBVIOUS
  <1>5. /\ DOMAIN idle = ScreenFields /\ idle.offset = screen.offset /\ idle.filter = screen.filter
        /\ idle.sound = screen.sound /\ idle.more = screen.more /\ idle.list = screen.list
    BY <1>1, <1>4 DEF ScreenFields
  <1>6. screen' = idle \/ screen' = [idle EXCEPT !.list = IF r.reset THEN r.page ELSE @ \o r.page,
                                       !.more = Len(r.page) = PageSize,
                                       !.offset = r.offset + PageSize,
                                       !.sound = r.alone /\ (r.reset \/ @)]
    BY <1>3, <1>4, Zenon
  <1>7. PageSize \in Nat
    BY HistoryAssumption
  <1>8. ListedSessions(screen.filter)' = ListedSessions(screen'.filter)
    <2>1. PICK f : f = screen'.filter
      OBVIOUS
    <2>2. ListedSessions(f)' = ListedSessions(f)
      BY <1>2, ListedSame
    <2> QED
      BY <2>1, <2>2, Zenon
  <1>9. /\ DOMAIN screen' = ScreenFields /\ screen'.offset \in Nat /\ ScreenFits'
    <2>1. CASE screen' = idle
      BY <1>1, <1>5, <1>8, <2>1 DEF ScreenFits
    <2>2. CASE screen' = [idle EXCEPT !.list = IF r.reset THEN r.page ELSE @ \o r.page,
                                       !.more = Len(r.page) = PageSize,
                                       !.offset = r.offset + PageSize,
                                       !.sound = r.alone /\ (r.reset \/ @)]
      <3>1. PICK l, m, s : /\ l = IF r.reset THEN r.page ELSE screen.list \o r.page
                           /\ m = (Len(r.page) = PageSize)
                           /\ s = (r.alone /\ (r.reset \/ screen.sound))
        OBVIOUS
      <3>2. screen' = [idle EXCEPT !.list = l, !.more = m, !.offset = r.offset + PageSize, !.sound = s]
        BY <1>5, <2>2, <3>1
      <3>3. PICK v : v = [idle EXCEPT !.list = l, !.more = m, !.offset = r.offset + PageSize, !.sound = s]
        OBVIOUS
      <3>4. /\ DOMAIN v = ScreenFields /\ v.offset = r.offset + PageSize /\ v.filter = screen.filter
            /\ v.sound = s /\ v.more = m /\ v.list = l
        BY <1>5, <3>3 DEF ScreenFields
      <3>5. r.offset \in Nat
        BY <1>1, <1>3 DEF AskFits
      <3>6. ASSUME s
            PROVE  LET shown == ListedSessions(screen.filter) IN
                   /\ l = SubSeq(shown, 1, UpTo(r.offset + PageSize, Len(shown)))
                   /\ ~m => l = shown
        <4>1. r.alone /\ (r.reset \/ screen.sound)
          BY <3>1, <3>6
        <4> QED
          BY <1>3, <3>1, <4>1, PageFits
      <3>7. ScreenFits'
        BY <1>8, <3>2, <3>3, <3>4, <3>6 DEF ScreenFits
      <3> QED
        BY <1>7, <3>2, <3>3, <3>4, <3>5, <3>7
    <2> QED
      BY <1>6, <2>1, <2>2
  <1>10. ASSUME NEW t \in asked' PROVE AskFits(t)'
    <2>1. t \in asked /\ t # r
      BY <1>3, <1>10
    <2>2. AskFits(t)
      BY <1>1, <2>1
    <2>3. ~t.alone
      BY <1>3, <2>1, <2>2 DEF AskFits
    <2> QED
      BY <2>2, <2>3 DEF AskFits
  <1>11. CursorFits'
    BY <1>1, <1>2, CursorSame
  <1> QED
    BY <1>1, <1>2, <1>9, <1>10, <1>11 DEF HistoryInv

LEMMA DeleteAnsweredFits ==
    ASSUME HistoryInv, DeleteAnswered
    PROVE  HistoryInv'
  <1>1. /\ stored \in Seq(Nat) /\ CursorFits /\ DOMAIN screen = ScreenFields /\ screen.offset \in Nat
        /\ ScreenFits /\ \A r \in asked : AskFits(r)
    BY Zenon DEF HistoryInv
  <1>2. UNCHANGED <<stored, matching, asked, detail>>
    BY Zenon DEF DeleteAnswered
  <1>3. PICK l : screen' = screen \/ screen' = [screen EXCEPT !.list = l, !.sound = FALSE]
    BY Zenon DEF DeleteAnswered
  <1>4. ListedSessions(screen.filter)' = ListedSessions(screen'.filter)
    <2>1. PICK f : f = screen'.filter
      OBVIOUS
    <2>2. ListedSessions(f)' = ListedSessions(f)
      BY <1>2, ListedSame
    <2> QED
      BY <2>1, <2>2, Zenon
  <1>5. /\ DOMAIN screen' = ScreenFields /\ screen'.offset = screen.offset
        /\ screen'.filter = screen.filter /\ ScreenFits'
    <2>1. CASE screen' = screen
      BY <1>1, <1>4, <2>1 DEF ScreenFits
    <2>2. CASE screen' = [screen EXCEPT !.list = l, !.sound = FALSE]
      <3>1. PICK v : v = [screen EXCEPT !.list = l, !.sound = FALSE]
        OBVIOUS
      <3>2. /\ DOMAIN v = ScreenFields /\ v.offset = screen.offset /\ v.filter = screen.filter /\ ~v.sound
        BY <1>1, <3>1 DEF ScreenFields
      <3> QED
        BY <2>2, <3>1, <3>2 DEF ScreenFits
    <2> QED
      BY <1>3, <2>1, <2>2
  <1>6. ASSUME NEW r \in asked' PROVE AskFits(r)'
    <2>1. AskFits(r)
      BY <1>1, <1>2, <1>6
    <2>2. Page(ListedSessions(r.filter), r.offset)' = Page(ListedSessions(r.filter), r.offset)
      <3>1. PICK f, o : f = r.filter /\ o = r.offset
        OBVIOUS
      <3>2. ListedSessions(f)' = ListedSessions(f)
        BY <1>2, ListedSame
      <3> QED
        BY <3>1, <3>2, Zenon DEF Page
    <2> QED
      BY <1>2, <1>5, <2>1, <2>2 DEF AskFits
  <1>7. CursorFits'
    BY <1>1, <1>2, CursorSame
  <1> QED
    BY <1>1, <1>2, <1>5, <1>6, <1>7 DEF HistoryInv

-----------------------------------------------------------------------------
(* HistoryPages: the messages of a session, which are numbered. *)

LEMMA MountedIs ==
    ASSUME NEW n, NEW v, v = Mounted(n)
    PROVE  DOMAIN v = ScreenFields /\ v.offset = 0 /\ v.filter = "" /\ ~v.sound
  BY DEF Mounted, ScreenFields

LEMMA NumbersAre ==
    ASSUME NEW n \in Nat, NEW k \in 0..n
    PROVE  /\ Numbers(n) \in Seq(Nat) /\ Len(Numbers(n)) = n
           /\ SubSeq(Numbers(n), 1, k) = Numbers(k)
  <1>1. Numbers(n) \in Seq(Nat) /\ Len(Numbers(n)) = n /\ \A i \in 1..n : Numbers(n)[i] = i
    BY DEF Numbers
  <1>2. Numbers(k) \in Seq(Nat) /\ Len(Numbers(k)) = k /\ \A i \in 1..k : Numbers(k)[i] = i
    BY DEF Numbers
  <1>3. \A i \in 1..k : Numbers(n)[i] \in Nat
    BY <1>1
  <1>4. /\ SubSeq(Numbers(n), 1, k) \in Seq(Nat)
        /\ Len(SubSeq(Numbers(n), 1, k)) = k
        /\ \A i \in 1..k : SubSeq(Numbers(n), 1, k)[i] = Numbers(n)[i]
    BY <1>1, <1>3
  <1>5. PICK a, b : a = SubSeq(Numbers(n), 1, k) /\ b = Numbers(k)
    OBVIOUS
  <1>6. a \in Seq(Nat) /\ b \in Seq(Nat) /\ Len(a) = Len(b) /\ \A i \in 1..Len(a) : a[i] = b[i]
    BY <1>1, <1>2, <1>4, <1>5
  <1>7. a = b
    BY <1>6, SeqEqual
  <1> QED
    BY <1>1, <1>5, <1>7

\* Behind a message with its own number comes the next; behind none, the first.
LEMMA StartIs ==
    ASSUME NEW n \in Nat, NEW cursor \in 0..n
    PROVE  StartAfter(Numbers(n), cursor) = cursor
  <1> DEFINE here == {i \in 1..Len(Numbers(n)) : Numbers(n)[i] = cursor}
  <1>1. here = IF cursor = 0 THEN {} ELSE {cursor}
    BY DEF Numbers
  <1>2. CASE cursor = 0
    BY <1>1, <1>2, Zenon DEF StartAfter
  <1>3. CASE cursor # 0
    <2>1. here = {cursor, cursor} /\ here # {}
      BY <1>1, <1>3
    <2>2. Min({cursor, cursor}) = cursor
      BY LesserOfTwo DEF UpTo
    <2> QED
      BY <2>1, <2>2, Zenon DEF StartAfter
  <1> QED
    BY <1>2, <1>3

\* A page put behind the messages up to its cursor.
LEMMA PageOfMessages ==
    ASSUME HistoryInv, NEW s \in DOMAIN stored, NEW cursor \in 0..stored[s],
           NEW d, d = WithPage(s, Numbers(cursor), cursor)
    PROVE  /\ d.s = s /\ d.total = stored[s]
           /\ d.list = Numbers(UpTo(cursor + PageSize, stored[s]))
           /\ d.more <=> stored[s] > cursor + PageSize
           /\ d.more => d.cursor = cursor + PageSize
  <1>1. stored[s] \in Nat /\ cursor \in Nat /\ PageSize \in Nat /\ PageSize > 0
    BY HistoryAssumption DEF HistoryInv
  <1>2. PICK n \in Nat : n = stored[s]
    BY <1>1
  <1>3. PICK m : m = Numbers(n)
    OBVIOUS
  <1>4. Messages(s) = m
    BY <1>2, <1>3, Zenon DEF Messages, Numbers
  <1>5. StartAfter(m, cursor) = cursor
    BY <1>2, <1>3, StartIs
  <1>6. m \in Seq(Nat) /\ Len(m) = n
    BY <1>3, NumbersAre, <1>1
  <1>7. UpTo(cursor + PageSize, n) \in 0..n /\ UpTo(cursor, n) = cursor /\ cursor \in 0..n
    BY <1>1, <1>2 DEF UpTo
  <1>8. Numbers(cursor) = SubSeq(m, 1, UpTo(cursor, Len(m)))
    BY <1>3, <1>6, <1>7, NumbersAre
  <1>9. PICK page, k : page = Page(m, cursor) /\ k = UpTo(cursor + PageSize, n)
    OBVIOUS
  <1>10. /\ SubSeq(m, 1, UpTo(cursor, Len(m))) \o page = SubSeq(m, 1, UpTo(cursor + PageSize, Len(m)))
         /\ Len(page) = IF cursor + PageSize <= Len(m) THEN PageSize
                                        ELSE IF cursor <= Len(m) THEN Len(m) - cursor ELSE 0
    BY <1>1, <1>6, <1>9, PageFollows
  <1>11. Numbers(cursor) \o page = Numbers(k)
    BY <1>3, <1>6, <1>7, <1>8, <1>9, <1>10, NumbersAre
  <1>12. n > cursor + PageSize => Last(page) = cursor + PageSize
    <2>1. ASSUME n > cursor + PageSize PROVE Last(page) = cursor + PageSize
      <3>1. Len(page) = PageSize /\ k = cursor + PageSize
        BY <1>1, <1>6, <1>9, <1>10, <2>1 DEF UpTo
      <3>2. page = SubSeq(m, cursor + 1, cursor + PageSize)
        <4>1. Min({cursor + PageSize, Len(m)}) = cursor + PageSize
          BY <1>1, <1>6, <2>1, LesserOfTwo DEF UpTo
        <4> QED
          BY <1>9, <4>1, Zenon DEF Page
      <3>3. page[PageSize] = m[cursor + PageSize]
        <4>1. PICK a, b : a = cursor + 1 /\ b = cursor + PageSize
          OBVIOUS
        <4>2. a \in Int /\ b \in Int /\ \A i \in a..b : m[i] \in Nat
          BY <1>1, <1>6, <2>1, <4>1
        <4>3. \A i \in 1..(b - a + 1) : SubSeq(m, a, b)[i] = m[a + i - 1]
          BY <4>2, SubSeqProperties
        <4>4. PageSize \in 1..(b - a + 1) /\ a + PageSize - 1 = b
          BY <1>1, <4>1
        <4>5. SubSeq(m, a, b)[PageSize] = m[b]
          BY <4>3, <4>4
        <4> QED
          BY <3>2, <4>1, <4>5
      <3>4. m[cursor + PageSize] = cursor + PageSize
        BY <1>1, <1>3, <2>1 DEF Numbers
      <3> QED
        BY <3>1, <3>3, <3>4 DEF Last
    <2> QED
      BY <2>1
  <1>13. PICK more, c : /\ more = (n > cursor + PageSize)
                        /\ c = IF more THEN Last(page) ELSE 0
    OBVIOUS
  <1>14. PICK l : l = Numbers(cursor) \o page
    OBVIOUS
  <1>15. d = [s |-> s, list |-> l, more |-> more, total |-> n, cursor |-> c]
    BY <1>2, <1>4, <1>5, <1>9, <1>13, <1>14, Zenon DEF WithPage
  <1>16. d.s = s /\ d.total = n /\ d.list = l /\ d.more = more /\ d.cursor = c
    BY <1>15
  <1> QED
    BY <1>2, <1>9, <1>11, <1>12, <1>13, <1>14, <1>16

\* The detail screen after a page of it.
LEMMA PageFitsBehind ==
    ASSUME HistoryInv, NEW s \in DOMAIN stored, NEW cursor \in 0..stored[s],
           detail' = WithPage(s, Numbers(cursor), cursor), UNCHANGED stored
    PROVE  CursorFits'
  <1>1. PICK d : d = WithPage(s, Numbers(cursor), cursor)
    OBVIOUS
  <1>2. /\ d.s = s /\ d.total = stored[s]
        /\ d.list = Numbers(UpTo(cursor + PageSize, stored[s]))
        /\ d.more <=> stored[s] > cursor + PageSize
        /\ d.more => d.cursor = cursor + PageSize
    BY <1>1, PageOfMessages
  <1>3. stored[s] \in Nat /\ cursor \in Nat /\ PageSize \in Nat /\ PageSize > 0
    BY HistoryAssumption DEF HistoryInv
  <1>4. PICK k \in Nat : k = UpTo(cursor + PageSize, stored[s])
    BY <1>3 DEF UpTo
  <1>5. d.list = Numbers(k) /\ Len(d.list) = k
    BY <1>2, <1>4, NumbersAre
  <1>6. /\ ~d.more => k = d.total
        /\ d.more => d.cursor = k /\ d.cursor # 0 /\ d.cursor <= stored[s]
    <2>1. PICK n, c, t : n = stored[s] /\ c = d.cursor /\ t = d.total
      OBVIOUS
    <2> DEFINE more == d.more
    <2> n \in Nat
      BY <1>3, <2>1
    <2>2. t = n /\ (more <=> n > cursor + PageSize) /\ (more => c = cursor + PageSize)
      BY <1>2, <2>1
    <2>3. k = IF cursor + PageSize < n THEN cursor + PageSize ELSE n
      BY <1>4, <2>1 DEF UpTo
    <2>4. (~more => k = t) /\ (more => c = k /\ c # 0 /\ c <= n)
      BY <1>3, <2>2, <2>3
    <2> QED
      BY <2>1, <2>4
  <1>7. detail' = d
    BY <1>1
  <1>8. Len(d.list) \in Nat /\ d.list = Numbers(Len(d.list))
    BY <1>4, <1>5, Zenon
  <1> QED
    BY <1>2, <1>5, <1>6, <1>7, <1>8 DEF CursorFits

LEMMA OpenFits ==
    ASSUME HistoryInv, OpenDetail
    PROVE  HistoryInv'
  <1>1. stored \in Seq(Nat)
    BY Zenon DEF HistoryInv
  <1>2. UNCHANGED <<stored, matching>> /\ asked' = {} /\ screen' = Mounted(screen.asks)
    BY Zenon DEF OpenDetail
  <1>3. PICK s \in DOMAIN stored : detail' = WithPage(s, <<>>, 0)
    BY Zenon DEF OpenDetail
  <1>4. Numbers(0) = <<>> /\ 0 \in 0..stored[s]
    BY <1>1, <1>3 DEF Numbers
  <1>5. CursorFits'
    <2>1. detail' = WithPage(s, Numbers(0), 0)
      BY <1>3, <1>4, Zenon
    <2>2. UNCHANGED stored
      BY <1>2
    <2> QED
      BY <1>4, <2>1, <2>2, PageFitsBehind
  <1>6. PICK n, v : n = screen.asks /\ v = Mounted(n)
    OBVIOUS
  <1>7. DOMAIN v = ScreenFields /\ v.offset = 0 /\ ~v.sound
    BY <1>6, MountedIs
  <1>8. screen' = v
    BY <1>2, <1>6, Zenon
  <1>9. ScreenFits'
    BY <1>7, <1>8 DEF ScreenFits
  <1> QED
    BY <1>1, <1>2, <1>5, <1>7, <1>8, <1>9 DEF HistoryInv

\* What fits the sessions and the screen still fits when they stay.
LEMMA SameFits ==
    ASSUME ScreenFits, \A r \in asked : AskFits(r), UNCHANGED <<stored, matching, screen, asked>>
    PROVE  ScreenFits' /\ \A r \in asked' : AskFits(r)'
  <1>1. PICK f : f = screen.filter
    OBVIOUS
  <1>2. ListedSessions(f)' = ListedSessions(f)
    BY ListedSame
  <1>3. ListedSessions(screen.filter)' = ListedSessions(screen.filter)
    BY <1>1, <1>2, Zenon
  <1>4. ScreenFits'
    BY <1>3 DEF ScreenFits
  <1>5. ASSUME NEW r \in asked' PROVE AskFits(r)'
    <2>1. AskFits(r)
      BY <1>5
    <2>2. Page(ListedSessions(r.filter), r.offset)' = Page(ListedSessions(r.filter), r.offset)
      <3>1. PICK g, o : g = r.filter /\ o = r.offset
        OBVIOUS
      <3>2. ListedSessions(g)' = ListedSessions(g)
        BY ListedSame
      <3> QED
        BY <3>1, <3>2, Zenon DEF Page
    <2> QED
      BY <2>1, <2>2 DEF AskFits
  <1> QED
    BY <1>4, <1>5

LEMMA LoadMoreMessagesFits ==
    ASSUME HistoryInv, LoadMoreMessages
    PROVE  HistoryInv'
  <1>1. /\ stored \in Seq(Nat) /\ CursorFits /\ DOMAIN screen = ScreenFields /\ screen.offset \in Nat
        /\ ScreenFits /\ \A r \in asked : AskFits(r)
    BY Zenon DEF HistoryInv
  <1>2. UNCHANGED <<stored, matching, screen, asked>> /\ detail.more /\ stored[detail.s] > 0
    BY Zenon DEF LoadMoreMessages
  <1>3. PICK s, cursor : s = detail.s /\ cursor = detail.cursor
    OBVIOUS
  <1>4. s \in DOMAIN stored /\ detail.list = Numbers(cursor) /\ cursor \in 0..stored[s]
    <2>1. /\ s \in DOMAIN stored /\ cursor \in Nat /\ cursor = Len(detail.list)
          /\ stored[s] = 0 \/ cursor <= stored[s]
      BY <1>1, <1>2, <1>3 DEF CursorFits
    <2>2. detail.list = Numbers(Len(detail.list))
      BY <1>1 DEF CursorFits
    <2>3. stored[s] \in Nat /\ stored[s] > 0
      BY <1>1, <1>2, <1>3, <2>1
    <2>4. detail.list = Numbers(cursor)
      BY <2>1, <2>2, Zenon
    <2> QED
      BY <2>1, <2>3, <2>4
  <1>5. detail' = WithPage(s, Numbers(cursor), cursor)
    BY <1>3, <1>4, Zenon DEF LoadMoreMessages
  <1>6. CursorFits'
    <2>1. UNCHANGED stored
      BY <1>2
    <2> QED
      BY <1>4, <1>5, <2>1, PageFitsBehind
  <1>7. ScreenFits' /\ \A r \in asked' : AskFits(r)'
    BY <1>1, <1>2, SameFits
  <1> QED
    BY <1>1, <1>2, <1>6, <1>7 DEF HistoryInv

\* The list asked for anew.
LEMMA AnewFits ==
    ASSUME NEW n, screen' = Mounted(n), asked' = {Asks("", 0, TRUE)}
    PROVE  /\ DOMAIN screen' = ScreenFields /\ screen'.offset \in Nat /\ ScreenFits'
           /\ \A r \in asked' : AskFits(r)'
  <1>1. PICK v : v = Mounted(n)
    OBVIOUS
  <1>2. DOMAIN v = ScreenFields /\ v.offset = 0 /\ v.filter = "" /\ ~v.sound
    BY <1>1, MountedIs
  <1>3. PICK f, o, reset : f = "" /\ o = 0 /\ reset \in BOOLEAN /\ reset
    OBVIOUS
  <1>4. PICK r : r = Asks(f, o, reset)
    OBVIOUS
  <1>5. DOMAIN r = AskFields /\ r.filter = f /\ r.offset = o /\ r.reset = reset /\ ~r.answered
    BY <1>4 DEF Asks, AskFields
  <1>6. screen' = v
    BY <1>1
  <1>7. asked' = {r}
    <2>1. reset = TRUE
      BY <1>3
    <2> QED
      BY <1>3, <1>4, <2>1, Zenon
  <1>8. AskFits(r)'
    <2>1. r.reset /\ r.offset = 0 /\ r.filter = screen'.filter
      BY <1>2, <1>3, <1>5, <1>6
    <2>2. DOMAIN r = AskFields /\ ~r.answered
      BY <1>5
    <2>3. r.offset = IF r.reset THEN 0 ELSE screen'.offset
      BY <2>1
    <2>4. r.offset \in Nat
      <3>1. 0 \in Nat
        OBVIOUS
      <3> QED
        BY <2>1, <3>1, Zenon
    <2> QED
      BY <1>7, <2>1, <2>2, <2>3, <2>4, Zenon DEF AskFits
  <1>9. ScreenFits'
    BY <1>2, <1>6 DEF ScreenFits
  <1>10. \A q \in asked' : q = r
    BY <1>7
  <1>11. \A q \in asked' : AskFits(q)'
    BY <1>8, <1>10, Zenon
  <1>12. DOMAIN screen' = ScreenFields /\ screen'.offset \in Nat
    <2>1. 0 \in Nat
      OBVIOUS
    <2> QED
      BY <1>2, <1>6, <2>1, Zenon
  <1> QED
    BY <1>9, <1>11, <1>12

LEMMA CloseFits ==
    ASSUME HistoryInv, CloseDetail
    PROVE  HistoryInv'
  <1>1. stored \in Seq(Nat)
    BY Zenon DEF HistoryInv
  <1>2. /\ UNCHANGED <<stored, matching>> /\ detail' = NoDetail
        /\ asked' = {Asks("", 0, TRUE)} /\ screen' = Mounted(screen.asks + 1)
    BY Zenon DEF CloseDetail
  <1>3. CursorFits'
    <2>1. PICK l : l = <<>>
      OBVIOUS
    <2>2. PICK d : d = NoDetail
      OBVIOUS
    <2>3. d.list = l /\ d.total = 0 /\ ~d.more
      BY <2>1, <2>2 DEF NoDetail
    <2>4. Len(l) = 0 /\ l = Numbers(0)
      BY <2>1 DEF Numbers
    <2>5. d.list = Numbers(Len(d.list)) /\ Len(d.list) = 0
      BY <2>3, <2>4, Zenon
    <2> QED
      <3>1. detail' = d
        BY <1>2, <2>2, Zenon
      <3> QED
        BY <2>3, <2>5, <3>1 DEF CursorFits
  <1>4. /\ DOMAIN screen' = ScreenFields /\ screen'.offset \in Nat /\ ScreenFits'
        /\ \A r \in asked' : AskFits(r)'
    BY <1>2, AnewFits
  <1> QED
    BY <1>1, <1>2, <1>3, <1>4 DEF HistoryInv

-----------------------------------------------------------------------------
(* HistoryPages: the invariant. *)

LEMMA HistoryBegins == HistoryInit => HistoryInv
  <1> SUFFICES ASSUME HistoryInit PROVE HistoryInv
    OBVIOUS
  <1>1. stored \in Seq(Nat)
    <2>1. PICK n \in 0..MaxSessions : stored = [s \in 1..n |-> 1]
      BY Zenon DEF HistoryInit
    <2> QED
      BY <2>1, HistoryAssumption
  <1>2. PICK v : v = screen
    OBVIOUS
  <1>3. DOMAIN screen = ScreenFields /\ screen.offset = 0 /\ screen.filter = "" /\ ~screen.sound
    BY MountedIs, Zenon DEF HistoryInit
  <1>4. PICK f, o, reset : f = "" /\ o = 0 /\ reset \in BOOLEAN /\ reset
    OBVIOUS
  <1>5. PICK r : r = Asks(f, o, reset)
    OBVIOUS
  <1>6. DOMAIN r = AskFields /\ r.filter = f /\ r.offset = o /\ r.reset = reset /\ ~r.answered
    BY <1>5 DEF Asks, AskFields
  <1>7. asked = {r}
    <2>1. reset = TRUE
      BY <1>4
    <2> QED
      BY <1>4, <1>5, <2>1, Zenon DEF HistoryInit
  <1>8. AskFits(r)
    <2>1. r.reset /\ r.offset = 0 /\ r.filter = screen.filter
      BY <1>3, <1>4, <1>6
    <2>2. DOMAIN r = AskFields /\ ~r.answered
      BY <1>6
    <2>3. r.offset = IF r.reset THEN 0 ELSE screen.offset
      BY <2>1
    <2>4. r.offset \in Nat
      <3>1. 0 \in Nat
        OBVIOUS
      <3> QED
        BY <2>1, <3>1, Zenon
    <2> QED
      BY <1>7, <2>1, <2>2, <2>3, <2>4, Zenon DEF AskFits
  <1>9. \A q \in asked : AskFits(q)
    <2>1. \A q \in asked : q = r
      BY <1>7
    <2> QED
      BY <1>8, <2>1, Zenon
  <1>10. CursorFits
    <2>1. PICK l : l = <<>>
      OBVIOUS
    <2>2. PICK d : d = NoDetail
      OBVIOUS
    <2>3. d.list = l /\ d.total = 0 /\ ~d.more
      BY <2>1, <2>2 DEF NoDetail
    <2>4. Len(l) = 0 /\ l = Numbers(0)
      BY <2>1 DEF Numbers
    <2>5. d.list = Numbers(Len(d.list)) /\ Len(d.list) = 0
      BY <2>3, <2>4, Zenon
    <2>6. detail = d
      BY <2>2, Zenon DEF HistoryInit
    <2> QED
      BY <2>3, <2>5, <2>6 DEF CursorFits
  <1>11. screen.offset \in Nat
    <2>1. 0 \in Nat
      OBVIOUS
    <2> QED
      BY <1>3, <2>1, Zenon
  <1>12. ScreenFits
    BY <1>3 DEF ScreenFits
  <1> QED
    BY <1>1, <1>3, <1>9, <1>10, <1>11, <1>12 DEF HistoryInv

LEMMA HistoryStutters ==
    ASSUME HistoryInv, UNCHANGED historyVars
    PROVE  HistoryInv'
  <1>1. /\ stored \in Seq(Nat) /\ CursorFits /\ DOMAIN screen = ScreenFields /\ screen.offset \in Nat
        /\ ScreenFits /\ \A r \in asked : AskFits(r)
    BY Zenon DEF HistoryInv
  <1>2. UNCHANGED <<stored, matching, screen, asked, detail>>
    BY Zenon DEF historyVars
  <1>3. ScreenFits' /\ \A r \in asked' : AskFits(r)'
    BY <1>1, <1>2, SameFits
  <1>4. CursorFits'
    BY <1>1, <1>2, CursorSame
  <1> QED
    BY <1>1, <1>2, <1>3, <1>4 DEF HistoryInv

LEMMA HistoryStays == HistoryInv /\ [HistoryNext]_historyVars => HistoryInv'
  BY GrowsFits, SetFilterFits, LoadMoreFits, AnsweredFits, ShownFits, DeleteFits, DeleteAnsweredFits,
     DeleteAllFits, OpenFits, LoadMoreMessagesFits, CloseFits, HistoryStutters, Zenon DEF HistoryNext

LEMMA HistoryHolds == HistoryInv => HistoryFits
  <1> SUFFICES ASSUME HistoryInv PROVE HistoryFits
    OBVIOUS
  <1>1. ListFits
    <2> SUFFICES ASSUME screen.sound
                 PROVE  LET shown == ListedSessions(screen.filter) IN
                        /\ screen.list = SubSeq(shown, 1, Min({screen.offset, Len(shown)}))
                        /\ ~screen.more => screen.list = shown
      BY Zenon DEF ListFits
    <2>1. ScreenFits /\ screen.offset \in Nat /\ stored \in Seq(Nat)
      BY Zenon DEF HistoryInv
    <2>2. PICK f, o, shown : f = screen.filter /\ o = screen.offset /\ shown = ListedSessions(f)
      OBVIOUS
    <2>3. Len(shown) \in Nat
      <3>1. ListedSessions(f) \in Seq(Range(ListedSessions(f)))
        BY <2>1, ListedIsSeq
      <3>2. PICK S : S = Range(shown)
        OBVIOUS
      <3>3. shown \in Seq(S)
        BY <2>2, <3>1, <3>2, Zenon
      <3> QED
        BY <3>3
    <2>4. Min({o, Len(shown)}) = UpTo(o, Len(shown))
      BY <2>1, <2>2, <2>3, LesserOfTwo
    <2>5. /\ screen.list = SubSeq(shown, 1, UpTo(o, Len(shown)))
          /\ ~screen.more => screen.list = shown
      BY <2>1, <2>2, Zenon DEF ScreenFits
    <2> QED
      BY <2>2, <2>4, <2>5, Zenon
  <1>2. DetailFits
    BY Zenon DEF HistoryInv, CursorFits, DetailFits, Numbers
  <1> QED
    BY <1>1, <1>2 DEF HistoryFits

\* The pages of the list and of the messages fit together: nothing is left out and nothing shown
\* twice while requests do not overlap and the list stays as it is; the messages even while their
\* session grows (HistoryScreen.tsx:46-69, HistoryDetailScreen.tsx:30-49).
THEOREM PagesFit == HistorySpec => []HistoryFits
  BY HistoryBegins, HistoryStays, HistoryHolds, PTL DEF HistorySpec

-----------------------------------------------------------------------------
(* Hooks. *)

WalkFields == {"phase", "list", "live", "i", "result", "last", "top", "ran", "due", "changed", "sound"}

IsHook(e) == e.priority \in Int /\ -1000 <= e.priority /\ (e.name = "secret_scanner" => e.priority = 0)

\* A list as register leaves it: sorted, no name twice, and before the scanner what comes first.
Sorted(list) == \A j, k \in DOMAIN list : j < k => list[j].priority <= list[k].priority
Distinct(list) == \A j, k \in DOMAIN list : list[j].name = list[k].name => j = k
ScannerFirst(list) ==
    \A j, k \in DOMAIN list : (j < k /\ list[k].name = "secret_scanner") => list[j].priority < 0
WellKept(list) ==
    /\ list \in Seq(Range(list)) /\ \A k \in DOMAIN list : IsHook(list[k])
    /\ Sorted(list) /\ Distinct(list) /\ ScannerFirst(list)

\* What a hook that was registered as the dispatch began has not to be called for.
Due(w, k) == w.list[k].name \in w.due \ w.ran

\* Nothing that is due lies behind the walk, and none of it has a lower priority than what has run.
InTurn(w) ==
    /\ WellKept(w.list) /\ w.i \in 0..Len(w.list) /\ w.top \in Int
    /\ \A x \in w.due : x \in w.ran \/ \E k \in DOMAIN w.list : k > w.i /\ w.list[k].name = x
    /\ \A k \in DOMAIN w.list : Due(w, k) => w.top <= w.list[k].priority

\* A scanner that has run has left no secret.
NoSecretLeft(w) == ("secret_scanner" \in w.due \cap w.ran /\ ~w.changed) => w.result # "secret"

WalkFits(w, registered) ==
    /\ DOMAIN w = WalkFields /\ w.sound = TRUE /\ w.live \in BOOLEAN
    /\ w.phase \in {"starting", "running"} => InTurn(w) /\ NoSecretLeft(w)
    /\ w.phase \in {"starting", "running"} \/ ~w.live
    /\ w.live => w.list = registered

ComingFits == \A n \in HookNames : IsHook(coming[n]) /\ coming[n].name = n

HooksInv ==
    /\ ComingFits /\ WellKept(hooks)
    /\ DOMAIN walk = Dispatches /\ \A d \in Dispatches : WalkFits(walk[d], hooks)

-----------------------------------------------------------------------------
(* Hooks: a list with one entry more or one less. *)

\* The part of a sorted list that comes before a priority is its beginning.
LEMMA BeforeIsBeginning ==
    ASSUME NEW list, WellKept(list), NEW p \in Int
    PROVE  LET before == {i \in DOMAIN list : list[i].priority <= p} IN
           /\ Cardinality(before) \in 0..Len(list)
           /\ \A i \in DOMAIN list : list[i].priority <= p <=> i <= Cardinality(before)
  <1> DEFINE before == {i \in DOMAIN list : list[i].priority <= p}
             n == Len(list)
  <1>1. DOMAIN list = 1..n /\ n \in Nat /\ \A i \in 1..n : list[i].priority \in Int
    BY DEF WellKept, IsHook
  <1>2. \A j, k \in 1..n : j < k => list[j].priority <= list[k].priority
    BY <1>1 DEF WellKept, Sorted
  <1>3. IsFiniteSet(1..n) /\ Cardinality(1..n) = n
    BY <1>1, FS_Interval
  <1>4. before \in SUBSET (1..n)
    BY <1>1
  <1>5. IsFiniteSet(before) /\ Cardinality(before) <= n
    BY <1>3, <1>4, FS_Subset
  <1>6. Cardinality(before) \in Nat
    BY <1>5, FS_CardinalityType
  <1>7. ASSUME NEW i \in before PROVE i <= Cardinality(before)
    <2>1. i \in 1..n /\ 1..i \subseteq before
      <3>1. i \in 1..n /\ list[i].priority <= p
        BY <1>1
      <3>2. ASSUME NEW j \in 1..i PROVE j \in before
        <4>1. j \in 1..n /\ (j < i \/ j = i)
          BY <3>1
        <4>2. list[j].priority <= list[i].priority
          BY <1>1, <1>2, <3>1, <4>1
        <4> QED
          BY <1>1, <3>1, <4>1, <4>2
      <3> QED
        BY <3>1, <3>2
    <2>2. Cardinality(1..i) = i
      BY <2>1, FS_Interval
    <2>3. Cardinality(1..i) <= Cardinality(before)
      BY <1>5, <2>1, FS_Subset
    <2> QED
      BY <2>2, <2>3
  <1> HIDE DEF before
  <1>8. before \in SUBSET (1..Cardinality(before))
    BY <1>4, <1>6, <1>7
  <1>9. IsFiniteSet(1..Cardinality(before)) /\ Cardinality(1..Cardinality(before)) = Cardinality(before)
    BY <1>6, FS_Interval
  <1>10. before = 1..Cardinality(before)
    BY <1>8, <1>9, FS_Subset
  <1>11. \A i \in DOMAIN list : list[i].priority <= p <=> i \in before
    BY DEF before
  <1>12. \A i \in 1..n : i \in before <=> i <= Cardinality(before)
    BY <1>6, <1>10
  <1>13. Cardinality(before) \in 0..n
    BY <1>1, <1>5, <1>6
  <1>14. before = {i \in DOMAIN list : list[i].priority <= p}
    BY DEF before
  <1> QED
    BY <1>1, <1>11, <1>12, <1>13, <1>14, Zenon

\* l is the list with h behind its k-th entry, or without its k-th entry.
WithEntry(l, list, k, h, S) ==
    /\ l \in Seq(S) /\ Len(l) = Len(list) + 1
    /\ \A j \in 1..k : l[j] = list[j]
    /\ l[k + 1] = h
    /\ \A j \in (k + 2)..(Len(list) + 1) : l[j] = list[j - 1]
WithoutEntry(l, list, k, S) ==
    /\ l \in Seq(S) /\ Len(l) = Len(list) - 1
    /\ \A j \in 1..(k - 1) : l[j] = list[j]
    /\ \A j \in k..(Len(list) - 1) : l[j] = list[j + 1]

LEMMA InsertedIs ==
    ASSUME NEW S, NEW list \in Seq(S), NEW h \in S, NEW k \in 0..Len(list),
           NEW l, l = InsertAt(list, k + 1, h)
    PROVE  WithEntry(l, list, k, h, S)
  <1> DEFINE n == Len(list)
  <1>1. n \in Nat /\ k \in Nat /\ k <= n
    OBVIOUS
  <1>2. PICK a, b : a = SubSeq(list, 1, k) /\ b = SubSeq(list, k + 1, n)
    OBVIOUS
  <1>3. a \in Seq(S) /\ Len(a) = k /\ \A j \in 1..k : a[j] = list[j]
    BY <1>1, <1>2
  <1>4. b \in Seq(S) /\ Len(b) = n - k /\ \A j \in 1..(n - k) : b[j] = list[k + j]
    <2>1. \A j \in (k + 1)..n : list[j] \in S
      BY <1>1
    <2>2. k + 1 \in Int /\ n \in Int
      BY <1>1
    <2>3. /\ SubSeq(list, k + 1, n) \in Seq(S)
          /\ Len(SubSeq(list, k + 1, n)) = IF k + 1 <= n THEN n - (k + 1) + 1 ELSE 0
          /\ \A j \in 1..(n - (k + 1) + 1) : SubSeq(list, k + 1, n)[j] = list[k + 1 + j - 1]
      BY <2>1, <2>2, SubSeqProperties
    <2>4. ASSUME NEW j \in 1..(n - k) PROVE SubSeq(list, k + 1, n)[j] = list[k + j]
      <3>1. j \in 1..(n - (k + 1) + 1) /\ k + 1 + j - 1 = k + j
        BY <1>1
      <3>2. SubSeq(list, k + 1, n)[j] = list[k + 1 + j - 1]
        BY <2>3, <3>1
      <3> QED
        BY <3>1, <3>2
    <2> QED
      BY <1>1, <1>2, <2>3, <2>4
  <1>5. l = (a \o <<h>>) \o b
    <2>1. PICK i : i = k + 1
      OBVIOUS
    <2>2. i - 1 = k
      BY <1>1, <2>1
    <2>3. InsertAt(list, i, h) = (SubSeq(list, 1, i - 1) \o <<h>>) \o SubSeq(list, i, Len(list))
      BY Zenon DEF InsertAt
    <2> QED
      BY <1>2, <2>1, <2>2, <2>3, Zenon
  <1>6. PICK c : c = a \o <<h>>
    OBVIOUS
  <1>7. c \in Seq(S) /\ Len(c) = k + 1 /\ (\A j \in 1..k : c[j] = list[j]) /\ c[k + 1] = h
    BY <1>1, <1>3, <1>6
  <1>8. l = c \o b
    BY <1>5, <1>6
  <1>9. l \in Seq(S) /\ Len(l) = n + 1
    <2>1. b \in Seq(S) /\ c \in Seq(S) /\ Len(c) + Len(b) = n + 1
      BY <1>1, <1>4, <1>7
    <2> QED
      BY <1>8, <2>1, ConcatProperties
  <1>10. \A j \in 1..(k + 1) : l[j] = c[j]
    <2>1. b \in Seq(S) /\ c \in Seq(S) /\ Len(c) = k + 1 /\ Len(b) \in Nat
      BY <1>4, <1>7
    <2>2. \A j \in 1..(Len(c) + Len(b)) : (c \o b)[j] = IF j <= Len(c) THEN c[j] ELSE b[j - Len(c)]
      BY <2>1, ConcatProperties
    <2> QED
      BY <1>1, <1>8, <2>1, <2>2
  <1>11. ASSUME NEW j \in (k + 2)..(n + 1) PROVE l[j] = list[j - 1]
    <2>1. j - (k + 1) \in 1..(n - k) /\ k + (j - (k + 1)) = j - 1
      BY <1>1, <1>11
    <2>2. l[j] = b[j - (k + 1)]
      BY <1>1, <1>4, <1>7, <1>8, <1>11
    <2>3. b[j - (k + 1)] = list[k + (j - (k + 1))]
      BY <1>4, <2>1
    <2> QED
      BY <2>1, <2>2, <2>3
  <1> QED
    BY <1>1, <1>7, <1>9, <1>10, <1>11 DEF WithEntry

LEMMA RemovedIs ==
    ASSUME NEW S, NEW list \in Seq(S), NEW k \in DOMAIN list, NEW l, l = RemoveAt(list, k)
    PROVE  WithoutEntry(l, list, k, S)
  <1> DEFINE n == Len(list)
  <1>1. n \in Nat /\ k \in 1..n
    OBVIOUS
  <1>2. PICK a, b : a = SubSeq(list, 1, k - 1) /\ b = SubSeq(list, k + 1, n)
    OBVIOUS
  <1>3. a \in Seq(S) /\ Len(a) = k - 1 /\ \A j \in 1..(k - 1) : a[j] = list[j]
    BY <1>1, <1>2
  <1>4. b \in Seq(S) /\ Len(b) = n - k /\ \A j \in 1..(n - k) : b[j] = list[k + j]
    <2>1. \A j \in (k + 1)..n : list[j] \in S
      BY <1>1
    <2>2. k + 1 \in Int /\ n \in Int
      BY <1>1
    <2>3. /\ SubSeq(list, k + 1, n) \in Seq(S)
          /\ Len(SubSeq(list, k + 1, n)) = IF k + 1 <= n THEN n - (k + 1) + 1 ELSE 0
          /\ \A j \in 1..(n - (k + 1) + 1) : SubSeq(list, k + 1, n)[j] = list[k + 1 + j - 1]
      BY <2>1, <2>2, SubSeqProperties
    <2>4. ASSUME NEW j \in 1..(n - k) PROVE SubSeq(list, k + 1, n)[j] = list[k + j]
      <3>1. j \in 1..(n - (k + 1) + 1) /\ k + 1 + j - 1 = k + j
        BY <1>1
      <3>2. SubSeq(list, k + 1, n)[j] = list[k + 1 + j - 1]
        BY <2>3, <3>1
      <3> QED
        BY <3>1, <3>2
    <2> QED
      BY <1>1, <1>2, <2>3, <2>4
  <1>5. l = a \o b
    BY <1>1, <1>2 DEF RemoveAt
  <1> QED
    BY <1>1, <1>3, <1>4, <1>5 DEF WithoutEntry

\* Range and domain of a list of known elements.
LEMMA WellKeptIs ==
    ASSUME NEW S, NEW list \in Seq(S), \A k \in DOMAIN list : IsHook(list[k]),
           Sorted(list), Distinct(list), ScannerFirst(list)
    PROVE  WellKept(list)
  <1>1. DOMAIN list = 1..Len(list) /\ Len(list) \in Nat
    OBVIOUS
  <1>2. PICK n \in Nat : n = Len(list)
    OBVIOUS
  <1>3. \A k \in 1..n : list[k] \in Range(list)
    BY <1>1, <1>2 DEF Range
  <1>4. list = [k \in 1..n |-> list[k]]
    BY <1>2
  <1>5. list \in [1..n -> Range(list)]
    BY <1>3, <1>4
  <1>6. list \in Seq(Range(list))
    BY <1>2, <1>5
  <1> QED
    BY <1>6, Zenon DEF WellKept

\* The k entries that are not behind h stay, and the others are one place further.
Behind(l, list, h, k) ==
    /\ \A j \in 1..k : l[j] = list[j] /\ list[j].priority <= h.priority
    /\ l[k + 1] = h
    /\ \A j \in (k + 1)..Len(list) : l[j + 1] = list[j] /\ h.priority < list[j].priority

\* register puts an entry of a new name into a list.
LEMMA InsertedFits ==
    ASSUME NEW list, WellKept(list), NEW h, IsHook(h), h.name # "secret_scanner",
           \A j \in DOMAIN list : list[j].name # h.name, NEW l, l = Inserted(list, h)
    PROVE  /\ WellKept(l) /\ Len(l) = Len(list) + 1
           /\ \E k \in 0..Len(list) : Behind(l, list, h, k)
  <1> DEFINE n == Len(list)
  <1>1. PICK S : S = Range(list) \cup {h}
    OBVIOUS
  <1>2. list \in Seq(Range(list)) /\ \A j \in DOMAIN list : IsHook(list[j])
    BY DEF WellKept
  <1>3. n \in Nat /\ DOMAIN list = 1..n /\ \A j \in 1..n : list[j] \in S /\ list[j].priority \in Int
    BY <1>1, <1>2 DEF IsHook, Range
  <1>4. list \in Seq(S) /\ h \in S
    BY <1>1, <1>2, <1>3
  <1>5. PICK k : k = Cardinality({i \in DOMAIN list : list[i].priority <= h.priority})
    OBVIOUS
  <1>6. k \in 0..n /\ \A i \in 1..n : list[i].priority <= h.priority <=> i <= k
    <2>1. h.priority \in Int
      BY DEF IsHook
    <2> QED
      BY <1>3, <1>5, <2>1, BeforeIsBeginning
  <1>7. l = InsertAt(list, k + 1, h)
    BY <1>5, Zenon DEF Inserted
  <1>8. /\ l \in Seq(S) /\ Len(l) = n + 1
        /\ \A j \in 1..k : l[j] = list[j]
        /\ l[k + 1] = h
        /\ \A j \in (k + 2)..(n + 1) : l[j] = list[j - 1]
    <2>1. k \in 0..Len(list)
      BY <1>6
    <2>2. WithEntry(l, list, k, h, S)
      BY <1>4, <1>7, <2>1, InsertedIs, Zenon
    <2> QED
      BY <2>2 DEF WithEntry
  <1>9. DOMAIN l = 1..(n + 1)
    BY <1>8
  <1>10. \A j \in (k + 1)..n : l[j + 1] = list[j]
    BY <1>6, <1>8
  <1>11. \A j \in DOMAIN l : \/ j \in 1..k /\ l[j] = list[j]
                             \/ j = k + 1 /\ l[j] = h
                             \/ j - 1 \in (k + 1)..n /\ l[j] = list[j - 1]
    BY <1>6, <1>8, <1>9
  <1>12. \A j \in DOMAIN l : IsHook(l[j])
    BY <1>2, <1>3, <1>6, <1>11
  <1>13. Sorted(l)
    <2> SUFFICES ASSUME NEW a \in DOMAIN l, NEW b \in DOMAIN l, a < b PROVE l[a].priority <= l[b].priority
      BY DEF Sorted
    <2>1. \A i, j \in 1..n : i < j => list[i].priority <= list[j].priority
      BY <1>3 DEF WellKept, Sorted
    <2>2. h.priority \in Int
      BY DEF IsHook
    <2>3. /\ \/ a \in 1..k /\ l[a] = list[a]
             \/ a = k + 1 /\ l[a] = h
             \/ a - 1 \in (k + 1)..n /\ l[a] = list[a - 1]
          /\ \/ b \in 1..k /\ l[b] = list[b]
             \/ b = k + 1 /\ l[b] = h
             \/ b - 1 \in (k + 1)..n /\ l[b] = list[b - 1]
          /\ a \in Nat /\ b \in Nat
      BY <1>9, <1>11
    <2> QED
      BY <1>3, <1>6, <2>1, <2>2, <2>3, SMTT(30)
  <1>14. Distinct(l)
    <2> SUFFICES ASSUME NEW a \in DOMAIN l, NEW b \in DOMAIN l, l[a].name = l[b].name PROVE a = b
      BY DEF Distinct
    <2>1. \A i, j \in 1..n : list[i].name = list[j].name => i = j
      BY <1>3 DEF WellKept, Distinct
    <2>2. \A i \in 1..n : list[i].name # h.name
      BY <1>3
    <2>3. /\ \/ a \in 1..k /\ l[a] = list[a]
             \/ a = k + 1 /\ l[a] = h
             \/ a - 1 \in (k + 1)..n /\ l[a] = list[a - 1]
          /\ \/ b \in 1..k /\ l[b] = list[b]
             \/ b = k + 1 /\ l[b] = h
             \/ b - 1 \in (k + 1)..n /\ l[b] = list[b - 1]
          /\ a \in Nat /\ b \in Nat
      BY <1>9, <1>11
    <2> QED
      BY <1>3, <1>6, <2>1, <2>2, <2>3
  <1>15. ScannerFirst(l)
    <2> SUFFICES ASSUME NEW a \in DOMAIN l, NEW b \in DOMAIN l, a < b, l[b].name = "secret_scanner"
                 PROVE  l[a].priority < 0
      BY DEF ScannerFirst
    <2>1. \A i, j \in 1..n : (i < j /\ list[j].name = "secret_scanner") => list[i].priority < 0
      BY <1>3 DEF WellKept, ScannerFirst
    <2>2. \A j \in 1..n : list[j].name = "secret_scanner" => list[j].priority = 0
      BY <1>2, <1>3 DEF IsHook
    <2>3. h.priority \in Int
      BY DEF IsHook
    <2>4. /\ \/ a \in 1..k /\ l[a] = list[a]
             \/ a = k + 1 /\ l[a] = h
             \/ a - 1 \in (k + 1)..n /\ l[a] = list[a - 1]
          /\ \/ b \in 1..k /\ l[b] = list[b]
             \/ b = k + 1 /\ l[b] = h
             \/ b - 1 \in (k + 1)..n /\ l[b] = list[b - 1]
          /\ a \in Nat /\ b \in Nat
      BY <1>9, <1>11
    <2> QED
      BY <1>3, <1>6, <2>1, <2>2, <2>3, <2>4
  <1>16. WellKept(l)
    BY <1>8, <1>12, <1>13, <1>14, <1>15, WellKeptIs
  <1>17. /\ k \in 0..n
         /\ \A j \in 1..k : l[j] = list[j] /\ list[j].priority <= h.priority
         /\ l[k + 1] = h
         /\ \A j \in (k + 1)..n : l[j + 1] = list[j] /\ h.priority < list[j].priority
    <2>1. h.priority \in Int
      BY DEF IsHook
    <2> QED
      BY <1>3, <1>6, <1>8, <1>10, <2>1
  <1> QED
    BY <1>8, <1>16, <1>17 DEF Behind

\* unregister takes one out.
LEMMA RemovedFits ==
    ASSUME NEW list, WellKept(list), NEW k \in DOMAIN list, NEW l, l = RemoveAt(list, k)
    PROVE  WellKept(l)
  <1> DEFINE n == Len(list)
  <1>1. list \in Seq(Range(list)) /\ \A j \in DOMAIN list : IsHook(list[j])
    BY DEF WellKept
  <1>2. PICK S : S = Range(list)
    OBVIOUS
  <1>3. n \in Nat /\ DOMAIN list = 1..n /\ list \in Seq(S)
    BY <1>1, <1>2
  <1>4. /\ l \in Seq(S) /\ Len(l) = n - 1
        /\ \A j \in 1..(k - 1) : l[j] = list[j]
        /\ \A j \in k..(n - 1) : l[j] = list[j + 1]
    <2>1. WithoutEntry(l, list, k, S)
      BY <1>3, RemovedIs, Zenon
    <2> QED
      BY <2>1 DEF WithoutEntry
  <1>5. DOMAIN l = 1..(n - 1)
    BY <1>4
  <1>6. k \in 1..n
    BY <1>3
  <1>7. \A j \in DOMAIN l : \/ j \in 1..(k - 1) /\ l[j] = list[j]
                            \/ j \in k..(n - 1) /\ j + 1 \in 1..n /\ l[j] = list[j + 1]
    BY <1>3, <1>4, <1>5, <1>6
  <1>8. \A j \in DOMAIN l : IsHook(l[j])
    BY <1>1, <1>3, <1>6, <1>7
  <1>9. Sorted(l)
    <2>1. \A i, j \in 1..n : i < j => list[i].priority <= list[j].priority
      BY <1>3 DEF WellKept, Sorted
    <2> QED
      BY <1>3, <1>5, <1>6, <1>7, <2>1 DEF Sorted
  <1>10. Distinct(l)
    <2>1. \A i, j \in 1..n : list[i].name = list[j].name => i = j
      BY <1>3 DEF WellKept, Distinct
    <2> QED
      BY <1>3, <1>5, <1>6, <1>7, <2>1 DEF Distinct
  <1>11. ScannerFirst(l)
    <2>1. \A i, j \in 1..n : (i < j /\ list[j].name = "secret_scanner") => list[i].priority < 0
      BY <1>3 DEF WellKept, ScannerFirst
    <2> QED
      BY <1>3, <1>5, <1>6, <1>7, <2>1 DEF ScannerFirst
  <1> QED
    BY <1>4, <1>8, <1>9, <1>10, <1>11, WellKeptIs


-----------------------------------------------------------------------------
(* Hooks: a handler is called, and the dispatch ends. *)

LEMMA CalledIs ==
    ASSUME NEW w, DOMAIN w = WalkFields, NEW h, h = w.list[w.i + 1], NEW c, c = Called(w)
    PROVE  /\ DOMAIN c = WalkFields /\ c.phase = "running" /\ c.i = w.i + 1 /\ c.ran = w.ran \cup {h.name}
           /\ c.list = w.list /\ c.live = w.live /\ c.result = w.result /\ c.due = w.due /\ c.changed = w.changed
           /\ c.top = IF h.name \in w.due \ w.ran THEN h.priority ELSE w.top
           /\ c.sound <=> /\ w.sound
                          /\ h.name \in w.due \ w.ran => w.top <= h.priority
                          /\ (/\ h.priority >= 0 /\ h.name # "secret_scanner" /\ "secret_scanner" \in w.due
                              /\ ~w.changed) => w.result # "secret"
  <1>1. PICK p, v : /\ p = IF h.name \in w.due \ w.ran THEN h.priority ELSE w.top
                    /\ v = (/\ w.sound
                            /\ h.name \in w.due \ w.ran => w.top <= h.priority
                            /\ (/\ h.priority >= 0 /\ h.name # "secret_scanner" /\ "secret_scanner" \in w.due
                                /\ ~w.changed) => w.result # "secret")
    OBVIOUS
  <1>2. c = [w EXCEPT !.phase = "running", !.i = w.i + 1, !.last = h.name, !.ran = w.ran \cup {h.name},
                      !.top = p, !.sound = v]
    BY <1>1 DEF Called
  <1> QED
    BY <1>1, <1>2 DEF WalkFields

\* A hook that is due runs in turn, and what runs after a scanner that is due runs after it.
LEMMA CalledFits ==
    ASSUME NEW w, DOMAIN w = WalkFields, w.sound = TRUE, InTurn(w), NoSecretLeft(w), w.i < Len(w.list),
           NEW h, h = w.list[w.i + 1], NEW c, c = Called(w)
    PROVE  c.sound = TRUE /\ InTurn(c) /\ (h.name # "secret_scanner" => NoSecretLeft(c))
  <1>1. PICK n, i : n = Len(w.list) /\ i = w.i
    OBVIOUS
  <1>2. n \in Nat /\ i \in 0..n /\ i < n /\ DOMAIN w.list = 1..n /\ i + 1 \in 1..n
    BY <1>1 DEF InTurn, WellKept
  <1>3. IsHook(h) /\ h.priority \in Int /\ h.priority >= -1000
    BY <1>1, <1>2 DEF InTurn, WellKept, IsHook
  <1>4. /\ DOMAIN c = WalkFields /\ c.phase = "running" /\ c.i = w.i + 1 /\ c.ran = w.ran \cup {h.name}
        /\ c.list = w.list /\ c.live = w.live /\ c.result = w.result /\ c.due = w.due /\ c.changed = w.changed
        /\ c.top = IF h.name \in w.due \ w.ran THEN h.priority ELSE w.top
        /\ c.sound <=> /\ w.sound
                       /\ h.name \in w.due \ w.ran => w.top <= h.priority
                       /\ (/\ h.priority >= 0 /\ h.name # "secret_scanner" /\ "secret_scanner" \in w.due
                           /\ ~w.changed) => w.result # "secret"
    BY CalledIs
  <1>5. ASSUME NEW x \in w.due \ w.ran, x # h.name
        PROVE  \E k \in 1..n : k > i + 1 /\ w.list[k].name = x
    <2>1. PICK k \in 1..n : k > i /\ w.list[k].name = x
      BY <1>1, <1>2, <1>5 DEF InTurn
    <2>2. k # i + 1
      BY <1>1, <1>5, <2>1
    <2> QED
      BY <1>2, <2>1, <2>2
  <1>6. h.name \in w.due \ w.ran => w.top <= h.priority
    BY <1>1, <1>2 DEF InTurn, Due
  <1>7. ASSUME h.priority >= 0, h.name # "secret_scanner", "secret_scanner" \in w.due, ~w.changed
        PROVE  w.result # "secret"
    <2>1. CASE "secret_scanner" \in w.ran
      BY <1>7, <2>1 DEF NoSecretLeft
    <2>2. CASE "secret_scanner" \notin w.ran
      <3>1. PICK k \in 1..n : k > i + 1 /\ w.list[k].name = "secret_scanner"
        BY <1>5, <1>7, <2>2
      <3>2. h.priority < 0
        BY <1>1, <1>2, <3>1 DEF InTurn, WellKept, ScannerFirst
      <3> QED
        BY <1>3, <1>7, <3>2
    <2> QED
      BY <2>1, <2>2
  <1>8. c.sound = TRUE
    <2>1. c.sound
      BY <1>4, <1>6, <1>7
    <2>2. c.sound \in BOOLEAN
      BY DEF Called
    <2> QED
      BY <2>1, <2>2
  <1>9. WellKept(c.list) /\ c.i \in 0..Len(c.list) /\ c.top \in Int
    BY <1>1, <1>2, <1>3, <1>4 DEF InTurn
  <1>10. ASSUME NEW x \in c.due, x \notin c.ran
         PROVE  \E k \in DOMAIN c.list : k > c.i /\ c.list[k].name = x
    BY <1>1, <1>2, <1>4, <1>5, <1>10
  <1>11. ASSUME NEW k \in DOMAIN c.list, Due(c, k) PROVE c.top <= c.list[k].priority
    <2>1. k \in 1..n /\ w.list[k].name \in w.due \ w.ran /\ w.list[k].name # h.name
      BY <1>2, <1>4, <1>11 DEF Due
    <2>2. w.top <= w.list[k].priority
      BY <1>2, <2>1 DEF InTurn, Due
    <2>3. PICK m \in 1..n : m > i + 1 /\ w.list[m].name = w.list[k].name
      BY <1>5, <2>1
    <2>4. m = k
      BY <1>2, <2>1, <2>3 DEF InTurn, WellKept, Distinct
    <2>5. h.priority <= w.list[k].priority
      BY <1>1, <1>2, <2>1, <2>3, <2>4 DEF InTurn, WellKept, Sorted
    <2> QED
      BY <1>4, <2>2, <2>5
  <1>12. InTurn(c)
    BY <1>9, <1>10, <1>11 DEF InTurn
  <1>13. ASSUME h.name # "secret_scanner" PROVE NoSecretLeft(c)
    BY <1>4, <1>13 DEF NoSecretLeft
  <1> QED
    BY <1>8, <1>12, <1>13

\* The fields of a walk that has not begun.
NotBegun(w) ==
    /\ DOMAIN w = WalkFields /\ w.phase = "none" /\ w.live = FALSE /\ w.i = 0
    /\ w.top \in Int /\ w.top <= -1000 /\ w.ran = {} /\ w.due = {} /\ w.sound = TRUE

LEMMA NoWalkIs == NotBegun(NoWalk)
  <1> PICK base : base = NoWalk
    OBVIOUS
  <1> SUFFICES NotBegun(base)
    OBVIOUS
  <1>1. PICK t : t = -1000
    OBVIOUS
  <1>2. base = [phase |-> "none", list |-> <<>>, live |-> FALSE, i |-> 0, result |-> "clean", last |-> "none",
                top |-> t, ran |-> {}, due |-> {}, changed |-> FALSE, sound |-> TRUE]
    BY <1>1, SMTT(30) DEF NoWalk
  <1> QED
    BY <1>1, <1>2 DEF WalkFields, NotBegun

LEMMA EndedIs ==
    ASSUME NEW w, NEW p, NEW e, e = EndedAs(w, p)
    PROVE  /\ DOMAIN e = WalkFields /\ e.phase = p /\ e.live = FALSE
           /\ e.sound <=> (w.sound /\ (p = "done" => w.due \subseteq w.ran))
           /\ e.sound \in BOOLEAN
  <1>1. PICK v : v = (w.sound /\ (p = "done" => w.due \subseteq w.ran))
    OBVIOUS
  <1>2. PICK base : base = NoWalk
    OBVIOUS
  <1>3. NotBegun(base)
    BY <1>2, NoWalkIs, Zenon
  <1>4. e = [base EXCEPT !.phase = p, !.sound = v]
    BY <1>1, <1>2, Zenon DEF EndedAs
  <1>5. DOMAIN base = WalkFields /\ base.live = FALSE
    BY <1>3 DEF NotBegun
  <1> QED
    BY <1>1, <1>4, <1>5 DEF WalkFields


\* A dispatch begins with the list as it is registered.
LEMMA StartedFits ==
    ASSUME NEW list, WellKept(list), NEW r, NEW w,
           w = [NoWalk EXCEPT !.phase = IF list = <<>> THEN "done" ELSE "starting", !.list = list,
                              !.live = list # <<>>, !.result = r, !.due = Names(list)]
    PROVE  WalkFits(w, list)
  <1>1. PICK base : base = NoWalk
    OBVIOUS
  <1>2. NotBegun(base)
    BY <1>1, NoWalkIs, Zenon
  <1>3. PICK p, v, due : /\ p = IF list = <<>> THEN "done" ELSE "starting"
                         /\ v = (list # <<>>) /\ due = Names(list)
    OBVIOUS
  <1>4. w = [base EXCEPT !.phase = p, !.list = list, !.live = v, !.result = r, !.due = due]
    BY <1>1, <1>3, Zenon
  <1>5. /\ DOMAIN w = WalkFields /\ w.phase = p /\ w.list = list /\ w.live = v /\ w.i = 0
        /\ w.top \in Int /\ w.top <= -1000 /\ w.ran = {} /\ w.due = due /\ w.sound = TRUE
    <2>1. /\ DOMAIN base = WalkFields /\ base.i = 0 /\ base.top \in Int /\ base.top <= -1000
          /\ base.ran = {} /\ base.sound = TRUE
      BY <1>2 DEF NotBegun
    <2>2. DOMAIN base = WalkFields
      BY <2>1, Zenon
    <2>3. DOMAIN w = WalkFields /\ w.phase = p /\ w.list = list /\ w.live = v /\ w.due = due
      BY <1>4, <2>2 DEF WalkFields
    <2>4. w.i = base.i /\ w.top = base.top /\ w.ran = base.ran /\ w.sound = base.sound
      BY <1>4, <2>2 DEF WalkFields
    <2> QED
      BY <2>1, <2>3, <2>4
  <1>6. DOMAIN list = 1..Len(list) /\ Len(list) \in Nat /\ \A k \in DOMAIN list : IsHook(list[k])
    BY DEF WellKept
  <1>7. \A x \in w.due : \E k \in DOMAIN w.list : k > w.i /\ w.list[k].name = x
    BY <1>3, <1>5, <1>6 DEF Names
  <1>8. \A k \in DOMAIN w.list : w.top <= w.list[k].priority
    BY <1>5, <1>6 DEF IsHook
  <1>9. InTurn(w)
    BY <1>5, <1>6, <1>7, <1>8 DEF InTurn
  <1>10. NoSecretLeft(w)
    BY <1>5 DEF NoSecretLeft
  <1>11. v \in BOOLEAN /\ (p = "starting" \/ v = FALSE)
    BY <1>3
  <1> QED
    BY <1>5, <1>9, <1>10, <1>11 DEF WalkFits

Grown(w, h) == IF w.live THEN [w EXCEPT !.list = Inserted(@, h)] ELSE w

\* register changes the list a dispatch walks: what is due stays before it.
LEMMA RegisteredFits ==
    ASSUME NEW list, WellKept(list), NEW h, IsHook(h), h.name # "secret_scanner",
           \A j \in DOMAIN list : list[j].name # h.name, NEW l, l = Inserted(list, h),
           NEW w, WalkFits(w, list), NEW x, x = Grown(w, h)
    PROVE  WalkFits(x, l)
  <1>1. CASE ~w.live
    <2>1. x = w /\ w.live = FALSE
      BY <1>1 DEF WalkFits, Grown
    <2> QED
      BY <2>1 DEF WalkFits
  <1>2. CASE w.live
    <2>1. DOMAIN w = WalkFields /\ w.list = list /\ w.live = TRUE /\ InTurn(w) /\ NoSecretLeft(w)
      BY <1>2 DEF WalkFits
    <2>2. x = [w EXCEPT !.list = l]
      BY <1>2, <2>1 DEF Grown
    <2>3. /\ DOMAIN x = WalkFields /\ x.list = l /\ x.phase = w.phase /\ x.live = TRUE /\ x.i = w.i
          /\ x.top = w.top /\ x.ran = w.ran /\ x.due = w.due /\ x.sound = w.sound
          /\ x.changed = w.changed /\ x.result = w.result
      BY <2>1, <2>2 DEF WalkFields
    <2>4. PICK n, i : n = Len(list) /\ i = w.i
      OBVIOUS
    <2>5. n \in Nat /\ DOMAIN list = 1..n /\ i \in 0..n /\ w.top \in Int
      BY <2>1, <2>4 DEF InTurn, WellKept
    <2>6. WellKept(l) /\ Len(l) = n + 1
      BY <2>4, InsertedFits
    <2>7. PICK k \in 0..n : /\ \A j \in 1..k : l[j] = list[j] /\ list[j].priority <= h.priority
                            /\ l[k + 1] = h
                            /\ \A j \in (k + 1)..n : l[j + 1] = list[j] /\ h.priority < list[j].priority
      <3>1. PICK k \in 0..Len(list) : Behind(l, list, h, k)
        BY InsertedFits, Zenon
      <3> QED
        BY <2>4, <3>1 DEF Behind
    <2>8. DOMAIN l = 1..(n + 1)
      BY <2>6 DEF WellKept
    <2>9. ASSUME NEW y \in w.due, y \notin w.ran
          PROVE  \E j \in DOMAIN l : j > i /\ l[j].name = y
      <3>1. PICK j \in 1..n : j > i /\ list[j].name = y
        BY <2>1, <2>4, <2>5, <2>9 DEF InTurn
      <3>2. CASE j <= k
        BY <2>5, <2>7, <2>8, <3>1, <3>2
      <3>3. CASE j > k
        <4>1. j \in (k + 1)..n /\ j + 1 \in 1..(n + 1) /\ j + 1 > i
          BY <2>5, <2>7, <3>1, <3>3
        <4> QED
          BY <2>7, <2>8, <3>1, <4>1
      <3> QED
        BY <2>5, <2>7, <3>1, <3>2, <3>3
    <2>10. ASSUME NEW j \in DOMAIN l, l[j].name \in w.due \ w.ran
           PROVE  w.top <= l[j].priority
      <3>1. \A m \in 1..n : list[m].name \in w.due \ w.ran => w.top <= list[m].priority
        BY <2>1, <2>5 DEF InTurn, Due
      <3>2. CASE j <= k
        BY <2>5, <2>7, <2>8, <2>10, <3>1, <3>2
      <3>3. CASE j = k + 1
        <4>1. \E m \in 1..n : list[m].name = h.name
          BY <2>1, <2>5, <2>7, <2>10, <3>3 DEF InTurn
        <4> QED
          BY <2>5, <4>1
      <3>4. CASE j > k + 1
        <4>1. j - 1 \in (k + 1)..n /\ j - 1 \in 1..n /\ (j - 1) + 1 = j
          BY <2>5, <2>7, <2>8, <3>4
        <4>2. l[j] = list[j - 1]
          BY <2>7, <4>1
        <4> QED
          BY <2>10, <3>1, <4>1, <4>2
      <3> QED
        BY <2>5, <2>7, <2>8, <3>2, <3>3, <3>4
    <2>11. x.i \in 0..Len(x.list)
      BY <2>3, <2>4, <2>5, <2>6
    <2>12. InTurn(x)
      BY <2>3, <2>4, <2>5, <2>6, <2>9, <2>10, <2>11 DEF InTurn, Due
    <2>13. NoSecretLeft(x)
      BY <2>1, <2>3 DEF NoSecretLeft
    <2>14. w.sound = TRUE /\ (w.phase \in {"starting", "running"})
      BY <2>1 DEF WalkFits
    <2> QED
      BY <2>3, <2>12, <2>13, <2>14 DEF WalkFits
  <1> QED
    BY <1>1, <1>2

\* What a handler does leaves the rest of the walk in turn; the scanner's leaves no secret.
LEMMA AnswersFit ==
    ASSUME NEW list, NEW w, WalkFits(w, list), w.phase \in {"starting", "running"}, w.i < Len(w.list),
           NEW next \in Answers(w)
    PROVE  WalkFits(next, list)
  <1>1. PICK h, c : h = w.list[w.i + 1] /\ c = Called(w)
    OBVIOUS
  <1>2. DOMAIN w = WalkFields /\ w.sound = TRUE /\ w.live \in BOOLEAN /\ InTurn(w) /\ NoSecretLeft(w)
    BY DEF WalkFits
  <1>3. w.live => w.list = list
    BY DEF WalkFits
  <1>4. /\ DOMAIN c = WalkFields /\ c.phase = "running" /\ c.i = w.i + 1 /\ c.ran = w.ran \cup {h.name}
        /\ c.list = w.list /\ c.live = w.live /\ c.result = w.result /\ c.due = w.due /\ c.changed = w.changed
    BY <1>1, <1>2, CalledIs
  <1>5. c.sound = TRUE /\ InTurn(c) /\ (h.name # "secret_scanner" => NoSecretLeft(c))
    BY <1>1, <1>2, CalledFits
  <1>6. ASSUME NEW r, NEW v \in BOOLEAN, NEW x, x = [c EXCEPT !.result = r, !.changed = v], v \/ r # "secret"
        PROVE  WalkFits(x, list)
    <2>1. /\ DOMAIN x = WalkFields /\ x.list = c.list /\ x.phase = "running" /\ x.live = c.live /\ x.i = c.i
          /\ x.top = c.top /\ x.ran = c.ran /\ x.due = c.due /\ x.sound = c.sound
          /\ x.changed = v /\ x.result = r
      BY <1>4, <1>6 DEF WalkFields
    <2>2. InTurn(x)
      BY <1>5, <2>1 DEF InTurn, Due
    <2>3. NoSecretLeft(x)
      BY <1>6, <2>1 DEF NoSecretLeft
    <2> QED
      BY <1>2, <1>3, <1>4, <1>5, <2>1, <2>2, <2>3 DEF WalkFits
  <1>7. CASE h.name = "secret_scanner"
    <2>1. PICK r : r = Redacted(c.result)
      OBVIOUS
    <2>2. next = [c EXCEPT !.result = r]
      BY <1>1, <1>7, <2>1, Zenon DEF Answers
    <2>3. r # "secret"
      BY <2>1 DEF Redacted
    <2>4. /\ DOMAIN next = WalkFields /\ next.list = c.list /\ next.phase = "running" /\ next.live = c.live
          /\ next.i = c.i /\ next.top = c.top /\ next.ran = c.ran /\ next.due = c.due /\ next.sound = c.sound
          /\ next.result = r
      BY <1>4, <2>2 DEF WalkFields
    <2>5. InTurn(next)
      BY <1>5, <2>4 DEF InTurn, Due
    <2>6. NoSecretLeft(next)
      BY <2>3, <2>4 DEF NoSecretLeft
    <2> QED
      BY <1>2, <1>3, <1>4, <1>5, <2>4, <2>5, <2>6 DEF WalkFits
  <1>8. CASE next = c /\ h.name # "secret_scanner"
    BY <1>2, <1>3, <1>4, <1>5, <1>8 DEF WalkFits
  <1>9. CASE next = Bails(w)
    <2>1. next = EndedAs(c, "bailed")
      BY <1>1, <1>9, Zenon DEF Bails
    <2>2. PICK p : p = "bailed"
      OBVIOUS
    <2>3. /\ DOMAIN next = WalkFields /\ next.phase = p /\ next.live = FALSE
          /\ next.sound <=> (c.sound /\ (p = "done" => c.due \subseteq c.ran))
          /\ next.sound \in BOOLEAN
      BY <2>1, <2>2, EndedIs
    <2>4. next.sound = TRUE
      BY <1>5, <2>2, <2>3
    <2> QED
      BY <2>2, <2>3, <2>4 DEF WalkFits
  <1>10. CASE \E r \in Results : next = [c EXCEPT !.result = Modified(@, r, h.how), !.changed = TRUE]
    <2>1. PICK q \in Results : next = [c EXCEPT !.result = Modified(@, q, h.how), !.changed = TRUE]
      BY <1>10
    <2>2. PICK r : r = Modified(c.result, q, h.how)
      OBVIOUS
    <2>3. next = [c EXCEPT !.result = r, !.changed = TRUE]
      BY <2>1, <2>2, Zenon
    <2> QED
      BY <1>6, <2>3
  <1>11. \/ h.name = "secret_scanner"
         \/ next = c /\ h.name # "secret_scanner"
         \/ next = Bails(w)
         \/ \E r \in Results : next = [c EXCEPT !.result = Modified(@, r, h.how), !.changed = TRUE]
    BY <1>1, Zenon DEF Answers
  <1> QED
    BY <1>7, <1>8, <1>9, <1>10, <1>11

\* A dispatch that ends has called what was registered as it began.
LEMMA WalkEndsFits ==
    ASSUME NEW list, NEW w, WalkFits(w, list), w.phase \in {"starting", "running"}, ~(w.i < Len(w.list)),
           NEW e, e = WalkEnds(w)
    PROVE  WalkFits(e, list)
  <1>1. InTurn(w) /\ w.sound = TRUE
    BY DEF WalkFits
  <1>2. DOMAIN w.list = 1..Len(w.list) /\ Len(w.list) \in Nat /\ w.i \in Nat
    BY <1>1 DEF InTurn, WellKept
  <1>3. \A k \in DOMAIN w.list : ~(k > w.i)
    BY <1>2
  <1>4. w.due \subseteq w.ran
    BY <1>1, <1>3 DEF InTurn
  <1>5. PICK p : p = "done"
    OBVIOUS
  <1>6. e = EndedAs(w, p)
    BY <1>5, Zenon DEF WalkEnds
  <1>7. /\ DOMAIN e = WalkFields /\ e.phase = p /\ e.live = FALSE
        /\ e.sound <=> (w.sound /\ (p = "done" => w.due \subseteq w.ran))
        /\ e.sound \in BOOLEAN
    BY <1>6, EndedIs
  <1>8. e.sound = TRUE
    BY <1>1, <1>4, <1>7
  <1> QED
    BY <1>5, <1>7, <1>8 DEF WalkFits

-----------------------------------------------------------------------------
(* Hooks: every step keeps the invariant. *)

LEMMA HookIs ==
    ASSUME NEW name, NEW tier \in {"core", "continuation", "skill", "transform"}, NEW offset \in Offsets, NEW how,
           NEW h, h = Hook(name, tier, offset, how)
    PROVE  /\ h.name = name /\ h.priority \in Int /\ -100 <= h.priority
           /\ tier = "continuation" => h.priority = 100 + offset
  <1>1. PICK base, p : base = TierPriority[tier] /\ p = base + offset
    OBVIOUS
  <1>2. base \in {0, 100, 200, 300} /\ (tier = "continuation" => base = 100)
    BY <1>1 DEF TierPriority
  <1>3. p \in Int /\ -100 <= p /\ (tier = "continuation" => p = 100 + offset)
    BY <1>1, <1>2 DEF Offsets
  <1>4. h = [name |-> name, priority |-> p, how |-> how]
    BY <1>1, Zenon DEF Hook
  <1> QED
    BY <1>3, <1>4

LEMMA HooksBegin == HooksInit => HooksInv
  <1> SUFFICES ASSUME HooksInit PROVE HooksInv
    OBVIOUS
  <1>1. ComingFits
    <2> SUFFICES ASSUME NEW n \in HookNames PROVE IsHook(coming[n]) /\ coming[n].name = n
      BY DEF ComingFits
    <2>1. PICK f \in [HookNames -> Tiers \X Offsets \X Strategies] :
             coming = [m \in HookNames |-> Hook(m, f[m][1], f[m][2], f[m][3])]
      BY DEF HooksInit
    <2>2. PICK t, o, s : t = f[n][1] /\ o = f[n][2] /\ s = f[n][3]
      OBVIOUS
    <2>3. t \in Tiers /\ o \in Offsets
      BY <2>1, <2>2
    <2>4. PICK h : h = coming[n]
      OBVIOUS
    <2>5. h = Hook(n, t, o, s)
      BY <2>1, <2>2, <2>4, Zenon
    <2>6. t \in {"core", "continuation", "skill", "transform"} /\ n # "secret_scanner"
      BY <2>3, HooksAssumption
    <2>7. h.name = n /\ h.priority \in Int /\ -100 <= h.priority
      BY <2>3, <2>5, <2>6, HookIs
    <2> QED
      BY <2>4, <2>6, <2>7 DEF IsHook
  <1>2. WellKept(hooks)
    <2>1. PICK a, b, p, q : /\ p = -100 /\ q = 0
                            /\ a = Hook("secret_scanner", "continuation", p, "last_win")
                            /\ b = Hook("wave2_tool_after", "continuation", q, "last_win")
      OBVIOUS
    <2>2. p \in Offsets /\ q \in Offsets /\ 100 + p = 0 /\ 100 + q = 100
      BY <2>1 DEF Offsets
    <2>3. a.name = "secret_scanner" /\ a.priority = 0
      BY <2>1, <2>2, HookIs
    <2>4. b.name = "wave2_tool_after" /\ b.priority = 100
      BY <2>1, <2>2, HookIs
    <2>5. hooks = <<a, b>>
      BY <2>1, Zenon DEF HooksInit
    <2>6. hooks \in Seq({a, b}) /\ DOMAIN hooks = {1, 2} /\ hooks[1] = a /\ hooks[2] = b
      BY <2>5
    <2>7. \A k \in DOMAIN hooks : IsHook(hooks[k])
      BY <2>3, <2>4, <2>6 DEF IsHook
    <2>8. Sorted(hooks)
      BY <2>3, <2>4, <2>6 DEF Sorted
    <2>9. Distinct(hooks)
      BY <2>3, <2>4, <2>6 DEF Distinct
    <2>10. ScannerFirst(hooks)
      BY <2>3, <2>4, <2>6 DEF ScannerFirst
    <2> QED
      BY <2>6, <2>7, <2>8, <2>9, <2>10, WellKeptIs
  <1>3. DOMAIN walk = Dispatches /\ \A d \in Dispatches : walk[d] = NoWalk
    BY DEF HooksInit
  <1>4. WalkFits(NoWalk, hooks)
    BY NoWalkIs DEF NotBegun, WalkFits
  <1> QED
    BY <1>1, <1>2, <1>3, <1>4, Zenon DEF HooksInv

LEMMA RegisterHookStep ==
    ASSUME HooksInv, RegisterHook PROVE HooksInv'
  <1>1. PICK name \in HookNames \ Names(hooks) :
           /\ hooks' = Inserted(hooks, coming[name])
           /\ walk' = [d \in Dispatches |->
                         IF walk[d].live THEN [walk[d] EXCEPT !.list = Inserted(@, coming[name])] ELSE walk[d]]
           /\ UNCHANGED coming
    BY DEF RegisterHook
  <1>2. PICK list, l, h : list = hooks /\ l = hooks' /\ h = coming[name]
    OBVIOUS
  <1>3. WellKept(list) /\ IsHook(h) /\ h.name = name
    BY <1>2 DEF HooksInv, ComingFits
  <1>4. h.name # "secret_scanner"
    BY <1>3, HooksAssumption
  <1>5. \A j \in DOMAIN list : list[j].name # h.name
    <2>1. DOMAIN list = 1..Len(list)
      BY <1>3 DEF WellKept
    <2> QED
      BY <1>1, <1>2, <1>3, <2>1 DEF Names
  <1>6. l = Inserted(list, h)
    BY <1>1, <1>2
  <1>7. WellKept(l)
    BY <1>3, <1>4, <1>5, <1>6, InsertedFits
  <1>8. ASSUME NEW d \in Dispatches PROVE WalkFits(walk'[d], l)
    <2>1. PICK w, x : w = walk[d] /\ x = walk'[d]
      OBVIOUS
    <2>2. WalkFits(w, list)
      BY <1>2, <2>1 DEF HooksInv
    <2>3. x = Grown(w, h)
      BY <1>1, <1>2, <2>1, Zenon DEF Grown
    <2>4. WalkFits(x, l)
      BY <1>3, <1>4, <1>5, <1>6, <2>2, <2>3, RegisteredFits, Zenon
    <2> QED
      BY <2>1, <2>4, Zenon
  <1>9. DOMAIN walk' = Dispatches
    BY <1>1
  <1>10. ComingFits'
    BY <1>1 DEF HooksInv, ComingFits
  <1> QED
    BY <1>2, <1>7, <1>8, <1>9, <1>10 DEF HooksInv

LEMMA UnregisterHookStep ==
    ASSUME HooksInv, UnregisterHook PROVE HooksInv'
  <1>1. PICK n \in DOMAIN hooks :
           /\ hooks' = RemoveAt(hooks, n)
           /\ walk' = [d \in Dispatches |-> [walk[d] EXCEPT !.live = FALSE]]
           /\ UNCHANGED coming
    BY DEF UnregisterHook
  <1>2. PICK list, l : list = hooks /\ l = hooks'
    OBVIOUS
  <1>3. WellKept(l)
    BY <1>1, <1>2, RemovedFits DEF HooksInv
  <1>4. ASSUME NEW d \in Dispatches PROVE WalkFits(walk'[d], l)
    <2>1. PICK w, x : w = walk[d] /\ x = walk'[d]
      OBVIOUS
    <2>2. WalkFits(w, list)
      BY <1>2, <2>1 DEF HooksInv
    <2>3. x = [w EXCEPT !.live = FALSE]
      BY <1>1, <2>1, Zenon
    <2>4. /\ DOMAIN x = WalkFields /\ x.list = w.list /\ x.phase = w.phase /\ x.live = FALSE /\ x.i = w.i
          /\ x.top = w.top /\ x.ran = w.ran /\ x.due = w.due /\ x.sound = w.sound
          /\ x.changed = w.changed /\ x.result = w.result
      <3>1. DOMAIN w = WalkFields
        BY <2>2 DEF WalkFits
      <3> QED
        BY <2>3, <3>1 DEF WalkFields
    <2>5. InTurn(w) /\ NoSecretLeft(w) => InTurn(x) /\ NoSecretLeft(x)
      BY <2>4 DEF InTurn, Due, NoSecretLeft
    <2>6. WalkFits(x, l)
      BY <2>2, <2>4, <2>5 DEF WalkFits
    <2> QED
      BY <2>1, <2>6, Zenon
  <1>5. DOMAIN walk' = Dispatches
    BY <1>1
  <1>6. ComingFits'
    BY <1>1 DEF HooksInv, ComingFits
  <1> QED
    BY <1>2, <1>3, <1>4, <1>5, <1>6 DEF HooksInv

LEMMA DispatchStep ==
    ASSUME HooksInv, Dispatch PROVE HooksInv'
  <1>1. PICK d \in Dispatches, r \in Results :
           /\ walk' = [walk EXCEPT ![d] = [NoWalk EXCEPT !.phase = IF hooks = <<>> THEN "done" ELSE "starting",
                                                        !.list = hooks, !.live = hooks # <<>>,
                                                        !.result = r, !.due = Names(hooks)]]
           /\ UNCHANGED <<coming, hooks>>
    BY DEF Dispatch
  <1>2. PICK list : list = hooks
    OBVIOUS
  <1>3. PICK w : w = [NoWalk EXCEPT !.phase = IF list = <<>> THEN "done" ELSE "starting", !.list = list,
                                    !.live = list # <<>>, !.result = r, !.due = Names(list)]
    OBVIOUS
  <1>4. WalkFits(w, list)
    BY <1>2, <1>3, StartedFits, Zenon DEF HooksInv
  <1>5. walk' = [walk EXCEPT ![d] = w]
    BY <1>1, <1>2, <1>3, Zenon
  <1>6. ASSUME NEW e \in Dispatches PROVE WalkFits(walk'[e], list)
    BY <1>2, <1>4, <1>5 DEF HooksInv
  <1>7. DOMAIN walk' = Dispatches
    BY <1>5 DEF HooksInv
  <1>8. ComingFits' /\ WellKept(hooks') /\ hooks' = list
    BY <1>1, <1>2 DEF HooksInv, ComingFits
  <1> QED
    BY <1>6, <1>7, <1>8 DEF HooksInv

LEMMA RunHookStep ==
    ASSUME HooksInv, RunHook PROVE HooksInv'
  <1>1. PICK d \in Dispatches :
           /\ walk[d].phase \in {"starting", "running"}
           /\ \E next \in IF walk[d].i < Len(walk[d].list) THEN Answers(walk[d]) ELSE {WalkEnds(walk[d])} :
                 walk' = [walk EXCEPT ![d] = next]
           /\ UNCHANGED <<coming, hooks>>
    BY DEF RunHook
  <1>2. PICK list, w : list = hooks /\ w = walk[d]
    OBVIOUS
  <1>3. WalkFits(w, list) /\ w.phase \in {"starting", "running"}
    BY <1>1, <1>2 DEF HooksInv
  <1>4. PICK next : /\ next \in IF w.i < Len(w.list) THEN Answers(w) ELSE {WalkEnds(w)}
                    /\ walk' = [walk EXCEPT ![d] = next]
    BY <1>1, <1>2, Zenon
  <1>5. WalkFits(next, list)
    BY <1>3, <1>4, AnswersFit, WalkEndsFits
  <1>6. ASSUME NEW e \in Dispatches PROVE WalkFits(walk'[e], list)
    BY <1>2, <1>4, <1>5 DEF HooksInv
  <1>7. DOMAIN walk' = Dispatches
    BY <1>4 DEF HooksInv
  <1>8. ComingFits' /\ WellKept(hooks') /\ hooks' = list
    BY <1>1, <1>2 DEF HooksInv, ComingFits
  <1> QED
    BY <1>6, <1>7, <1>8 DEF HooksInv

\* Whatever hooks come and go while their handlers wait, those that were registered as a dispatch
\* began run in the order of their priorities, all of them unless one bails, and what comes behind
\* the scanner sees no secret in a text that no hook has written (engine.py:131-177).
THEOREM HooksStayInOrder == HooksSpec => []HooksInOrder
  <1>1. HooksInv /\ [HooksNext]_hookVars => HooksInv'
    <2> SUFFICES ASSUME HooksInv, [HooksNext]_hookVars PROVE HooksInv'
      OBVIOUS
    <2>1. CASE HooksNext
      BY <2>1, RegisterHookStep, UnregisterHookStep, DispatchStep, RunHookStep DEF HooksNext
    <2>2. CASE UNCHANGED hookVars
      BY <2>2 DEF hookVars, HooksInv, ComingFits
    <2> QED
      BY <2>1, <2>2
  <1>2. HooksInv => HooksInOrder
    BY DEF HooksInv, WalkFits, HooksInOrder
  <1> QED
    BY <1>1, <1>2, HooksBegin, PTL DEF HooksSpec
-----------------------------------------------------------------------------
(* ToolStream: operators. *)

\* The n-th of the ordered members has n members up to it.
LEMMA InOrderIs ==
    ASSUME NEW S, IsFiniteSet(S), S \subseteq Nat, NEW l, l = Ascending(S)
    PROVE  /\ Cardinality(S) \in Nat /\ Len(l) = Cardinality(S) /\ DOMAIN l = 1..Cardinality(S) /\ l \in Seq(S)
           /\ \A n \in 1..Cardinality(S) : l[n] \in S /\ Cardinality({j \in S : j <= l[n]}) = n
  <1> DEFINE Rank(i) == Cardinality({j \in S : j <= i})
  <1>1. PICK c : c = Cardinality(S)
    OBVIOUS
  <1>2. c \in Nat
    BY <1>1, FS_CardinalityType
  <1>3. ASSUME NEW i \in S
        PROVE  /\ Rank(i) \in 1..c
               /\ IsFiniteSet({j \in S : j <= i})
    <2>1. PICK T, one : T = {j \in S : j <= i} /\ one = {i}
      OBVIOUS
    <2>2. T \in SUBSET S /\ one \in SUBSET T
      BY <2>1
    <2>3. IsFiniteSet(T) /\ Cardinality(T) <= c
      BY <1>1, <2>2, FS_Subset
    <2>4. Cardinality(one) = 1 /\ Cardinality(one) <= Cardinality(T)
      BY <2>1, <2>2, <2>3, FS_Subset, FS_Singleton
    <2>5. Cardinality(T) \in Nat
      BY <2>3, FS_CardinalityType
    <2> QED
      BY <1>2, <2>1, <2>3, <2>4, <2>5
  <1>4. ASSUME NEW i \in S, NEW k \in S, i < k PROVE Rank(i) < Rank(k)
    <2>1. PICK T, U : T = {j \in S : j <= i} /\ U = {j \in S : j <= k}
      OBVIOUS
    <2>2. i \in Nat /\ k \in Nat
      OBVIOUS
    <2>3. T \in SUBSET U /\ k \in U /\ k \notin T
      <3>1. ASSUME NEW j \in T PROVE j \in U
        BY <1>4, <2>1, <2>2
      <3>2. k \in U /\ k \notin T
        BY <1>4, <2>1, <2>2
      <3> QED
        BY <3>1, <3>2
    <2>4. IsFiniteSet(U)
      BY <1>3, <2>1
    <2>5. Cardinality(T) <= Cardinality(U) /\ Cardinality(T) # Cardinality(U)
      BY <2>3, <2>4, FS_Subset
    <2>6. Cardinality(T) \in 1..c /\ Cardinality(U) \in 1..c
      BY <1>3, <2>1
    <2> QED
      BY <1>2, <2>1, <2>5, <2>6
  <1>5. PICK f : f = [i \in S |-> Rank(i)]
    OBVIOUS
  <1>6. f \in Injection(S, 1..c)
    <2>1. f \in [S -> 1..c]
      BY <1>3, <1>5
    <2>2. ASSUME NEW i \in S, NEW k \in S, f[i] = f[k] PROVE i = k
      <3>1. Rank(i) = Rank(k) /\ i \in Nat /\ k \in Nat
        BY <1>5, <2>2
      <3>2. Rank(i) \in 1..c /\ Rank(k) \in 1..c
        BY <1>3
      <3>3. ~(i < k) /\ ~(k < i)
        BY <1>2, <1>4, <3>1, <3>2
      <3> QED
        BY <3>1, <3>3
    <2> QED
      BY <2>1, <2>2 DEF Injection, IsInjective
  <1>7. IsFiniteSet(1..c) /\ Cardinality(1..c) = c
    BY <1>2, FS_Interval
  <1>8. f \in Surjection(S, 1..c)
    BY <1>1, <1>6, <1>7, FS_Injection
  <1>9. ASSUME NEW n \in 1..c PROVE \E i \in S : Rank(i) = n
    BY <1>5, <1>8 DEF Surjection
  <1>10. l = [n \in 1..c |-> CHOOSE i \in S : Rank(i) = n]
    BY <1>1 DEF Ascending
  <1>11. \A n \in 1..c : l[n] \in S /\ Rank(l[n]) = n
    BY <1>9, <1>10
  <1> HIDE DEF Rank
  <1>12. l \in [1..c -> S]
    BY <1>10, <1>11
  <1>13. l \in Seq(S) /\ Len(l) = c /\ DOMAIN l = 1..c
    BY <1>2, <1>12
  <1> QED
    BY <1>1, <1>2, <1>11, <1>13 DEF Rank

\* The arguments that were sent, as the numbers of their pieces.
Pieces(n) == [k \in 1..n |-> k]

LEMMA PiecesJoin ==
    ASSUME NEW m \in Nat, NEW n \in Nat, m <= n, NEW rest, rest = [k \in 1..(n - m) |-> m + k]
    PROVE  Pieces(m) \o rest = Pieces(n)
  <1>1. Pieces(m) \in Seq(Nat) /\ Len(Pieces(m)) = m
    BY DEF Pieces
  <1>2. rest \in Seq(Nat) /\ Len(rest) = n - m
    OBVIOUS
  <1>3. PICK l : l = Pieces(m) \o rest
    OBVIOUS
  <1>4. l \in Seq(Nat) /\ Len(l) = n
    <2>1. /\ Pieces(m) \o rest \in Seq(Nat)
          /\ Len(Pieces(m) \o rest) = Len(Pieces(m)) + Len(rest)
      BY <1>1, <1>2, ConcatProperties
    <2>2. m + (n - m) = n
      OBVIOUS
    <2> QED
      BY <1>1, <1>2, <1>3, <2>1, <2>2
  <1>5. ASSUME NEW k \in 1..n PROVE l[k] = k
    <2>1. CASE k <= m
      BY <1>1, <1>2, <1>3, <2>1 DEF Pieces
    <2>2. CASE k > m
      <3>1. k - m \in 1..(n - m) /\ m + (k - m) = k
        BY <2>2
      <3>2. \A j \in 1..(Len(Pieces(m)) + Len(rest)) :
               (Pieces(m) \o rest)[j] = IF j <= Len(Pieces(m)) THEN Pieces(m)[j] ELSE rest[j - Len(Pieces(m))]
        BY <1>1, <1>2, ConcatProperties
      <3>3. l[k] = rest[k - m]
        BY <1>1, <1>2, <1>3, <2>2, <3>2, SMTT(30)
      <3> QED
        BY <3>1, <3>3
    <2> QED
      BY <2>1, <2>2
  <1>6. l = [k \in 1..n |-> k]
    BY <1>4, <1>5
  <1> QED
    BY <1>3, <1>6 DEF Pieces


-----------------------------------------------------------------------------
(* ToolStream: an entry of the accumulator and its block. *)

EntryFields == {"seen", "id", "name", "parts", "sent", "emitted"}
Paired(eb) == DOMAIN eb = {"e", "b"} /\ DOMAIN eb.e = EntryFields /\ DOMAIN eb.b = {"id", "json"}

\* The entry has what the wire has, and the block the arguments that were sent.
Carries(p, w, eb) ==
    /\ Paired(eb)
    /\ eb.e.parts \in Nat /\ eb.e.sent \in Nat /\ eb.e.parts = w.parts /\ eb.e.sent <= eb.e.parts
    /\ (eb.e.name <=> w.name) /\ (eb.e.name => eb.e.seen)
    /\ (w.id => eb.e.id = "sent") /\ eb.e.id \in {"none", "made", "sent"}
    /\ eb.b.json = Pieces(eb.e.sent)
    /\ eb.e.emitted => eb.e.name /\ (p # "lmstudio" => eb.b.id = eb.e.id /\ eb.e.id # "none")
    /\ ~eb.e.emitted => eb.e.sent = 0

AllSent(eb) == eb.e.emitted => eb.e.sent = eb.e.parts

LEMMA StartCarries ==
    ASSUME NEW p, NEW w, NEW eb, Carries(p, w, eb), ~eb.e.emitted, eb.e.name,
           p # "lmstudio" => eb.e.id # "none", NEW s, s = Start(eb)
    PROVE  Carries(p, w, s) /\ s.e.emitted /\ s.e.id = eb.e.id
  <1>1. PICK x, y : x = [eb.e EXCEPT !.emitted = TRUE] /\ y = [id |-> eb.e.id, json |-> <<>>]
    OBVIOUS
  <1>2. s = [e |-> x, b |-> y]
    BY <1>1, Zenon DEF Start
  <1>3. DOMAIN eb.e = EntryFields
    BY DEF Carries, Paired
  <1>4. /\ DOMAIN x = EntryFields /\ x.emitted = TRUE /\ x.seen = eb.e.seen /\ x.id = eb.e.id /\ x.name = eb.e.name
        /\ x.parts = eb.e.parts /\ x.sent = eb.e.sent
    BY <1>1, <1>3 DEF EntryFields
  <1>5. DOMAIN y = {"id", "json"} /\ y.id = eb.e.id /\ y.json = <<>>
    BY <1>1
  <1>6. DOMAIN s = {"e", "b"} /\ s.e = x /\ s.b = y
    BY <1>2
  <1>7. <<>> = Pieces(0)
    BY DEF Pieces
  <1> QED
    BY <1>4, <1>5, <1>6, <1>7, ZenonT(30) DEF Carries, Paired

LEMMA DeltasCarry ==
    ASSUME NEW p, NEW w, NEW eb, Carries(p, w, eb), eb.e.emitted, NEW s, s = Deltas(eb)
    PROVE  Carries(p, w, s) /\ s.e.emitted /\ s.e.sent = s.e.parts /\ s.e.id = eb.e.id
  <1>1. PICK j, x, y : /\ j = eb.b.json \o Unsent(eb.e) /\ x = [eb.e EXCEPT !.sent = eb.e.parts]
                       /\ y = [eb.b EXCEPT !.json = j]
    OBVIOUS
  <1>2. s = [e |-> x, b |-> y]
    BY <1>1, Zenon DEF Deltas
  <1>3. DOMAIN eb.e = EntryFields /\ DOMAIN eb.b = {"id", "json"}
    BY DEF Carries, Paired
  <1>4. /\ DOMAIN x = EntryFields /\ x.emitted = eb.e.emitted /\ x.seen = eb.e.seen /\ x.id = eb.e.id
        /\ x.name = eb.e.name /\ x.parts = eb.e.parts /\ x.sent = eb.e.parts
    BY <1>1, <1>3 DEF EntryFields
  <1>5. DOMAIN y = {"id", "json"} /\ y.id = eb.b.id /\ y.json = j
    BY <1>1, <1>3
  <1>6. DOMAIN s = {"e", "b"} /\ s.e = x /\ s.b = y
    BY <1>2
  <1>7. j = Pieces(eb.e.parts)
    <2>1. PICK m, n, u : m = eb.e.sent /\ n = eb.e.parts /\ u = Unsent(eb.e)
      OBVIOUS
    <2>2. m \in Nat /\ n \in Nat /\ m <= n
      BY <2>1 DEF Carries
    <2>3. u = [k \in 1..(n - m) |-> m + k]
      BY <2>1, Zenon DEF Unsent
    <2>4. Pieces(m) \o u = Pieces(n)
      BY <2>2, <2>3, PiecesJoin
    <2>5. eb.b.json = Pieces(m)
      BY <2>1 DEF Carries
    <2> QED
      BY <1>1, <2>1, <2>4, <2>5, Zenon
  <1>8. eb.e.parts <= eb.e.parts
    BY DEF Carries
  <1> QED
    BY <1>4, <1>5, <1>6, <1>7, <1>8 DEF Carries, Paired

LEMMA FallbackCarries ==
    ASSUME NEW p, NEW w, NEW eb, Carries(p, w, eb), ~eb.e.emitted, NEW s, s = Fallback(eb)
    PROVE  /\ Carries(p, w, s) /\ ~s.e.emitted /\ (s.e.name <=> eb.e.name) /\ s.e.id # "none"
           /\ eb.e.id # "none" => s = eb
  <1>1. CASE eb.e.id # "none"
    BY <1>1 DEF Fallback
  <1>2. CASE eb.e.id = "none"
    <2>1. DOMAIN eb.e = EntryFields /\ DOMAIN eb = {"e", "b"}
      BY DEF Carries, Paired
    <2>2. PICK x : x = [eb.e EXCEPT !.id = "made"]
      OBVIOUS
    <2>3. s = [eb EXCEPT !.e = x]
      BY <1>2, <2>2 DEF Fallback
    <2>4. DOMAIN s = {"e", "b"} /\ s.e = x /\ s.b = eb.b
      BY <2>1, <2>3
    <2>5. /\ DOMAIN x = EntryFields /\ x.emitted = eb.e.emitted /\ x.seen = eb.e.seen /\ x.id = "made"
          /\ x.name = eb.e.name /\ x.parts = eb.e.parts /\ x.sent = eb.e.sent
      BY <2>1, <2>2 DEF EntryFields
    <2> QED
      BY <1>2, <2>4, <2>5 DEF Carries, Paired
  <1> QED
    BY <1>1, <1>2

\* A delta leaves no argument behind of a call whose block is open.
LEMMA HandledCarries ==
    ASSUME provider \in {"opencode", "openrouter", "lmstudio"},
           NEW w, NEW eb, Carries(provider, w, eb), provider # "lmstudio" => eb.e.id # "made",
           NEW s, s = Handle(eb)
    PROVE  /\ Carries(provider, w, s) /\ AllSent(s)
           /\ provider # "lmstudio" => s.e.id # "made"
  <1>1. ASSUME NEW t, s = (IF t.e.emitted THEN Deltas(t) ELSE t),
               Carries(provider, w, t), provider # "lmstudio" => t.e.id # "made"
        PROVE  /\ Carries(provider, w, s) /\ AllSent(s)
               /\ provider # "lmstudio" => s.e.id # "made"
    <2>1. CASE t.e.emitted
      <3>1. s = Deltas(t)
        BY <1>1, <2>1
      <3>2. Carries(provider, w, s) /\ s.e.emitted /\ s.e.sent = s.e.parts /\ s.e.id = t.e.id
        BY <1>1, <2>1, <3>1, DeltasCarry
      <3> QED
        BY <1>1, <3>2 DEF AllSent
    <2>2. CASE ~t.e.emitted
      BY <1>1, <2>2 DEF AllSent
    <2> QED
      BY <2>1, <2>2
  <1>2. CASE provider # "lmstudio"
    <2>1. PICK t : t = IF eb.e.id # "none" /\ eb.e.name /\ ~eb.e.emitted THEN Start(eb) ELSE eb
      OBVIOUS
    <2>2. s = IF t.e.emitted THEN Deltas(t) ELSE t
      BY <1>2, <2>1, Zenon DEF Handle, OpenrouterDelta, OpencodeDelta
    <2>3. Carries(provider, w, t) /\ t.e.id # "made"
      <3>1. CASE eb.e.id # "none" /\ eb.e.name /\ ~eb.e.emitted
        <4>1. t = Start(eb)
          BY <2>1, <3>1
        <4>2. Carries(provider, w, t) /\ t.e.emitted /\ t.e.id = eb.e.id
          BY <3>1, <4>1, StartCarries, Zenon
        <4> QED
          BY <1>2, <4>2
      <3>2. CASE ~(eb.e.id # "none" /\ eb.e.name /\ ~eb.e.emitted)
        BY <1>2, <2>1, <3>2
      <3> QED
        BY <3>1, <3>2
    <2> QED
      BY <1>1, <2>2, <2>3
  <1>3. CASE provider = "lmstudio"
    <2>1. PICK t : t = IF eb.e.name /\ ~eb.e.emitted THEN Start(Fallback(eb)) ELSE eb
      OBVIOUS
    <2>2. s = IF t.e.emitted THEN Deltas(t) ELSE t
      BY <1>3, <2>1, Zenon DEF Handle, LmstudioDelta
    <2>3. Carries(provider, w, t)
      <3>1. CASE eb.e.name /\ ~eb.e.emitted
        <4>1. PICK f : f = Fallback(eb)
          OBVIOUS
        <4>2. Carries(provider, w, f) /\ ~f.e.emitted /\ (f.e.name <=> eb.e.name) /\ f.e.id # "none"
          BY <3>1, <4>1, FallbackCarries
        <4>3. t = Start(f)
          BY <2>1, <3>1, <4>1
        <4>4. f.e.name
          BY <3>1, <4>2
        <4> QED
          BY <4>2, <4>3, <4>4, StartCarries, Zenon
      <3>2. CASE ~(eb.e.name /\ ~eb.e.emitted)
        BY <2>1, <3>2
      <3> QED
        BY <3>1, <3>2
    <2> QED
      BY <1>1, <1>3, <2>2, <2>3
  <1> QED
    BY <1>2, <1>3

\* At the end every call with a name has its block and all its arguments in it.
LEMMA FinishedCarries ==
    ASSUME provider \in {"opencode", "openrouter", "lmstudio"}, NEW w, NEW i, NEW eb,
           eb = [e |-> acc[i], b |-> blocks[i]], Carries(provider, w, eb), AllSent(eb),
           NEW s, s = Finished(i)
    PROVE  /\ Carries(provider, w, s)
           /\ s.e.emitted <=> w.name
           /\ s.e.emitted => s.e.sent = s.e.parts
           /\ w.name => eb.e.seen
  <1>1. CASE eb.e.name /\ ~eb.e.emitted
    <2>1. PICK f : f = Fallback(eb)
      OBVIOUS
    <2>2. Carries(provider, w, f) /\ ~f.e.emitted /\ (f.e.name <=> eb.e.name) /\ f.e.id # "none"
      BY <1>1, <2>1, FallbackCarries
    <2>3. f.e.name
      BY <1>1, <2>2
    <2>4. PICK t : t = Start(f)
      OBVIOUS
    <2>5. Carries(provider, w, t) /\ t.e.emitted
      BY <2>2, <2>3, <2>4, StartCarries, Zenon
    <2>6. s = Deltas(t)
      <3>1. CASE provider = "lmstudio"
        BY <1>1, <2>1, <2>4, <2>5, <3>1, Zenon DEF Finished, LmstudioFinish
      <3>2. CASE provider # "lmstudio"
        BY <1>1, <2>1, <2>4, <3>2, Zenon DEF Finished, OpencodeFinish, OpenrouterFinish
      <3> QED
        BY <3>1, <3>2
    <2>7. Carries(provider, w, s) /\ s.e.emitted /\ s.e.sent = s.e.parts
      BY <2>5, <2>6, DeltasCarry
    <2> QED
      BY <1>1, <2>7 DEF Carries
  <1>2. CASE eb.e.emitted
    <2>1. CASE provider = "lmstudio"
      <3>1. s = Deltas(eb)
        BY <1>2, <2>1, Zenon DEF Finished, LmstudioFinish
      <3>2. Carries(provider, w, s) /\ s.e.emitted /\ s.e.sent = s.e.parts
        BY <1>2, <3>1, DeltasCarry
      <3> QED
        BY <1>2, <3>2 DEF Carries
    <2>2. CASE provider # "lmstudio"
      <3>1. s = eb
        BY <1>2, <2>2, Zenon DEF Finished, OpencodeFinish, OpenrouterFinish
      <3> QED
        BY <1>2, <3>1 DEF Carries, AllSent
    <2> QED
      BY <2>1, <2>2
  <1>3. CASE ~eb.e.emitted /\ ~eb.e.name
    <2>1. s = eb
      BY <1>3, Zenon DEF Finished, OpencodeFinish, OpenrouterFinish, LmstudioFinish
    <2> QED
      BY <1>3, <2>1 DEF Carries
  <1> QED
    BY <1>1, <1>2, <1>3

LEMMA NotedCarries ==
    ASSUME NEW p, NEW w, NEW eb, Carries(p, w, eb), p # "lmstudio" => eb.e.id # "made",
           NEW d \in [id : BOOLEAN, name : BOOLEAN, part : BOOLEAN],
           NEW v, v.id <=> (w.id \/ d.id), v.name <=> (w.name \/ d.name),
           v.parts = IF d.part THEN w.parts + 1 ELSE w.parts,
           NEW x, x = Noted(eb.e, d), NEW y, y = [e |-> x, b |-> eb.b]
    PROVE  Carries(p, v, y) /\ (p # "lmstudio" => y.e.id # "made")
  <1>1. PICK i, n, q : /\ i = IF d.id THEN "sent" ELSE eb.e.id
                       /\ n = (eb.e.name \/ d.name)
                       /\ q = IF d.part THEN eb.e.parts + 1 ELSE eb.e.parts
    OBVIOUS
  <1>2. x = [eb.e EXCEPT !.seen = TRUE, !.id = i, !.name = n, !.parts = q]
    BY <1>1 DEF Noted
  <1>3. DOMAIN eb.e = EntryFields
    BY DEF Carries, Paired
  <1>4. /\ DOMAIN x = EntryFields /\ x.emitted = eb.e.emitted /\ x.seen = TRUE /\ x.id = i /\ x.name = n
        /\ x.parts = q /\ x.sent = eb.e.sent
    BY <1>2, <1>3 DEF EntryFields
  <1>5. DOMAIN y = {"e", "b"} /\ y.e = x /\ y.b = eb.b
    OBVIOUS
  <1>6. Paired(y)
    BY <1>4, <1>5 DEF Carries, Paired
  <1>7. q \in Nat /\ q = v.parts /\ eb.e.sent \in Nat /\ eb.e.sent <= q
    BY <1>1 DEF Carries
  <1>8. (n <=> v.name) /\ (v.id => i = "sent") /\ i \in {"none", "made", "sent"} /\ (p # "lmstudio" => i # "made")
    BY <1>1 DEF Carries
  <1>9. eb.e.emitted => n /\ (p # "lmstudio" => eb.b.id = i /\ i # "none")
    BY <1>1 DEF Carries
  <1>10. eb.b.json = Pieces(eb.e.sent) /\ (~eb.e.emitted => eb.e.sent = 0)
    BY DEF Carries
  <1> QED
    BY <1>4, <1>5, <1>6, <1>7, <1>8, <1>9, <1>10 DEF Carries

-----------------------------------------------------------------------------
(* ToolStream: every step keeps the invariant. *)

\* What holds of an index while the chunks come.
Fits(p, w, e, b) ==
    /\ DOMAIN w = {"id", "name", "parts"}
    /\ \E eb : /\ eb = [e |-> e, b |-> b] /\ Carries(p, w, eb) /\ AllSent(eb)
               /\ p # "lmstudio" => e.id # "made"

StreamInv ==
    /\ provider \in {"opencode", "openrouter", "lmstudio"}
    /\ stream = "running" =>
         /\ uses = <<>> /\ DOMAIN wire = Indices /\ DOMAIN acc = Indices /\ DOMAIN blocks = Indices
         /\ \A i \in Indices : Fits(provider, wire[i], acc[i], blocks[i])
    /\ stream # "running" => CallsArriveWhole

LEMMA StreamBegins == StreamInit => StreamInv
  <1> SUFFICES ASSUME StreamInit PROVE StreamInv
    OBVIOUS
  <1>1. ASSUME NEW i \in Indices PROVE Fits(provider, wire[i], acc[i], blocks[i])
    <2>1. PICK w, e, b : w = wire[i] /\ e = acc[i] /\ b = blocks[i]
      OBVIOUS
    <2>2. w = [id |-> FALSE, name |-> FALSE, parts |-> 0]
      BY <2>1 DEF StreamInit
    <2>3. e = [seen |-> FALSE, id |-> "none", name |-> FALSE, parts |-> 0, sent |-> 0, emitted |-> FALSE]
      BY <2>1, Zenon DEF StreamInit, NoEntry
    <2>4. b = [id |-> "closed", json |-> <<>>]
      BY <2>1, Zenon DEF StreamInit, Closed
    <2>5. PICK eb : eb = [e |-> e, b |-> b]
      OBVIOUS
    <2>6. DOMAIN eb = {"e", "b"} /\ eb.e = e /\ eb.b = b
      BY <2>5
    <2>7. /\ DOMAIN e = EntryFields /\ e.seen = FALSE /\ e.id = "none" /\ e.name = FALSE /\ e.parts = 0
          /\ e.sent = 0 /\ e.emitted = FALSE
      BY <2>3 DEF EntryFields
    <2>8. DOMAIN b = {"id", "json"} /\ b.json = <<>>
      BY <2>4
    <2>9. DOMAIN w = {"id", "name", "parts"} /\ w.id = FALSE /\ w.name = FALSE /\ w.parts = 0
      BY <2>2
    <2>10. <<>> = Pieces(0)
      BY DEF Pieces
    <2>11. Carries(provider, w, eb) /\ AllSent(eb)
      BY <2>6, <2>7, <2>8, <2>9, <2>10 DEF Carries, Paired, AllSent
    <2> QED
      BY <2>1, <2>5, <2>7, <2>9, <2>11 DEF Fits
  <1> QED
    BY <1>1 DEF StreamInit, StreamInv

LEMMA DeltaStep ==
    ASSUME StreamInv, NEW i \in Indices, Delta(i) PROVE StreamInv'
  <1>1. PICK d \in [id : BOOLEAN, name : BOOLEAN, part : BOOLEAN] :
           /\ wire' = [wire EXCEPT ![i].id = @ \/ d.id, ![i].name = @ \/ d.name,
                                   ![i].parts = IF d.part THEN @ + 1 ELSE @]
           /\ acc' = [acc EXCEPT ![i] = Handle([e |-> Noted(acc[i], d), b |-> blocks[i]]).e]
           /\ blocks' = [blocks EXCEPT ![i] = Handle([e |-> Noted(acc[i], d), b |-> blocks[i]]).b]
    BY Zenon DEF Delta
  <1>2. stream = "running" /\ stream' = "running" /\ uses' = uses /\ provider' = provider
    BY DEF Delta
  <1>3. /\ uses = <<>> /\ DOMAIN wire = Indices /\ DOMAIN acc = Indices /\ DOMAIN blocks = Indices
        /\ \A k \in Indices : Fits(provider, wire[k], acc[k], blocks[k])
        /\ provider \in {"opencode", "openrouter", "lmstudio"}
    BY <1>2 DEF StreamInv
  <1>4. PICK w, e, b : w = wire[i] /\ e = acc[i] /\ b = blocks[i]
    OBVIOUS
  <1>5. DOMAIN w = {"id", "name", "parts"}
    BY <1>3, <1>4 DEF Fits
  <1>6. PICK eb : /\ eb = [e |-> e, b |-> b] /\ Carries(provider, w, eb) /\ AllSent(eb)
                  /\ provider # "lmstudio" => e.id # "made"
    BY <1>3, <1>4 DEF Fits
  <1>7. eb.e = e /\ eb.b = b
    BY <1>6
  <1>8. PICK v : v = wire'[i]
    OBVIOUS
  <1>9. /\ DOMAIN v = {"id", "name", "parts"} /\ v.id = (w.id \/ d.id) /\ v.name = (w.name \/ d.name)
        /\ v.parts = IF d.part THEN w.parts + 1 ELSE w.parts
    BY <1>1, <1>3, <1>4, <1>5, <1>8
  <1>10. PICK x : x = Noted(eb.e, d)
    OBVIOUS
  <1>11. PICK y : y = [e |-> x, b |-> eb.b]
    OBVIOUS
  <1>12. Carries(provider, v, y) /\ (provider # "lmstudio" => y.e.id # "made")
    <2>1. /\ v.id <=> (w.id \/ d.id)
          /\ v.name <=> (w.name \/ d.name)
          /\ v.parts = IF d.part THEN w.parts + 1 ELSE w.parts
      BY <1>9
    <2>2. provider # "lmstudio" => eb.e.id # "made"
      BY <1>6, <1>7
    <2> QED
      BY <1>6, <1>10, <1>11, <2>1, <2>2, NotedCarries
  <1>13. PICK s : s = Handle(y)
    OBVIOUS
  <1>14. /\ Carries(provider, v, s) /\ AllSent(s)
         /\ provider # "lmstudio" => s.e.id # "made"
    BY <1>3, <1>12, <1>13, HandledCarries
  <1>15. acc' = [acc EXCEPT ![i] = s.e] /\ blocks' = [blocks EXCEPT ![i] = s.b]
    BY <1>1, <1>4, <1>7, <1>10, <1>11, <1>13, Zenon
  <1>16. Fits(provider, wire'[i], acc'[i], blocks'[i])
    <2>1. PICK z : z = [e |-> s.e, b |-> s.b]
      OBVIOUS
    <2>2. DOMAIN z = {"e", "b"} /\ z.e = s.e /\ z.b = s.b
      BY <2>1
    <2>3. Carries(provider, v, z) /\ AllSent(z)
      BY <1>14, <2>2 DEF Carries, Paired, AllSent
    <2>4. acc'[i] = s.e /\ blocks'[i] = s.b
      BY <1>3, <1>15
    <2> QED
      BY <1>8, <1>9, <1>14, <2>1, <2>3, <2>4, Zenon DEF Fits
  <1>17. ASSUME NEW k \in Indices, k # i PROVE Fits(provider, wire'[k], acc'[k], blocks'[k])
    <2>1. wire'[k] = wire[k] /\ acc'[k] = acc[k] /\ blocks'[k] = blocks[k]
      BY <1>1, <1>3, <1>15, <1>17
    <2> QED
      BY <1>3, <2>1, Zenon
  <1>18. \A k \in Indices : Fits(provider, wire'[k], acc'[k], blocks'[k])
    BY <1>16, <1>17, Zenon
  <1>19. DOMAIN wire' = Indices /\ DOMAIN acc' = Indices /\ DOMAIN blocks' = Indices
    BY <1>1, <1>3, <1>15
  <1> QED
    BY <1>2, <1>3, <1>18, <1>19, Zenon DEF StreamInv

LEMMA FinishStep ==
    ASSUME StreamInv, Finish PROVE StreamInv'
  <1>1. /\ stream = "running" /\ uses' = uses \o FinishToolBlocks /\ stream' = "over"
        /\ blocks' = [i \in Indices |-> Closed] /\ provider' = provider /\ wire' = wire
    BY DEF Finish
  <1>2. /\ uses = <<>> /\ \A k \in Indices : Fits(provider, wire[k], acc[k], blocks[k])
        /\ provider \in {"opencode", "openrouter", "lmstudio"}
    BY <1>1 DEF StreamInv
  <1>3. ASSUME NEW i \in Indices
        PROVE  /\ wire[i].name <=> (acc[i].seen /\ Finished(i).e.emitted)
               /\ wire[i].name => Finished(i).b.json = Pieces(wire[i].parts)
               /\ (wire[i].name /\ provider # "lmstudio" /\ wire[i].id) => Finished(i).b.id = "sent"
    <2>1. PICK w, s : w = wire[i] /\ s = Finished(i)
      OBVIOUS
    <2>2. PICK eb : eb = [e |-> acc[i], b |-> blocks[i]] /\ Carries(provider, w, eb) /\ AllSent(eb)
      BY <1>2, <2>1, Zenon DEF Fits
    <2>3. /\ Carries(provider, w, s)
          /\ s.e.emitted <=> w.name
          /\ s.e.emitted => s.e.sent = s.e.parts
          /\ w.name => eb.e.seen
      BY <1>2, <2>1, <2>2, FinishedCarries
    <2>4. eb.e = acc[i]
      BY <2>2
    <2> QED
      BY <2>1, <2>3, <2>4 DEF Carries
  <1>4. PICK S : S = {i \in Indices : wire[i].name}
    OBVIOUS
  <1>5. S = {i \in Indices : acc[i].seen /\ Finished(i).e.emitted}
    BY <1>3, <1>4
  <1>6. S \in SUBSET Indices /\ S \subseteq Nat /\ IsFiniteSet(S)
    <2>1. IsFiniteSet(Indices)
      BY StreamAssumption, FS_Interval DEF Indices
    <2>2. S \in SUBSET Indices
      BY <1>4
    <2>3. Indices \subseteq Nat
      BY StreamAssumption DEF Indices
    <2>4. IsFiniteSet(S)
      BY <2>1, <2>2, FS_Subset
    <2> QED
      BY <2>2, <2>3, <2>4
  <1>7. PICK l, c : l = Ascending(S) /\ c = Cardinality(S)
    OBVIOUS
  <1>8. c \in Nat /\ Len(l) = c /\ \A n \in 1..c : l[n] \in S
    BY <1>6, <1>7, InOrderIs
  <1>9. PICK u : u = FinishToolBlocks
    OBVIOUS
  <1>10. u = [k \in 1..c |-> [index |-> l[k], id |-> Finished(l[k]).b.id, input |-> Finished(l[k]).b.json]]
    BY <1>5, <1>7, <1>8, <1>9, Zenon DEF FinishToolBlocks
  <1>11. ASSUME NEW k \in 1..c
         PROVE  u[k].index = l[k] /\ u[k].id = Finished(l[k]).b.id /\ u[k].input = Finished(l[k]).b.json
    BY <1>10
  <1>12. Len(u) = c /\ u \in Seq(Range(u))
    <2>1. DOMAIN u = 1..c /\ \A k \in 1..c : u[k] \in Range(u)
      BY <1>10 DEF Range
    <2>2. u \in [1..c -> Range(u)]
      BY <1>10, <2>1
    <2> QED
      BY <1>8, <2>1, <2>2
  <1>13. uses' = u
    BY <1>1, <1>2, <1>9, <1>12
  <1>14. ASSUME NEW k \in 1..c
         PROVE  /\ uses'[k].index = l[k]
                /\ uses'[k].input = [j \in 1..wire[l[k]].parts |-> j]
                /\ (provider # "lmstudio" /\ wire[l[k]].id) => uses'[k].id = "sent"
    <2>1. PICK i : i = l[k]
      OBVIOUS
    <2>2. i \in Indices /\ wire[i].name
      BY <1>4, <1>8, <2>1
    <2> QED
      BY <1>3, <1>11, <1>13, <2>1, <2>2, Zenon DEF Pieces
  <1>15. ASSUME NEW i \in Indices PROVE blocks'[i].json = [k \in 1..Len(blocks'[i].json) |-> k]
    <2>1. blocks'[i].json = <<>>
      BY <1>1 DEF Closed
    <2>2. <<>> = [k \in 1..Len(<<>>) |-> k]
      OBVIOUS
    <2> QED
      BY <2>1, <2>2, Zenon
  <1>16. l = Ascending({i \in Indices : wire'[i].name})
    BY <1>1, <1>4, <1>7, Zenon
  <1>17. CallsArriveWhole'
    <2>1. stream' = "over" =>
            /\ Len(uses') = Len(l)
            /\ \A k \in 1..Len(uses') :
                 /\ uses'[k].index = l[k]
                 /\ uses'[k].input = [j \in 1..wire'[l[k]].parts |-> j]
                 /\ (provider' # "lmstudio" /\ wire'[l[k]].id) => uses'[k].id = "sent"
      BY <1>1, <1>8, <1>12, <1>13, <1>14
    <2> QED
      BY <1>15, <1>16, <2>1, Zenon DEF CallsArriveWhole
  <1> QED
    BY <1>1, <1>2, <1>17 DEF StreamInv

\* However a gateway cuts its tool calls to pieces and mixes them, with or without ids, each one it
\* has named is in the turn's tool uses once, with all its arguments (streaming.py:73-138).
THEOREM CallsComeWhole == StreamSpec => []CallsArriveWhole
  <1>1. StreamInv /\ [StreamNext]_streamVars => StreamInv'
    <2> SUFFICES ASSUME StreamInv, [StreamNext]_streamVars PROVE StreamInv'
      OBVIOUS
    <2>1. CASE Finish
      BY <2>1, FinishStep
    <2>2. ASSUME NEW i \in Indices, Delta(i) PROVE StreamInv'
      BY <2>2, DeltaStep
    <2>3. CASE UNCHANGED streamVars
      BY <2>3, ZenonT(30) DEF streamVars, StreamInv, CallsArriveWhole
    <2> QED
      BY <2>1, <2>2, <2>3 DEF StreamNext
  <1>2. StreamInv => CallsArriveWhole
    <2> SUFFICES ASSUME StreamInv, stream = "running" PROVE CallsArriveWhole
      BY DEF StreamInv
    <2>1. ASSUME NEW i \in Indices PROVE blocks[i].json = [k \in 1..Len(blocks[i].json) |-> k]
      <3>1. PICK eb : eb = [e |-> acc[i], b |-> blocks[i]] /\ Carries(provider, wire[i], eb)
        BY Zenon DEF StreamInv, Fits
      <3>2. PICK n, j : n = eb.e.sent /\ j = blocks[i].json
        OBVIOUS
      <3>3. n \in Nat /\ j = [k \in 1..n |-> k]
        BY <3>1, <3>2 DEF Carries, Pieces
      <3>4. Len(j) = n
        BY <3>3
      <3> QED
        BY <3>2, <3>3, <3>4, Zenon
    <2> QED
      BY <2>1 DEF CallsArriveWhole
  <1> QED
    BY <1>1, <1>2, StreamBegins, PTL DEF StreamSpec

=============================================================================
