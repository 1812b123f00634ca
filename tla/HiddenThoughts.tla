--------------------------- MODULE HiddenThoughts ----------------------------
(***************************************************************************)
(* HiddenThoughtFilter and the text of a StreamCollector (core/            *)
(* streaming.py): what a model writes between <think> and </think> is not  *)
(* shown, however the provider cuts the text into deltas.                  *)
(*                                                                         *)
(* The name of a tag with its "<" is one character here.  An opening tag    *)
(* may go on with anything but ">", a closing one with blanks, and nothing *)
(* bounds either; the tail that is held back is of one length.             *)
(***************************************************************************)
EXTENDS Naturals, Sequences

CONSTANTS
    HIDDEN_THOUGHT_TAIL_CHARS,
    MaxText     \* bound on the characters of a turn

ASSUME ThoughtsAssumption == HIDDEN_THOUGHT_TAIL_CHARS \in Nat \ {0} /\ MaxText \in Nat

VARIABLES
    filter,     \* the filter's buffer, and whether it is inside a thought
    shown,      \* what the client has been sent of the text
    written,    \* what the model has written
    textEnded   \* the provider has said that the message is over

thoughtVars == <<filter, shown, written, textEnded>>

-----------------------------------------------------------------------------
Characters == {"x", " ", "<think", "</think", ">"}

\* What the tag that is looked for begins with, and what may stand in it.
Beginning(inside) == IF inside THEN "</think" ELSE "<think"
Filler(inside) == IF inside THEN {" "} ELSE Characters \ {">"}

\* A tag begins at place i of the buffer and ends at place j.
Tag(inside, b, i, j) ==
    /\ i < j /\ b[i] = Beginning(inside) /\ b[j] = ">"
    /\ \A k \in (i + 1)..(j - 1) : b[k] \in Filler(inside)

\* The places of the first tag, none if there is no tag.
Search(inside, b) ==
    LET tags == {m \in (1..Len(b)) \X (1..Len(b)) : Tag(inside, b, m[1], m[2])}
    IN  IF tags = {} THEN <<>> ELSE CHOOSE m \in tags : \A n \in tags : m[1] <= n[1]

\* The tail is one character short.
KeptLess(b) == IF Len(b) < HIDDEN_THOUGHT_TAIL_CHARS THEN b
               ELSE SubSeq(b, Len(b) - HIDDEN_THOUGHT_TAIL_CHARS + 2, Len(b))

Kept(b) == IF Len(b) <= HIDDEN_THOUGHT_TAIL_CHARS THEN b
            ELSE SubSeq(b, Len(b) - HIDDEN_THOUGHT_TAIL_CHARS + 1, Len(b))
Released(b) == SubSeq(b, 1, Len(b) - Len(Kept(b)))

\* The body of the loop in _drain.  `more` says whether it goes on: it does after a tag, and
\* not once the buffer has none.
Pass(s, final) ==
    LET b == s.buffer
        at == Search(s.inside, b)
    IN  IF ~s.more \/ b = <<>> THEN [s EXCEPT !.more = FALSE]
        ELSE IF at # <<>>
        THEN [buffer |-> SubSeq(b, at[2] + 1, Len(b)), inside |-> ~s.inside, more |-> TRUE,
              visible |-> IF s.inside THEN s.visible ELSE s.visible \o SubSeq(b, 1, at[1] - 1)]
        ELSE [buffer |-> IF final THEN <<>> ELSE Kept(b), inside |-> s.inside, more |-> FALSE,
              visible |-> IF s.inside THEN s.visible
                          ELSE s.visible \o (IF final THEN b ELSE Released(b))]

\* _drain: a pass after which the loop goes on takes a tag away.
Drain(s, final) ==
    LET passed[n \in 0..(Len(s.buffer) + 1)] == IF n = 0 THEN s ELSE Pass(passed[n - 1], final)
    IN  passed[Len(s.buffer) + 1]

ThoughtsInit ==
    /\ filter = [buffer |-> <<>>, inside |-> FALSE]
    /\ shown = <<>>
    /\ written = <<>>
    /\ textEnded = FALSE

Show(buffer, final) ==
    LET end == Drain([buffer |-> buffer, inside |-> filter.inside, visible |-> shown, more |-> TRUE],
                     final)
    IN  /\ filter' = [buffer |-> end.buffer, inside |-> end.inside]
        /\ shown' = end.visible

\* text_delta
Feed == \E text \in Characters \cup (Characters \X Characters) :
          LET piece == IF text \in Characters THEN <<text>> ELSE text IN
          /\ ~textEnded
          /\ Len(written) + Len(piece) <= MaxText
          /\ written' = written \o piece
          /\ Show(filter.buffer \o piece, FALSE)
          /\ UNCHANGED textEnded

\* message_delta, and once more for usage.
Flush == /\ Show(filter.buffer, TRUE)
         /\ textEnded' = TRUE
         /\ UNCHANGED written

ThoughtsNext == Feed \/ Flush
ThoughtsSpec == ThoughtsInit /\ [][ThoughtsNext]_thoughtVars

-----------------------------------------------------------------------------
\* The text without its thoughts, read character by character: "held" is how much of a tag
\* there is so far.
ReadOne(s, c) ==
    IF s.held > 0 /\ c = ">"
    THEN [inside |-> ~s.inside, held |-> 0,
          out |-> IF s.inside THEN s.out ELSE SubSeq(s.out, 1, Len(s.out) - s.held)]
    ELSE [inside |-> s.inside,
          held |-> IF s.held > 0 /\ c \in Filler(s.inside) THEN s.held + 1
                   ELSE IF c = Beginning(s.inside) THEN 1 ELSE 0,
          out |-> IF s.inside THEN s.out ELSE Append(s.out, c)]

Reading(start, text) ==
    LET read[i \in 0..Len(text)] == IF i = 0 THEN start ELSE ReadOne(read[i - 1], text[i])
    IN  read[Len(text)]

Unread == [inside |-> FALSE, held |-> 0, out |-> <<>>]
Visible(text) == Reading(Unread, text).out

\* Every tag of a text, and every beginning of one, fits the tail but for its last character.
TagsFit(text) ==
    \A n \in 0..Len(text) : Reading(Unread, SubSeq(text, 1, n)).held <= HIDDEN_THOUGHT_TAIL_CHARS

Starts(s, t) == Len(s) <= Len(t) /\ s = SubSeq(t, 1, Len(s))

\* Nothing of a thought has been shown, even if its tag is still arriving in pieces, and once the
\* message is over all the rest has been.
OnlyTheRestShown ==
    IF textEnded THEN shown = Visible(written)
    ELSE \A more \in Characters : Starts(shown, Visible(Append(written, more)))

\* The cuts make no difference (streaming.py:162) as long as no tag is longer than the tail that
\* is held back and one character.
ThoughtsStayHidden == TagsFit(written) => OnlyTheRestShown

=============================================================================
