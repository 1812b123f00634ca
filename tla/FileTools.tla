------------------------------ MODULE FileTools ------------------------------
(***************************************************************************)
(* The tools an agent reads and changes files with: tools/file_read_tool,  *)
(* file_edit_tool, file_write_tool, hashline_read_tool and                 *)
(* hashline_edit_tool.  The editor of tools/hashline_edit.py is called by  *)
(* tests only.                                                             *)
(*                                                                         *)
(* A call reads the file and writes it in one step; between two calls      *)
(* anybody may change it.  A text is the lines that splitlines cuts it     *)
(* into, each of them standing for its content, and what ends each: a      *)
(* newline, another separator that splitlines knows (a form feed, U+2028), *)
(* or, for the last one, nothing.  A carriage return is a newline as soon  *)
(* as the text is read.                                                    *)
(***************************************************************************)
EXTENDS Naturals, Sequences, FiniteSets, SequencesExt, FiniteSetsExt

CONSTANTS
    Contents,        \* what a line may contain
    NewTexts,        \* how many lines a replacement may have
    Hashes,          \* the number of hashes, 16^HASH_LENGTH
    MaxLines,        \* bound on the length of the file
    MaxEditsOfCall   \* bound on the edits of one call

ASSUME FileToolsAssumption ==
    /\ Contents \subseteq Nat /\ NewTexts \subseteq Nat \ {0}
    /\ Hashes \in Nat \ {0} /\ MaxLines \in Nat /\ MaxEditsOfCall \in Nat \ {0}

VARIABLES
    file,       \* the text, or NoFile
    seenLines,  \* what the agent's last call to read has shown: numbers with lines
    flaws       \* what has gone wrong with an edit so far

fileVars == <<file, seenLines, flaws>>

-----------------------------------------------------------------------------
NoFile == [there |-> FALSE, lines |-> <<>>, ends |-> <<>>]
EmptyFile == [there |-> TRUE, lines |-> <<>>, ends |-> <<>>]

Ends == {"newline", "other", "nothing"}
Newlines(n) == [k \in 1..n |-> "newline"]

\* An empty last line that nothing ends is no line; 0 is the empty line.
FileText(lines, ends) ==
    IF lines # <<>> /\ Last(lines) = 0 /\ Last(ends) = "nothing"
    THEN [there |-> TRUE, lines |-> Front(lines), ends |-> Front(ends)]
    ELSE [there |-> TRUE, lines |-> lines, ends |-> ends]

Replacements == UNION {[1..n -> Contents] : n \in NewTexts}

\* "\n".join(lines) + "\n", whatever the ends were: of no lines at all it makes an empty one.
Joined(lines) == IF lines = <<>> THEN FileText(<<0>>, Newlines(1)) ELSE FileText(lines, Newlines(Len(lines)))

\* compute_line_hash
LineHash(line) == line % Hashes

FileInit ==
    /\ file \in {FileText(lines, Newlines(2)) : lines \in [1..2 -> Contents]}
    /\ seenLines = {}
    /\ flaws = {}

\* write_text: a write that fails may leave an empty file.
Written(text) == file' \in {text, EmptyFile}

-----------------------------------------------------------------------------
(* Reading *)

\* The lines of a part, with their numbers.
Numbered(lines, offset, limit) ==
    {<<i, lines[i]>> : i \in offset..Min({Len(lines), offset + limit - 1})}

\* Read and HashlineRead show the same, the latter with hashes.
ReadFile ==
    /\ file.there
    /\ \E offset \in 1..MaxLines, limit \in 1..MaxLines :
          seenLines' = Numbered(file.lines, offset, limit)
    /\ UNCHANGED <<file, flaws>>

-----------------------------------------------------------------------------
(* HashlineEdit *)

InRange(lines, n) == n \in 1..Len(lines)

\* Mutant: the line may have moved.
HashIsThere(lines, edit) == InRange(lines, edit.line) /\ \E n \in 1..Len(lines) : LineHash(lines[n]) = edit.hash

HashMatches(lines, edit) == InRange(lines, edit.line) /\ LineHash(lines[edit.line]) = edit.hash

\* From the bottom up, in one place the later one last.
SortedEdits(edits) ==
    {order \in Bijection(1..Len(edits), 1..Len(edits)) :
        \A p, q \in 1..Len(edits) : p < q =>
           \/ edits[order[p]].line > edits[order[q]].line
           \/ edits[order[p]].line = edits[order[q]].line /\ order[p] < order[q]}

\* A text of several lines takes the place of one, and the lines are counted anew only when the
\* text is joined.
AppliedEdits(lines, edits, order) ==
    LET texts[k \in 0..Len(edits)] ==
            IF k = 0 THEN [n \in 1..Len(lines) |-> <<lines[n]>>]
            ELSE [texts[k - 1] EXCEPT ![edits[order[k]].line] = edits[order[k]].text]
    IN  FlattenSeq(texts[Len(edits)])

\* What the edits should make of the text.
Edited(lines, edits) ==
    FlattenSeq([n \in 1..Len(lines) |->
        LET here == {i \in 1..Len(edits) : edits[i].line = n}
        IN  IF here = {} THEN <<lines[n]>> ELSE edits[Max(here)].text])

\* The edits an agent makes of what it has been shown.
Edits ==
    LET one == {[line |-> s[1], hash |-> LineHash(s[2]), text |-> t] : s \in seenLines, t \in Replacements}
    IN  UNION {[1..n -> one] : n \in 1..MaxEditsOfCall}

\* A line was shown at this number, with the hash that the one there has now.
ShownAt(n) == \E s \in seenLines : s[1] = n /\ LineHash(s[2]) = LineHash(file.lines[n])

FlawsOf(edits, lines) ==
    (IF \E i \in 1..Len(edits) : ~ShownAt(edits[i].line) THEN {"replaced what was not shown"} ELSE {})
    \cup (IF lines # Edited(file.lines, edits) THEN {"not as asked"} ELSE {})

\* Lines that no edit names are ended by newlines now.
EndsLost(edits) ==
    IF \E n \in 1..Len(file.lines) : file.ends[n] = "other" /\ \A i \in 1..Len(edits) : edits[i].line # n
    THEN {"changed another line's end"} ELSE {}

\* All of the edits or, with one hash that does not match, none.
HashlineEdit ==
    /\ file.there
    /\ \E edits \in Edits :
       /\ \A i \in 1..Len(edits) : HashMatches(file.lines, edits[i])
       /\ \E order \in SortedEdits(edits) :
             LET lines == AppliedEdits(file.lines, edits, order) IN
             /\ Len(lines) <= MaxLines
             /\ Written(Joined(lines))
             /\ flaws' = flaws \cup FlawsOf(edits, lines) \cup EndsLost(edits)
    /\ UNCHANGED seenLines

\* Without edits the file is written all the same.
HashlineEditOfNothing ==
    /\ file.there
    /\ Written(Joined(file.lines))
    /\ UNCHANGED <<seenLines, flaws>>

-----------------------------------------------------------------------------
(* Edit and Write *)

\* The texts to find and to put are whole lines with newlines between them.
RunAt(text, old, i) ==
    /\ SubSeq(text.lines, i, Min({Len(text.lines), i + Len(old) - 1})) = old
    /\ \A n \in i..(i + Len(old) - 2) : text.ends[n] = "newline"

\* The places str.count and str.replace find: from left to right, without overlap.
FoundAt(text, old) ==
    LET from[i \in 1..(Len(text.lines) + Len(old) + 1)] ==
            IF i > Len(text.lines) THEN {}
            ELSE IF RunAt(text, old, i) THEN {i} \cup from[i + Len(old)] ELSE from[i + 1]
    IN  from[1]

\* For the lines found, what is put in their place, and for the others what they are in here.
ReplacedIn(here, old, put, places) ==
    FlattenSeq([n \in 1..Len(here) |->
        IF n \in places THEN put[n]
        ELSE IF \E p \in places : n \in p..(p + Len(old) - 1) THEN <<>>
        ELSE <<here[n]>>])

\* What ended the last of the lines found ends the last of the new ones.
ReplacedAt(text, old, new, places) ==
    LET lines == [n \in places |-> new]
        ends  == [n \in places |-> Newlines(Len(new) - 1) \o <<text.ends[n + Len(old) - 1]>>]
    IN  FileText(ReplacedIn(text.lines, old, lines, places), ReplacedIn(text.ends, old, ends, places))

\* The first of several places only if all are asked for.
EditByString ==
    /\ file.there
    /\ \E old \in Replacements, new \in Replacements, replace_all \in BOOLEAN :
          LET found == FoundAt(file, old) IN
          /\ found # {}
          /\ Cardinality(found) > 1 => replace_all
          /\ Len(ReplacedAt(file, old, new, found).lines) <= MaxLines
          /\ Written(ReplacedAt(file, old, new, found))
    /\ UNCHANGED <<seenLines, flaws>>

\* Whatever the file had.
WriteFile ==
    /\ \E lines \in Replacements : Written(FileText(lines, Newlines(Len(lines) - 1) \o <<"nothing">>))
    /\ UNCHANGED <<seenLines, flaws>>

\* The user, or another session: a line comes, goes or changes, with what ends it, or the file
\* goes.
ChangedByOthers ==
    /\ \/ file' = NoFile
       \/ /\ Len(file.lines) < MaxLines
          /\ \E i \in 1..(Len(file.lines) + 1), line \in Contents :
                /\ i > Len(file.lines) /\ i > 1 => Last(file.ends) # "nothing"
                /\ file' = FileText(InsertAt(file.lines, i, line), InsertAt(file.ends, i, "newline"))
       \/ \E i \in 1..Len(file.lines) : file' = FileText(RemoveAt(file.lines, i), RemoveAt(file.ends, i))
       \/ \E i \in 1..Len(file.lines), line \in Contents :
             file' = FileText([file.lines EXCEPT ![i] = line], file.ends)
       \/ \E i \in 1..Len(file.lines), end \in Ends :
             /\ end = "nothing" => i = Len(file.lines)
             /\ file' = FileText(file.lines, [file.ends EXCEPT ![i] = end])
    /\ UNCHANGED <<seenLines, flaws>>

FileNext ==
    \/ ReadFile \/ HashlineEdit \/ HashlineEditOfNothing \/ EditByString \/ WriteFile \/ ChangedByOthers

FileSpec == FileInit /\ [][FileNext]_fileVars

-----------------------------------------------------------------------------
\* However the file changes between reading and editing, an edit by hash replaces a line only if
\* one with its hash was shown at its number, and the texts of all others stay, in their order;
\* several edits of a call do not shift each other, and the last of one line counts
\* (hashline_edit_tool.py:107-147).
EditsLandWhereShown == flaws \subseteq {"changed another line's end"}

=============================================================================
