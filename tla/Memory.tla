------------------------------- MODULE Memory ---------------------------------
(***************************************************************************)
(* What a turn is told to remember (backend/memory): the entries of the    *)
(* project's memory files through the index of memdir.py, and the scoped   *)
(* indices of memory_manager.py, whose root is always ".".                 *)
(*                                                                         *)
(* A directory object is made for each spelling of a project's path; those *)
(* of one project share its index file and nothing else.  Each save writes *)
(* a whole file, and one that fails leaves it as it was, as it was to be,  *)
(* or torn.  Texts, keywords and scores are left out: what there is        *)
(* may be found.  So are the operations that nothing but tests calls: to   *)
(* add, change or delete an entry by hand, to count a use, and daily logs. *)
(***************************************************************************)
EXTENDS Naturals, FiniteSets

CONSTANTS
    Spellings,   \* of the path of one project
    Lines,       \* entries its memory files may have
    Scopes, Signals,
    MaxClock,    \* bound on the time
    MaxCrashes

ASSUME MemoryAssumption ==
    /\ IsFiniteSet(Lines) /\ MaxClock \in Nat /\ MaxCrashes \in Nat

VARIABLES
    minute,     \* the time; five minutes are RescanAfter
    memoryFile, \* the lines of the project's memory files
    removedAt,  \* when each line was last seen there (a history variable)
    directory,  \* _memdir_cache: the index of each object
    indexFile,  \* memory_index.json
    scoped,     \* the manager's _indices
    scopedFile, \* the file of each
    cutOff,     \* the scopes whose file a write broke off in since the start
    counted,    \* the signals that auto_save_signals counted (a history variable)
    prompt,     \* when the last turn began, and what of the directory it may have been told
    crashes

memoryVars == <<minute, memoryFile, removedAt, directory, indexFile, scoped, scopedFile, cutOff,
                counted, prompt, crashes>>

-----------------------------------------------------------------------------
RescanAfter == 2

\* "read" is when the files were last read without an error (a history variable).
EmptyIndex == [entries |-> {}, scanned |-> FALSE, lastScan |-> 0, read |-> 0]
NotLoaded == [loaded |-> FALSE, index |-> EmptyIndex]
NoPrompt == [at |-> 0, index |-> EmptyIndex]

MemoryInit ==
    /\ minute = 0
    /\ memoryFile = {} /\ removedAt = [l \in Lines |-> 0]
    /\ directory = [d \in Spellings |-> NotLoaded] /\ indexFile = EmptyIndex
    /\ scoped = [s \in Scopes |-> [loaded |-> FALSE, entries |-> {}]]
    /\ scopedFile = [s \in Scopes |-> {}] /\ counted = [s \in Scopes |-> {}]
    /\ cutOff = {}
    /\ prompt = NoPrompt
    /\ crashes = 0

\* get_memory_directory
Index(d) == IF directory[d].loaded THEN directory[d].index ELSE indexFile

\* MemoryDirectory with this index.
Keep(d, index) == directory' = [directory EXCEPT ![d] = [loaded |-> TRUE, index |-> index]]

\* scan_project: a line of a memory file is an entry whatever its section, with a new id each time;
\* a file that cannot be read is passed over.
InFiles == SUBSET memoryFile

ScanDue(index) == ~(index.scanned /\ minute - index.lastScan < RescanAfter)

\* What was not in the files stays.
ScannedKeeping(index) ==
    IF ~ScanDue(index) THEN {index}
    ELSE {[entries |-> index.entries \cup lines, scanned |-> TRUE, lastScan |-> minute, read |-> minute] :
          lines \in InFiles}

\* scan_and_index, as far as it comes through.
Scanned(index) ==
    IF ~ScanDue(index) THEN {index}
    ELSE {[entries |-> lines, scanned |-> TRUE, lastScan |-> minute, read |-> minute] : lines \in InFiles}

\* get_index
ScopedIndex(s) == IF scoped[s].loaded THEN scoped[s].entries ELSE scopedFile[s]
Loaded(entries) == [loaded |-> TRUE, entries |-> entries]

\* find_relevant_memories sorts all entries by a score and takes the first, whatever it is.
Tell(index) == prompt' = [at |-> minute, index |-> index]

\* extract_signals_from_transcript: of each text of the user one, in the first scope whose
\* pattern it has.
Extracted == Signals

-----------------------------------------------------------------------------
\* The user edits the project's files.
EditFile ==
    /\ \E lines \in SUBSET Lines :
          /\ memoryFile' = lines
          /\ removedAt' = [l \in Lines |-> IF l \in memoryFile \cup lines THEN minute ELSE removedAt[l]]
    /\ UNCHANGED <<minute, directory, indexFile, scoped, scopedFile, cutOff, counted, prompt, crashes>>

\* build_context_for_prompt searches, and so loads, every scope.
BuiltContext == [s \in Scopes |-> Loaded(ScopedIndex(s))]

\* _agentic_loop_impl: the directory's index is scanned, and what is found is touched and saved.
Remember(d) ==
    /\ \E index \in Scanned(Index(d)) :
          /\ Keep(d, index)
          /\ indexFile' = index
          /\ Tell(index)
    /\ scoped' = BuiltContext
    /\ UNCHANGED <<minute, memoryFile, removedAt, scopedFile, cutOff, counted, crashes>>

\* An exception on the way costs the turn the directory's entries.  The scan has noted its time
\* before it begins; what it found is in memory before it is written.
RememberFails(d) ==
    /\ \/ /\ ScanDue(Index(d))
          /\ Keep(d, [Index(d) EXCEPT !.scanned = TRUE, !.lastScan = minute])
          /\ UNCHANGED indexFile
       \/ \E index \in Scanned(Index(d)) :
             /\ Keep(d, index)
             /\ indexFile' \in {indexFile, index, EmptyIndex}
    /\ Tell(EmptyIndex)
    /\ scoped' = BuiltContext
    /\ UNCHANGED <<minute, memoryFile, removedAt, scopedFile, cutOff, counted, crashes>>

\* save_memory of one signal.  A write that fails raises after the index in memory has the
\* entry; auto_save_signals does not count it and goes on.
SaveSignal(s) ==
    /\ \E e \in Extracted :
          LET entries == ScopedIndex(s) \cup {e}
              Wrote(file) == scopedFile' = [scopedFile EXCEPT ![s] = file]
          IN  /\ scoped' = [scoped EXCEPT ![s] = Loaded(entries)]
              /\ \/ Wrote(entries) /\ cutOff' = cutOff \ {s} /\ counted' = [counted EXCEPT ![s] = @ \cup {e}]
                 \/ UNCHANGED <<scopedFile, cutOff, counted>>
                 \/ Wrote(entries) /\ cutOff' = cutOff \ {s} /\ UNCHANGED counted
                 \/ Wrote({}) /\ cutOff' = cutOff \cup {s} /\ UNCHANGED counted
    /\ UNCHANGED <<minute, memoryFile, removedAt, directory, indexFile,
                   prompt, crashes>>

Later ==
    /\ minute < MaxClock
    /\ minute' = minute + 1
    /\ removedAt' = [l \in Lines |-> IF l \in memoryFile THEN minute + 1 ELSE removedAt[l]]
    /\ UNCHANGED <<memoryFile, directory, indexFile, scoped, scopedFile, cutOff, counted, prompt, crashes>>

\* The process ends and starts again, perhaps while it wrote one file: a torn index is loaded
\* as an empty one.
Crash ==
    /\ crashes < MaxCrashes
    /\ crashes' = crashes + 1
    /\ directory' = [d \in Spellings |-> NotLoaded]
    /\ scoped' = [s \in Scopes |-> [loaded |-> FALSE, entries |-> {}]]
    /\ prompt' = NoPrompt
    /\ \/ UNCHANGED <<indexFile, scopedFile>>
       \/ indexFile' = EmptyIndex /\ UNCHANGED scopedFile
       \/ \E s \in Scopes : scopedFile' = [scopedFile EXCEPT ![s] = {}] /\ UNCHANGED indexFile
    /\ cutOff' = {}
    /\ counted' = [s \in Scopes |-> counted[s] \cap scopedFile'[s]]
    /\ UNCHANGED <<minute, memoryFile, removedAt>>

MemoryNext ==
    \/ EditFile \/ Later \/ Crash
    \/ \E d \in Spellings : Remember(d) \/ RememberFails(d)
    \/ \E s \in Scopes : SaveSignal(s)

MemorySpec == MemoryInit /\ [][MemoryNext]_memoryVars

-----------------------------------------------------------------------------
\* Whatever another object of the project wrote and whatever a restart loaded, a turn is told
\* nothing that was not in the memory files when they were last read, and they were read, or
\* reading them failed, less than five minutes ago (memdir.py:62-80).  A signal that was counted
\* as saved is in its scope's index, and on disk unless a later write broke off
\* (memory_manager.py:242); only a crash then loses it.
MemoriesCurrent ==
    /\ \A l \in prompt.index.entries :
          prompt.index.read <= removedAt[l] /\ prompt.at < prompt.index.lastScan + RescanAfter
    /\ \A s \in Scopes : /\ counted[s] \subseteq ScopedIndex(s)
                         /\ s \in cutOff \/ counted[s] \subseteq scopedFile[s]

=============================================================================
