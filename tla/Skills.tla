------------------------------- MODULE Skills --------------------------------
(***************************************************************************)
(* The skills and how one is chosen for a task: core/skills.py with        *)
(* api/skills_api.py, and the turn that a skill's trigger puts             *)
(* instructions into (core/conversation.py, _run_conversation_turn_inner). *)
(* classify_intent_with_skill, which asks the selector too, is called by   *)
(* tests only.                                                             *)
(*                                                                         *)
(* The files are read once, at the first use; what is on disk later counts *)
(* only after the next start.  Scores are in tenths.                       *)
(***************************************************************************)
EXTENDS Integers, Sequences, FiniteSets, SequencesExt

CONSTANTS
    Tasks,      \* the tasks, each the set of words it is written with
    Phases,     \* the phases asked with
    Risks,      \* the risks asked with
    TraceSize,  \* maxlen of the trace
    MaxEdits    \* bound on the changes on disk

ASSUME SkillsAssumption == TraceSize \in Nat \ {0} /\ MaxEdits \in Nat

VARIABLES
    disk,      \* of each directory and name the form of its SKILL.md
    paths,     \* DEFAULT_SKILLS_PATHS
    registry,  \* _skill_registry, NotRead before the first use
    trace,     \* of SkillSelector, the oldest first
    answer,    \* the last choice: what for, and the skills given, the best first
    edits      \* the changes on disk so far

skillVars == <<disk, paths, registry, trace, answer, edits>>

-----------------------------------------------------------------------------
(* Words: a hyphenated one has pieces, and a word may lie inside another. *)

WordPieces(w) == IF w = "ship-it" THEN {"ship", "it"} ELSE {w}
PiecesOf(words) == UNION {WordPieces(w) : w \in words}
Inside(w) == IF w = "insecurity" THEN {w, "security"} ELSE {w} \cup WordPieces(w)

\* Four stands for any number from four on.
Letters(w) == CASE w = "it" -> 2 [] w = "run" -> 3 [] OTHER -> 4
Placeholders == {"task", "item", "name", "text", "here"}

SkillNames == {"autopilot", "security"}
\* The trigger stands in the front matter or in a section of its own: a word, its usage with a
\* placeholder, a placeholder alone, a word of two or of three letters; or there is none.
Forms == {"none", "front", "section", "usage", "placeholder", "two", "three", "untriggered"}

NotRead == [read |-> FALSE, skills |-> <<>>]
NoAnswer == [task |-> {}, phase |-> "", risk |-> "", skills |-> <<>>]

SkillsInit ==
    /\ disk = [local |-> [n \in SkillNames |-> IF n = "autopilot" THEN "untriggered" ELSE "front"],
               extra |-> [n \in SkillNames |-> "none"]]
    /\ paths \in {<<"local">>, <<"local", "extra">>}
    /\ registry = NotRead
    /\ trace = <<>>
    /\ answer = NoAnswer
    /\ edits = 0

-----------------------------------------------------------------------------
(* The registry *)

\* A section "Trigger" counts over the line in front, and may be of another wording.
TriggerOf(name, form) ==
    CASE form = "front" -> {name} [] form = "section" -> {"ship-it"} [] form = "usage" -> {"ship-it", "task"}
      [] form = "placeholder" -> {"task"} [] form = "two" -> {"it"} [] form = "three" -> {"run"}
      [] OTHER -> {}

\* A section "Description", or else the same words for all.
DescriptionOf(form) == IF form = "usage" THEN {"release"} ELSE {"specialized", "workflow", "skill"}

\* parse_skill
Parsed(name, form, dir) ==
    [name |-> name, dir |-> dir, trigger |-> TriggerOf(name, form), description |-> DescriptionOf(form)]

Present(dir) == {n \in SkillNames : disk[dir][n] # "none"}
NewNames == Present("extra") \ Present("local")

\* Files of a directory, in the orders a file system may list them.
Listings(names, dir) ==
    {[i \in 1..Cardinality(names) |-> Parsed(order[i], disk[dir][order[i]], dir)] : order \in SetToSeqs(names)}

\* A skill of the same name replaces one that was read before, in its place.
Replaced(first) ==
    [i \in 1..Len(first) |->
        IF first[i].name \in Present("extra")
        THEN Parsed(first[i].name, disk["extra"][first[i].name], "extra") ELSE first[i]]

\* discover_skills, over the paths.
Discovered ==
    IF Len(paths) = 1 THEN Listings(Present("local"), "local")
    ELSE {Replaced(first) \o rest :
                 first \in Listings(Present("local"), "local"),
                 rest \in Listings(NewNames, "extra")}

\* get_registry: read at the first use and kept.
Reads(reg) ==
    reg \in (IF registry.read THEN {registry}
             ELSE {[read |-> TRUE, skills |-> skills] : skills \in Discovered})

-----------------------------------------------------------------------------
(* The score *)

PhaseAffinity(phase) ==
    CASE phase = "research" -> {"deepsearch", "analyze", "deep-interview"}
      [] phase = "plan" -> {"ralplan", "writing-plans", "brainstorming"}
      [] phase = "fix" -> {"build-fix", "doctor"}
      [] phase = "team" -> {"team", "swarm", "worker"}
      [] phase = "implement" -> {"autopilot", "ultrawork", "tdd", "build-fix"}
      [] phase = "review" -> {"code-review", "review", "security-review", "ultraqa"}
      [] phase = "security" -> {"security", "security-review"}
      [] OTHER -> {}
HighRiskBoost == {"security", "security-review", "code-review", "ultraqa"}
HighRiskPenalty == {"autopilot", "ultrawork"}
HighRisk(risk) == risk \in {"high", "critical"}

\* The words of the trigger that count: from three letters on, as pieces from four on.
TriggerTokens(skill) ==
    ({w \in skill.trigger : Letters(w) >= 3} \cup {w \in PiecesOf(skill.trigger) : Letters(w) >= 4}) \ Placeholders

\* One of them lies anywhere in the text.
TriggerFound(skill, task) == TriggerTokens(skill) \cap UNION {Inside(w) : w \in task} # {}

\* The words from four letters on that the task shares with what the skill says of itself.
Overlap(skill, task) ==
    {w \in PiecesOf(task) \cap PiecesOf({skill.name} \cup skill.description \cup skill.trigger) : Letters(w) >= 4}

Keywords(skill, task) ==
    (IF TriggerFound(skill, task) THEN 30 ELSE 0) + 6 * Cardinality(Overlap(skill, task))

\* Mutant: a risk takes less from the autonomous skills than the phase has given them.
ScoreLenient(skill, task, phase, risk) ==
    Keywords(skill, task)
    + (IF skill.name \in PhaseAffinity(phase) THEN 15 ELSE 0)
    + (IF HighRisk(risk) /\ skill.name \in HighRiskBoost THEN 10 ELSE 0)
    - (IF HighRisk(risk) /\ skill.name \in HighRiskPenalty THEN 2 ELSE 0)

\* _score_skill
Score(skill, task, phase, risk) ==
    Keywords(skill, task)
    + (IF skill.name \in PhaseAffinity(phase) THEN 15 ELSE 0)
    + (IF HighRisk(risk) /\ skill.name \in HighRiskBoost THEN 10 ELSE 0)
    - (IF HighRisk(risk) /\ skill.name \in HighRiskPenalty THEN 8 ELSE 0)

\* The places of those with a score, the best first; of equals the one registered first.
Ranked(skills, task, phase, risk) ==
    LET score == [i \in 1..Len(skills) |-> Score(skills[i], task, phase, risk)]
    IN  {order \in SetToSeqs({i \in 1..Len(skills) : score[i] > 0}) :
            \A k, l \in 1..Len(order) : k < l =>
                \/ score[order[k]] > score[order[l]]
                \/ score[order[k]] = score[order[l]] /\ order[k] < order[l]}

\* The confidence is a fiftieth of the score, and a quarter is enough.
Confident(skill, task, phase, risk) == 4 * Score(skill, task, phase, risk) >= 50

-----------------------------------------------------------------------------
(* Selections *)

Choice(task, phase, risk, skills) == [task |-> task, phase |-> phase, risk |-> risk, skills |-> skills]

\* The first of them, as far as they are good enough.
Selected(task, phase, risk, limit) ==
    \E order \in Ranked(registry'.skills, task, phase, risk), n \in 0..limit :
        LET good(k) == Confident(registry'.skills[order[k]], task, phase, risk) IN
        /\ n <= Len(order)
        /\ \A k \in 1..n : good(k)
        /\ n < limit /\ n < Len(order) => ~good(n + 1)
        /\ answer' = Choice(task, phase, risk, [k \in 1..n |-> registry'.skills[order[k]]])

\* _record_trace: "" stands for no match.
Traced(skills) ==
    LET all == Append(trace, IF skills = <<>> THEN "" ELSE skills[1].name)
    IN  IF Len(all) > TraceSize THEN Tail(all) ELSE all

\* SkillSelector.select
Select(task, phase, risk) ==
    /\ Reads(registry')
    /\ Selected(task, phase, risk, 1)
    /\ trace' = Traced(answer'.skills)

SelectOne ==
    /\ \E task \in Tasks, phase \in Phases, risk \in Risks : Select(task, phase, risk)
    /\ UNCHANGED <<disk, paths, edits>>

\* select_many, which leaves no trace.
SelectMany ==
    /\ \E task \in Tasks, phase \in Phases, risk \in Risks :
          Reads(registry') /\ Selected(task, phase, risk, 3)
    /\ UNCHANGED <<disk, paths, trace, edits>>

-----------------------------------------------------------------------------
(* Turns, files, starts *)

\* match_trigger: here the whole trigger must stand in the text as a word of its own; more than
\* one word of it do not stand there.
Triggered(skill, task) == \E w \in task : skill.trigger = {w}

\* The answer is the first of the skills that were asked for, if there is one.
FirstOf(task, places) ==
    \/ places = {} /\ answer' = Choice(task, "turn", "", <<>>)
    \/ \E i \in places :
          (\A j \in places : i <= j) /\ answer' = Choice(task, "turn", "", <<registry'.skills[i]>>)

\* A turn gets the instructions of the skill it triggers.
StartTurn ==
    /\ \E task \in Tasks :
          /\ Reads(registry')
          /\ FirstOf(task, {i \in 1..Len(registry'.skills) : Triggered(registry'.skills[i], task)})
    /\ UNCHANGED <<disk, paths, trace, edits>>

\* POST /skills/{name}/execute
ExecuteSkill ==
    /\ \E name \in SkillNames :
          /\ Reads(registry')
          /\ FirstOf({}, {i \in 1..Len(registry'.skills) : registry'.skills[i].name = name})
    /\ UNCHANGED <<disk, paths, trace, edits>>

\* GET /skills and /skills/{name}
ListSkills ==
    /\ Reads(registry')
    /\ UNCHANGED <<disk, paths, trace, answer, edits>>

EditSkill ==
    /\ edits < MaxEdits
    /\ edits' = edits + 1
    /\ \E form \in Forms : disk' = [disk EXCEPT !["extra"]["autopilot"] = form]
    /\ UNCHANGED <<paths, registry, trace, answer>>

\* The plugin adds its directory, if it is there, before anything reads the registry.
StartUp ==
    /\ paths' \in {<<"local">>, <<"local", "extra">>}
    /\ registry' = NotRead
    /\ trace' = <<>>
    /\ answer' = NoAnswer
    /\ UNCHANGED <<disk, edits>>

SkillsNext ==
    \/ SelectOne \/ SelectMany
    \/ StartTurn \/ ExecuteSkill \/ ListSkills \/ EditSkill \/ StartUp

SkillsSpec == SkillsInit /\ [][SkillsNext]_skillVars

-----------------------------------------------------------------------------
Mentioned(skill, task) == TriggerFound(skill, task) \/ Overlap(skill, task) # {} \/ Triggered(skill, task)

\* Named by its trigger, and one that the score takes for a word.
CalledFor(skill, task) == Triggered(skill, task) /\ \E w \in PiecesOf(skill.trigger) \ Placeholders : Letters(w) >= 4

\* The weights add up to what they are for (core/skills.py:407-477): a skill that the task
\* calls by its trigger is not passed over for one that the task does not mention, whatever
\* phase and risk say; and at a high risk no autonomous skill is chosen unless the task
\* mentions it.
SkillsSound ==
    \A i \in 1..Len(answer.skills) :
        LET chosen == answer.skills[i] IN
        /\ (~Mentioned(chosen, answer.task) /\ i = 1) =>
              \A j \in 1..Len(registry.skills) : ~CalledFor(registry.skills[j], answer.task)
        /\ (HighRisk(answer.risk) /\ chosen.name \in HighRiskPenalty) => Mentioned(chosen, answer.task)

=============================================================================
