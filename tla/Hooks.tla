------------------------------- MODULE Hooks ---------------------------------
(***************************************************************************)
(* The lifecycle hooks of one point, tool:after: the registry and its      *)
(* runner (hooks/engine.py), what bootstrap_hooks registers                *)
(* (hooks/initializer.py) and the scanner for secrets                      *)
(* (hooks/handlers/secret_scanner.py).                                     *)
(*                                                                         *)
(* A dispatch walks a list by its index and waits for each handler, and    *)
(* hooks come and go meanwhile: register changes the list the dispatch is  *)
(* walking, unregister leaves it that list and makes another.              *)
(***************************************************************************)
EXTENDS Integers, Sequences, FiniteSets, SequencesExt

CONSTANTS
    Dispatches,        \* the calls of dispatch that may be under way
    Tiers,             \* the tiers of hooks registered later, of HookTier
    Strategies,        \* their conflict resolutions, of ConflictResolution
    HookNames          \* their names

ASSUME HooksAssumption ==
    /\ Tiers \subseteq {"core", "continuation", "skill", "transform"}
    /\ Strategies \subseteq {"last_win", "first_win", "merge"}
    /\ {"secret_scanner", "wave2_tool_after"} \cap HookNames = {}

VARIABLES
    coming,    \* the hooks that may be registered later, by name
    hooks,     \* _hooks[TOOL_AFTER]: the entries in the order they run
    walk       \* run_hooks, one per dispatch

hookVars == <<coming, hooks, walk>>

-----------------------------------------------------------------------------
TierPriority == [core |-> 0, continuation |-> 100, skill |-> 200, transform |-> 300]
Offsets == {-100, 0}   \* the priorities within a tier

Hook(name, tier, priority, how) ==
    [name |-> name, priority |-> TierPriority[tier] + priority, how |-> how]

\* The result is a text, with a secret or without, or a list of parts, which nobody scans.
Results == {"secret", "clean", "parts"}

\* last, ran and due are the names of the hook called last, of those called and of those that
\* were registered; top is the priority of the last of these that was called for the first time,
\* and sound what HooksInOrder is about.
NoWalk == [phase |-> "none", list |-> <<>>, live |-> FALSE, i |-> 0, result |-> "clean",
           last |-> "none", top |-> -1000, ran |-> {}, due |-> {},
           changed |-> FALSE, sound |-> TRUE]

HooksInit ==
    /\ coming \in {[n \in HookNames |-> Hook(n, f[n][1], f[n][2], f[n][3])] :
                     f \in [HookNames -> Tiers \X Offsets \X Strategies]}
    /\ hooks = <<Hook("secret_scanner", "continuation", -100, "last_win"),
                 Hook("wave2_tool_after", "continuation", 0, "last_win")>>
    /\ walk = [d \in Dispatches |-> NoWalk]

Names(list) == {list[i].name : i \in 1..Len(list)}

-----------------------------------------------------------------------------
\* The handlers of bootstrap_hooks never wait, so nothing comes right after the scanner's.
Waiting(d) ==
    CASE walk[d].phase = "starting" -> FALSE
      [] walk[d].phase = "running" -> walk[d].last \in HookNames
      [] OTHER -> TRUE
OthersMayRun(ds) == \A d \in ds : Waiting(d)

\* append and the stable sort, of a list that was sorted: the entry goes behind those of its
\* priority.
Inserted(list, h) ==
    InsertAt(list, Cardinality({i \in DOMAIN list : list[i].priority <= h.priority}) + 1, h)

\* register: the list that is being walked changes too.
RegisterHook ==
    /\ OthersMayRun(Dispatches)
    /\ \E name \in HookNames \ Names(hooks) :
          /\ hooks' = Inserted(hooks, coming[name])
          /\ walk' = [d \in Dispatches |->
                        IF walk[d].live THEN [walk[d] EXCEPT !.list = Inserted(@, coming[name])] ELSE walk[d]]
    /\ UNCHANGED coming

\* unregister takes the entry out of the list a dispatch is walking.
UnregisterHookInPlace ==
    /\ OthersMayRun(Dispatches)
    /\ \E n \in DOMAIN hooks :
          /\ hooks' = RemoveAt(hooks, n)
          /\ walk' = [d \in Dispatches |->
                        IF walk[d].live THEN [walk[d] EXCEPT !.list = RemoveAt(@, n)] ELSE walk[d]]
    /\ UNCHANGED coming

\* unregister makes a new list, without the one hook of this name: a dispatch under way goes on
\* with the old one.
UnregisterHook ==
    /\ OthersMayRun(Dispatches)
    /\ \E n \in DOMAIN hooks :
          /\ hooks' = RemoveAt(hooks, n)
          /\ walk' = [d \in Dispatches |-> [walk[d] EXCEPT !.live = FALSE]]
    /\ UNCHANGED coming

\* dispatch, up to its first handler.
Dispatch ==
    /\ OthersMayRun(Dispatches)
    /\ \E d \in Dispatches, r \in Results :
          /\ walk[d].phase \in {"none", "done", "bailed"}
          /\ walk' = [walk EXCEPT ![d] = [NoWalk EXCEPT !.phase = IF hooks = <<>> THEN "done" ELSE "starting",
                                                       !.list = hooks, !.live = hooks # <<>>,
                                                       !.result = r, !.due = Names(hooks)]]
    /\ UNCHANGED <<coming, hooks>>

-----------------------------------------------------------------------------
\* _apply_modify: texts do not merge, lists do.
Modified(old, new, how) ==
    CASE how = "first_win" -> old
      [] how = "merge" /\ {old, new} = {"parts"} -> "parts"
      [] OTHER -> new

\* scan_and_redact
Redacted(r) == IF r = "secret" THEN "clean" ELSE r

\* The next entry, or the end: w with its handler's answer.
EndedAs(w, phase) ==
    [NoWalk EXCEPT !.phase = phase, !.sound = w.sound /\ (phase = "done" => w.due \subseteq w.ran)]
WalkEnds(w) == EndedAs(w, "done")
Called(w) ==
    LET h == w.list[w.i + 1]
        first == h.name \in w.due \ w.ran
        late == h.priority >= 0 /\ h.name # "secret_scanner" /\ "secret_scanner" \in w.due
    IN  [w EXCEPT !.phase = "running", !.i = @ + 1, !.last = h.name, !.ran = @ \cup {h.name},
                  !.top = IF first THEN h.priority ELSE @,
                  !.sound = @ /\ (first => w.top <= h.priority)
                              /\ (late /\ ~w.changed => w.result # "secret")]
Bails(w) == EndedAs(Called(w), "bailed")

\* What one call of a handler does: nothing, or it raises, which is passed over; the scanner
\* redacts; one that was registered later also bails or modifies the result.
Answers(w) ==
    LET h == w.list[w.i + 1] IN
    IF h.name = "secret_scanner" THEN {[Called(w) EXCEPT !.result = Redacted(@)]}
    ELSE IF h.name = "wave2_tool_after" THEN {Called(w)}
    ELSE {Called(w), Bails(w)}
         \cup {[Called(w) EXCEPT !.result = Modified(@, r, h.how), !.changed = TRUE] : r \in Results}

RunHook ==
    /\ \E d \in Dispatches :
          LET w == walk[d] IN
          /\ w.phase \in {"starting", "running"}
          /\ OthersMayRun(Dispatches \ {d})
          /\ \E next \in IF w.i < Len(w.list) THEN Answers(w) ELSE {WalkEnds(w)} :
                walk' = [walk EXCEPT ![d] = next]
    /\ UNCHANGED <<coming, hooks>>

HooksNext == RegisterHook \/ UnregisterHook \/ Dispatch \/ RunHook

HooksSpec == HooksInit /\ [][HooksNext]_hookVars

-----------------------------------------------------------------------------
\* Of the hooks that were registered as a dispatch began, those of lower priority have run before
\* one runs for the first time, and unless one bails all of them do, however the list changes under
\* it; a secret in a text is gone before any hook of priority 0 or more sees it, unless the scanner
\* was unregistered or a hook wrote the result (engine.py:131-177, initializer.py:26-38).  Two hooks
\* that are registered while one waits put off the rest: hooks then run again, or out of turn.
HooksInOrder == \A d \in Dispatches : walk[d].sound

=============================================================================
