------------------------------ MODULE Fallback ------------------------------
(***************************************************************************)
(* run_with_model_fallback (services/advanced_fallback/fallback.py): a run *)
(* tries the candidates of its chain in order, each with the profiles of   *)
(* its provider, until a call succeeds.  The profiles are copied when a    *)
(* candidate's turn comes, and the copies decide about later attempts      *)
(* whatever happens to the store during the calls.                         *)
(*                                                                         *)
(* There is no await between the end of one call and the start of the      *)
(* next: an action is everything in between.                               *)
(***************************************************************************)
EXTENDS AuthProfiles

CONSTANTS
    Runs,   \* the calls of run_with_model_fallback
    Chain   \* the candidates' providers, the primary's first

ASSUME ChainAssumption == Chain \in Seq(Providers) /\ Len(Chain) > 0

VARIABLES
    run     \* what each run does: its candidate, profile, remaining copies; whether it rotated
            \* on this candidate; and the attempts it made (a history variable)

-----------------------------------------------------------------------------
Candidates == 1..Len(Chain)
Finished == {"succeeded", "surfaced", "exhausted", "overflow", "cancelled", "killed"}
Copies == [id : Profiles, stats : Stats]
Attempts == [cand : Candidates, id : Profiles \cup {NoProfile}]
RunStates ==
    [pc : {"ready", "calling"} \cup Finished, cand : Candidates, id : Profiles \cup {NoProfile},
     queue : Seq(Copies), rotated : BOOLEAN, tried : SUBSET Attempts]

InitRuns ==
    run = [r \in Runs |-> [pc |-> "ready", cand |-> 1, id |-> NoProfile, queue |-> <<>>,
                           rotated |-> FALSE, tried |-> {}]]

Calling(r) == run[r].pc = "calling"

\* Mutant of Willing: the end of a cooldown is not compared with the probe margin.
WillingAtEnd(s, i) ==
    \/ Usable(s)
    \/ i # 1 /\ s.cooldownReason \in {"rate_limit", "overloaded", "unknown", NoReason}

\* resolve_cooldown_decision: a copy that is usable is tried; one that is not, close to the end
\* of a transient cooldown, and for a fallback candidate whenever the reason is one of three,
\* "unknown" standing in for a missing one.  No copy has a persistent cooldown_reason
\* (mark_profile_failure), so the branches about those are not reached; nor is the probe
\* throttle, because probe_last_attempt is not stored.
Willing(s, i) ==
    \/ Usable(s)
    \/ s.cooldownUntil # 0 /\ s.cooldownUntil - now <= Margin
    \/ i # 1 /\ s.cooldownReason \in {"rate_limit", "overloaded", "unknown", NoReason}

Offered(i) == {p \in known : ProviderOf[p] = Chain[i]}

\* Candidate i leads to a call: with one of its provider's profiles, or with none if there is none.
Serves(i, st) == Offered(i) = {} \/ \E p \in Offered(i) : Willing(st[p], i)

Call(r, i, id, rest, rotated) ==
    run' = [run EXCEPT ![r] = [pc |-> "calling", cand |-> i, id |-> id, queue |-> rest,
                               rotated |-> rotated, tried |-> run[r].tried \cup {[cand |-> i, id |-> id]}]]

\* The first of the copies q that is not skipped is tried.
CallFirst(r, i, q, rotated) ==
    \E k \in DOMAIN q :
        /\ Willing(q[k].stats, i)
        /\ \A l \in 1..(k - 1) : ~Willing(q[l].stats, i)
        /\ Call(r, i, q[k].id, SubSeq(q, k + 1, Len(q)), rotated)

Ended(r, pc) ==
    [pc |-> pc, cand |-> run[r].cand, id |-> run[r].id, queue |-> <<>>,
     rotated |-> run[r].rotated, tried |-> run[r].tried]

End(r, pc) == run' = [run EXCEPT ![r] = Ended(r, pc)]

\* The list of profiles q, as get_profile copies them out of the statistics st.
Copied(q, st) == [k \in 1..Len(q) |-> [id |-> q[k], stats |-> st[q[k]]]]

\* The outer loop, from candidate i on, over the statistics st.
Advance(r, i, st) ==
    \/ /\ \A j \in i..Len(Chain) : ~Serves(j, st)
       /\ End(r, "exhausted")
    \/ \E j \in i..Len(Chain) :
          /\ Serves(j, st)
          /\ \A l \in i..(j - 1) : ~Serves(l, st)
          /\ \/ Offered(j) = {} /\ Call(r, j, NoProfile, <<>>, FALSE)
             \/ \E q \in Orders(Offered(j), st) :
                   CallFirst(r, j, Copied(q, st), FALSE)

\* Candidate i is next: expired cooldowns are cleared first, if there is a candidate i.
Turn(r, i, st) ==
    LET clean == IF i \in Candidates THEN ClearedAll(st) ELSE st
    IN  /\ Advance(r, i, clean)
        /\ IF run[r].id \in known \/ clean # stats THEN Save(known, clean, lastGood) ELSE Unsaved

Begin(r) == run[r].pc = "ready" /\ Turn(r, 1, stats)

\* Mutant of Succeed: the profile is not looked up before it is marked.
SucceedUnchecked(r) ==
    LET p == run[r].id
    IN  /\ Calling(r)
        /\ End(r, "succeeded")
        /\ IF p # NoProfile
           THEN Save(known \cup {p}, [stats EXCEPT ![p] = Succeeded(stats[p])],
                     [lastGood EXCEPT ![ProviderOf[p]] = p])
           ELSE Unsaved

\* The call returns.
Succeed(r) ==
    LET p == run[r].id
    IN  /\ Calling(r)
        /\ End(r, "succeeded")
        /\ IF p \in known
           THEN Save(known, [stats EXCEPT ![p] = Succeeded(stats[p])],
                     [lastGood EXCEPT ![ProviderOf[p]] = p])
           ELSE Unsaved

\* The statistics once the failure of r's call is recorded.
Marked(r, e) ==
    LET p == run[r].id
    IN  IF p \in known THEN [stats EXCEPT ![p] = Failed(stats[p], e, Cooldown[e])] ELSE stats

\* It fails for a transient reason, the first time for this candidate: the next profile's turn.
Rotate(r, e) ==
    LET q == run[r].queue
        i == run[r].cand
    IN  /\ Calling(r) /\ ~run[r].rotated /\ e \in Transient
        /\ IF \E k \in DOMAIN q : Willing(q[k].stats, i)
           THEN /\ CallFirst(r, i, q, TRUE)
                /\ IF run[r].id \in known THEN Save(known, Marked(r, e), lastGood) ELSE Unsaved
           ELSE Turn(r, i + 1, Marked(r, e))

\* Mutant of FallBack: the same candidate's turn comes again.
FallBackStays(r, e) ==
    /\ Calling(r) /\ (run[r].rotated \/ e \notin Transient)
    /\ Len(Chain) > 1
    /\ Turn(r, run[r].cand, Marked(r, e))

\* It fails otherwise: the next candidate's turn, if the chain has more than one.
FallBack(r, e) ==
    /\ Calling(r) /\ (run[r].rotated \/ e \notin Transient)
    /\ Len(Chain) > 1
    /\ Turn(r, run[r].cand + 1, Marked(r, e))

Surface(r, e) ==
    /\ Calling(r) /\ (run[r].rotated \/ e \notin Transient)
    /\ Len(Chain) = 1
    /\ End(r, "surfaced")
    /\ IF run[r].id \in known THEN Save(known, Marked(r, e), lastGood) ELSE Unsaved

\* The context is too long for the model: raised before anything is recorded.
Overflow(r) == Calling(r) /\ End(r, "overflow") /\ Unsaved

\* The task is cancelled at the call, which no except clause of the loop catches.
Cancel(r) == Calling(r) /\ End(r, "cancelled") /\ Unsaved

Answer(r) == Succeed(r) \/ Overflow(r) \/ \E e \in Reasons : Rotate(r, e) \/ FallBack(r, e) \/ Surface(r, e)

NextRun == \E r \in Runs : Begin(r) \/ Answer(r) \/ Cancel(r)
=============================================================================
