------------------------------ MODULE Failover ------------------------------
(***************************************************************************)
(* Runs with fallback and OAuth requests on one store of auth profiles,    *)
(* while time passes and the process restarts.                             *)
(***************************************************************************)
EXTENDS Fallback, OAuth

CONSTANT MaxRestarts   \* bound on the restarts

ASSUME RestartsAssumption == MaxRestarts \in Nat

VARIABLE restarts      \* the restarts so far

vars == <<storeVars, run, oauthVars, restarts>>

-----------------------------------------------------------------------------
InitSystem ==
    /\ Init /\ InitRuns /\ InitOAuth
    /\ known \cap Issued = {}
    /\ restarts = 0

Restart ==
    /\ restarts < MaxRestarts
    /\ restarts' = restarts + 1
    /\ Load /\ ForgetOAuth
    /\ run' = [r \in Runs |-> IF Calling(r) THEN Ended(r, "killed") ELSE run[r]]

NextSystem ==
    \/ NextRun /\ UNCHANGED <<oauthVars, restarts>>
    \/ NextOAuth /\ UNCHANGED <<run, restarts>>
    \/ Tick /\ UNCHANGED <<run, oauthVars, restarts>>
    \/ Restart

Spec == InitSystem /\ [][NextSystem]_vars

\* A call to a provider returns or fails: the clients' requests have timeouts.
FairSpec == Spec /\ \A r \in Runs : WF_vars(Answer(r) /\ UNCHANGED <<oauthVars, restarts>>)

-----------------------------------------------------------------------------
(* Every variable has its type. *)
TypeOK ==
    /\ now \in 1..MaxTime
    /\ known \subseteq Profiles
    /\ stats \in [Profiles -> Stats]
    /\ lastGood \in [Providers -> Profiles \cup {NoProfile}]
    /\ disk \in Files
    /\ faults \in 0..MaxFaults
    /\ run \in [Runs -> RunStates]
    /\ opened \in [Logins -> 0..MaxTime]
    /\ pending \subseteq Logins
    /\ exchanging \in [Callbacks -> Logins \cup {NoLogin}]
    /\ refreshing \in [Refreshers -> Profiles \cup {NoProfile}]
    /\ origin \in [Issued -> Logins \cup {NoLogin}]
    /\ restarts \in 0..MaxRestarts

\* Run r goes on, or gives up, without a call for candidate i, whose turn had not come yet.
PassesOver(r, i) ==
    /\ run'[r] # run[r]
    /\ run[r].pc = "ready" \/ i > run[r].cand
    /\ run'[r].pc = "exhausted" \/ (run'[r].pc = "calling" /\ i < run'[r].cand)
    /\ ~ \E a \in run'[r].tried : a.cand = i

(* A fallback candidate is passed over only if its provider has profiles and all of them are  *)
(* disabled: that they failed for a moment, for this run or for another, is no reason         *)
(* ("Transient errors on same-provider fallback should relax",                                *)
(* tests/test_advanced_fallback.py:401; fallback.py:172-213 with cooldown.py:263-281).        *)
(* The other direction does not hold: a candidate is tried with disabled profiles too.        *)
OnlyDisabledPassedOver ==
    [][\A r \in Runs, i \in Candidates \ {1} :
          PassesOver(r, i) => Offered(i) # {} /\ \A p \in Offered(i) : stats'[p].disabledUntil > now]_vars

(* A candidate costs a run at most two calls, the second after the one rotation; nothing else *)
(* in the code bounds them, as total_attempts does not count failures.                        *)
AttemptsFew ==
    \A r \in Runs, i \in Candidates : Cardinality({a \in run[r].tried : a.cand = i}) <= 2

(* The last good profile of a provider is in the store and is that provider's: a late success *)
(* of a revoked profile does not name it, and a restart does not bring it back.               *)
LastGoodKnown ==
    \A v \in Providers : lastGood[v] # NoProfile => (lastGood[v] \in known /\ ProviderOf[lastGood[v]] = v)

(* An authorization gives one profile at most, however many callbacks present its state      *)
(* parameter: exchange_code takes it out of _pending before it waits (oauth_provider.py:234). *)
OneProfilePerLogin ==
    \A p, q \in Issued : (origin[p] # NoLogin /\ origin[p] = origin[q]) => p = q

Renewed(p) == \E f \in Refreshers : refreshing[f] = p /\ refreshing'[f] = NoProfile

(* A profile that is not in the store comes into it by the end of an exchange or of a refresh *)
(* only: a failure or success that arrives after its profile was revoked does not write it    *)
(* back (auth_profiles.py:355, 385).                                                          *)
NoLateReturn ==
    [][restarts' = restarts =>
         \A p \in known' \ known : Renewed(p) \/ (p \in Issued /\ origin[p] = NoLogin /\ origin'[p] # NoLogin)]_vars

(* A persistent failure keeps its profile disabled until the time it set, through the results *)
(* of other runs' calls that began before it, unless a later persistent failure sets another  *)
(* time, the token is renewed or the profile revoked.                                         *)
DisabledStands ==
    [][restarts' = restarts =>
         \A p \in known \cap known' :
            (stats[p].disabledUntil > now /\ stats'[p].disabledUntil # stats[p].disabledUntil) =>
                \/ Renewed(p)
                \/ \E r \in Runs : Calling(r) /\ run[r].id = p /\ stats'[p].disabledUntil > now]_vars

(* A run never makes the same call twice: each one it starts is with a candidate and profile  *)
(* it has not tried, so that a run cannot go round.                                           *)
NeverRepeats ==
    [][\A r \in Runs : (run'[r] # run[r] /\ run'[r].pc = "calling") =>
          [cand |-> run'[r].cand, id |-> run'[r].id] \notin run[r].tried]_vars

(* A run that has started ends, whatever its calls answer. *)
RunsEnd == \A r \in Runs : Calling(r) ~> run[r].pc \in Finished
=============================================================================
