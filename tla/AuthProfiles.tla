---------------------------- MODULE AuthProfiles ----------------------------
(***************************************************************************)
(* The store of auth profiles (services/advanced_fallback/auth_profiles):  *)
(* the credentials of each provider with their usage statistics, kept in   *)
(* one JSON file.  An operation reads a profile out of the store, changes  *)
(* it and writes it back with add_profile, without an await; its callers,  *)
(* the runs of Fallback and the requests of OAuth, hold copies across      *)
(* theirs.                                                                 *)
(*                                                                         *)
(* Times are readings of one clock, and 0 stands for None.                 *)
(***************************************************************************)
EXTENDS Integers, Sequences, FiniteSets

CONSTANTS
    Profiles,    \* the profile ids
    NoProfile,   \* no id
    Providers,
    ProviderOf,  \* a profile's provider
    Priority,    \* get_priority: 0 for oauth, 1 for token, 2 for api_key
    Cooldown,    \* _get_cooldown_ms, by FailoverReason; 0 for None
    Margin,      \* PROBE_MARGIN_MS
    MaxTime,     \* bound on the clock
    MaxFaults    \* bound on the writes that fail

Transient  == {"rate_limit", "overloaded", "timeout", "unknown"}
Persistent == {"auth", "auth_permanent", "billing"}
Reasons == DOMAIN Cooldown

\* A transient cooldown is at most a minute, the probe margin two; a timeout has one.
ASSUME ProfilesAssumption ==
    /\ IsFiniteSet(Profiles) /\ NoProfile \notin Profiles
    /\ ProviderOf \in [Profiles -> Providers]
    /\ Priority \in [Profiles -> 0..2]
    /\ Cooldown \in [Reasons -> Nat]
    /\ Margin \in Nat
    /\ \A e \in Reasons \cap Transient : Cooldown[e] <= Margin
    /\ "timeout" \in Reasons => Cooldown["timeout"] > 0
    /\ MaxTime \in Nat \ {0} /\ MaxFaults \in Nat

VARIABLES
    now,       \* time.time()
    known,     \* the ids in _store.profiles
    stats,     \* their _store.usage_stats
    lastGood,  \* _store.last_good
    disk,      \* what auth_profiles.json holds of the three
    faults     \* the writes that failed so far

storeVars == <<now, known, stats, lastGood, disk, faults>>

-----------------------------------------------------------------------------
NoReason == "none"
Stats == [lastUsed : Nat, cooldownUntil : Nat,
          cooldownReason : Transient \cup {NoReason}, disabledUntil : Nat]
Fresh == [lastUsed |-> 0, cooldownUntil |-> 0, cooldownReason |-> NoReason, disabledUntil |-> 0]

NothingGood == [v \in Providers |-> NoProfile]
Files == [known : SUBSET Profiles, stats : [Profiles -> Stats],
          lastGood : [Providers -> Profiles \cup {NoProfile}]]

\* A file that is missing or that does not parse is loaded as a store without profiles.
EmptyFile == [known |-> {}, stats |-> [p \in Profiles |-> Fresh], lastGood |-> NothingGood]

Init ==
    /\ now = 1 /\ faults = 0
    /\ disk \in {[known |-> K, stats |-> [p \in Profiles |-> Fresh], lastGood |-> NothingGood] :
                   K \in SUBSET Profiles}
    /\ known = disk.known /\ stats = disk.stats /\ lastGood = disk.lastGood

Usable(s) == now >= s.cooldownUntil /\ now >= s.disabledUntil

\* unusable_until, of a profile that is not usable.
UnusableUntil(s) ==
    IF s.cooldownUntil > s.disabledUntil THEN s.cooldownUntil ELSE s.disabledUntil

\* get_ordered_profiles puts p before q: usable ones first, by priority and then the longest
\* unused, the others by the end of their cooldown.
Before(st, p, q) ==
    IF Usable(st[p]) /\ Usable(st[q])
    THEN \/ Priority[p] < Priority[q]
         \/ Priority[p] = Priority[q] /\ st[p].lastUsed < st[q].lastUsed
    ELSE \/ Usable(st[p]) /\ ~Usable(st[q])
         \/ ~Usable(st[p]) /\ ~Usable(st[q]) /\ UnusableUntil(st[p]) < UnusableUntil(st[q])

\* The lists get_ordered_profiles may return: profiles that tie come in the store's order,
\* which is left open.
Orders(P, st) ==
    {q \in [1..Cardinality(P) -> P] :
        \A a, b \in 1..Cardinality(P) : a < b => q[a] # q[b] /\ ~Before(st, q[b], q[a])}

\* mark_profile_failure, of a profile in the store.  Other reasons are only counted.
Failed(s, e, cooldown) ==
    CASE e \in Transient ->
            [lastUsed |-> s.lastUsed, disabledUntil |-> s.disabledUntil, cooldownReason |-> e,
             cooldownUntil |-> IF cooldown = 0 THEN s.cooldownUntil ELSE now + cooldown]
      [] e \in Persistent ->
            [lastUsed |-> s.lastUsed, cooldownUntil |-> 0, cooldownReason |-> NoReason,
             disabledUntil |-> IF cooldown = 0 THEN s.disabledUntil ELSE now + cooldown]
      [] OTHER -> s

\* Mutant of Succeeded: a success clears the cooldowns.
SucceededClears(s) == [Fresh EXCEPT !.lastUsed = now]

\* mark_profile_success leaves the cooldowns to expire.
Succeeded(s) ==
    [lastUsed |-> now, cooldownUntil |-> s.cooldownUntil,
     cooldownReason |-> s.cooldownReason, disabledUntil |-> s.disabledUntil]

\* clear_expired_cooldowns, of one profile.
Cleared(s) ==
    LET over == s.cooldownUntil # 0 /\ now >= s.cooldownUntil
    IN  [lastUsed |-> s.lastUsed,
         cooldownUntil |-> IF over THEN 0 ELSE s.cooldownUntil,
         cooldownReason |-> IF over THEN NoReason ELSE s.cooldownReason,
         disabledUntil |-> IF now >= s.disabledUntil THEN 0 ELSE s.disabledUntil]

ClearedAll(st) == [p \in Profiles |-> IF p \in known THEN Cleared(st[p]) ELSE st[p]]

\* The store becomes known = K, stats = st, last_good = good, and is saved.  A save that fails
\* leaves the old file if it could not open it, and a torn one otherwise; the store in memory
\* goes on.  Of an operation that saves more than once, the last save counts.
Save(K, st, good) ==
    /\ known' = K /\ stats' = st /\ lastGood' = good
    /\ \/ disk' = [known |-> K, stats |-> st, lastGood |-> good] /\ UNCHANGED faults
       \/ faults < MaxFaults /\ faults' = faults + 1 /\ disk' \in {disk, EmptyFile}
    /\ UNCHANGED now

Unsaved == UNCHANGED storeVars

Tick ==
    /\ now < MaxTime
    /\ now' = now + 1
    /\ UNCHANGED <<known, stats, lastGood, disk, faults>>

\* The process starts again: _load.
Load ==
    /\ known' = disk.known /\ stats' = disk.stats /\ lastGood' = disk.lastGood
    /\ UNCHANGED <<now, disk, faults>>
=============================================================================
