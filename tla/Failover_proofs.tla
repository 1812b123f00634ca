-------------------------- MODULE Failover_proofs --------------------------
(***************************************************************************)
(* The theorems about Failover.                                            *)
(*                                                                         *)
(* In Failover the store and the runs are kept apart: an                   *)
(* operation writes statistics that are well typed and in which a timeout  *)
(* has a cooldown close to its end (StoreWritten); a run moves to a state  *)
(* that is Sound, a predicate on that state alone (Moves).                 *)
(***************************************************************************)
EXTENDS Failover, FiniteSetTheorems, SequenceTheorems, TLAPS

\* A profile that timed out is in a cooldown that ends within the probe margin.
Short(st) == \A p \in Profiles :
    st[p].cooldownReason = "timeout" =>
        (st[p].cooldownUntil # 0 /\ st[p].cooldownUntil <= now + Margin)

StoreOK ==
    /\ now \in 1..MaxTime
    /\ known \subseteq Profiles
    /\ stats \in [Profiles -> Stats] /\ Short(stats)
    /\ lastGood \in [Providers -> Profiles \cup {NoProfile}]
    /\ disk \in Files /\ Short(disk.stats)
    /\ faults \in 0..MaxFaults

StoreWritten ==
    \E K \in SUBSET Profiles, st \in [Profiles -> Stats],
       good \in [Providers -> Profiles \cup {NoProfile}] :
        /\ Short(st)
        /\ Save(K, st, good)

At(T, i) == {a \in T : a.cand = i}

Heard(n, i) == i # 1 => At(n.tried, i) # {}

\* What a run's state says about its calls so far.
Sound(n) ==
    /\ n \in RunStates
    /\ n.pc = "ready" => n.tried = {}
    /\ n.pc = "calling" =>
          /\ \A i \in 1..n.cand : Heard(n, i)
          /\ \A a \in n.tried : a.cand <= n.cand
          /\ \A k \in 1..Len(n.queue) : [cand |-> n.cand, id |-> n.queue[k].id] \notin n.tried
          /\ \A k, l \in 1..Len(n.queue) : k # l => n.queue[k].id # n.queue[l].id
          /\ ~n.rotated => \E a : At(n.tried, n.cand) \subseteq {a}
    /\ n.pc = "exhausted" => \A i \in Candidates : Heard(n, i)
    /\ n.pc = "surfaced" => Len(Chain) = 1
    /\ \A i \in Candidates : \E a, b : At(n.tried, i) \subseteq {a, b}

RunsOK == run \in [Runs -> RunStates] /\ \A r \in Runs : Sound(run[r])

Moves(r) ==
    \E n : /\ Sound(n)
           /\ run' = [run EXCEPT ![r] = n]
           /\ n.pc = "calling" => [cand |-> n.cand, id |-> n.id] \notin run[r].tried

-----------------------------------------------------------------------------
(* The operators of the store. *)

LEMMA FreshType == Fresh \in Stats
BY DEF Fresh, Stats, NoReason

(* Recording a failure leaves statistics that are well typed and short. *)
LEMMA FailedType ==
    ASSUME NEW s \in Stats, NEW e \in Reasons, now \in Nat
    PROVE  Failed(s, e, Cooldown[e]) \in Stats
<1>1. Cooldown[e] \in Nat
  BY ProfilesAssumption DEF Reasons
<1>2. CASE e \in Transient
  <2>1. Failed(s, e, Cooldown[e]) =
            [lastUsed |-> s.lastUsed, disabledUntil |-> s.disabledUntil, cooldownReason |-> e,
             cooldownUntil |-> IF Cooldown[e] = 0 THEN s.cooldownUntil ELSE now + Cooldown[e]]
    BY <1>2 DEF Failed, Transient, Persistent
  <2>2. QED
    BY <1>1, <1>2, <2>1 DEF Stats
<1>3. CASE e \notin Transient /\ e \in Persistent
  <2>1. Failed(s, e, Cooldown[e]) =
            [lastUsed |-> s.lastUsed, cooldownUntil |-> 0, cooldownReason |-> NoReason,
             disabledUntil |-> IF Cooldown[e] = 0 THEN s.disabledUntil ELSE now + Cooldown[e]]
    BY <1>3 DEF Failed
  <2>2. QED
    BY <1>1, <2>1 DEF Stats, NoReason
<1>4. CASE e \notin Transient /\ e \notin Persistent
  BY <1>4 DEF Failed
<1>5. QED
  BY <1>2, <1>3, <1>4

LEMMA FailedShort ==
    ASSUME NEW s \in Stats, NEW e \in Reasons, now \in Nat,
           s.cooldownReason = "timeout" => (s.cooldownUntil # 0 /\ s.cooldownUntil <= now + Margin)
    PROVE  Failed(s, e, Cooldown[e]).cooldownReason = "timeout" =>
              (/\ Failed(s, e, Cooldown[e]).cooldownUntil # 0
               /\ Failed(s, e, Cooldown[e]).cooldownUntil <= now + Margin)
<1>1. Cooldown[e] \in Nat /\ Margin \in Nat
  BY ProfilesAssumption DEF Reasons
<1>2. CASE e \in Transient
  <2>1. Failed(s, e, Cooldown[e]) =
            [lastUsed |-> s.lastUsed, disabledUntil |-> s.disabledUntil, cooldownReason |-> e,
             cooldownUntil |-> IF Cooldown[e] = 0 THEN s.cooldownUntil ELSE now + Cooldown[e]]
    BY <1>2 DEF Failed, Transient, Persistent
  <2>2. Cooldown[e] <= Margin /\ (e = "timeout" => Cooldown[e] > 0)
    BY <1>2, ProfilesAssumption DEF Reasons
  <2>3. QED
    BY <1>1, <2>1, <2>2
<1>3. CASE e \notin Transient /\ e \in Persistent
  BY <1>3 DEF Failed, NoReason
<1>4. CASE e \notin Transient /\ e \notin Persistent
  BY <1>4 DEF Failed
<1>5. QED
  BY <1>2, <1>3, <1>4

LEMMA ClearedType ==
    ASSUME NEW s \in Stats
    PROVE  Cleared(s) \in Stats
BY DEF Cleared, Stats, NoReason

LEMMA ClearedShort ==
    ASSUME NEW s \in Stats,
           s.cooldownReason = "timeout" => (s.cooldownUntil # 0 /\ s.cooldownUntil <= now + Margin)
    PROVE  Cleared(s).cooldownReason = "timeout" =>
              (Cleared(s).cooldownUntil # 0 /\ Cleared(s).cooldownUntil <= now + Margin)
BY DEF Cleared, NoReason

(* Clearing the expired cooldowns keeps the statistics well typed and short. *)
LEMMA ClearedAllOK ==
    ASSUME NEW st \in [Profiles -> Stats], Short(st)
    PROVE  ClearedAll(st) \in [Profiles -> Stats] /\ Short(ClearedAll(st))
<1>1. \A p \in Profiles : ClearedAll(st)[p] \in {Cleared(st[p]), st[p]}
  BY DEF ClearedAll
<1>2. \A p \in Profiles : st[p] \in Stats /\ Cleared(st[p]) \in Stats
  BY ClearedType
<1>3. ClearedAll(st) \in [Profiles -> Stats]
  BY <1>2 DEF ClearedAll
<1>4. ASSUME NEW p \in Profiles
      PROVE  ClearedAll(st)[p].cooldownReason = "timeout" =>
              (ClearedAll(st)[p].cooldownUntil # 0 /\ ClearedAll(st)[p].cooldownUntil <= now + Margin)
  <2>1. st[p].cooldownReason = "timeout" => (st[p].cooldownUntil # 0 /\ st[p].cooldownUntil <= now + Margin)
    BY DEF Short
  <2>2. QED
    BY <1>1, <1>2, <2>1, ClearedShort
<1>5. QED
  BY <1>3, <1>4 DEF Short

(* One profile's statistics may be replaced by others that are well typed and short. *)
LEMMA ReplacedOK ==
    ASSUME NEW st \in [Profiles -> Stats], Short(st), NEW p \in Profiles, NEW s \in Stats,
           s.cooldownReason = "timeout" => (s.cooldownUntil # 0 /\ s.cooldownUntil <= now + Margin)
    PROVE  [st EXCEPT ![p] = s] \in [Profiles -> Stats] /\ Short([st EXCEPT ![p] = s])
BY DEF Short

(* Whatever an operation writes, the store stays well typed. *)
LEMMA WrittenOK ==
    ASSUME StoreOK, StoreWritten
    PROVE  StoreOK'
<1>1. PICK K \in SUBSET Profiles, st \in [Profiles -> Stats],
           good \in [Providers -> Profiles \cup {NoProfile}] : Short(st) /\ Save(K, st, good)
  BY DEF StoreWritten
<1>2. now' = now /\ known' = K /\ stats' = st /\ lastGood' = good
  BY <1>1 DEF Save
<1>3. EmptyFile \in Files /\ Short(EmptyFile.stats)
  BY FreshType DEF EmptyFile, Files, Short, NothingGood, Fresh, NoReason
<1>4. [known |-> K, stats |-> st, lastGood |-> good] \in Files
  BY DEF Files
<1>5. disk' \in Files /\ Short(disk'.stats)
  BY <1>1, <1>3, <1>4 DEF Save, StoreOK
<1>6. faults' \in 0..MaxFaults
  BY <1>1, ProfilesAssumption DEF Save, StoreOK
<1>7. Short(stats)' /\ Short(disk.stats)'
  BY <1>1, <1>2, <1>5 DEF Short
<1>8. QED
  BY <1>2, <1>5, <1>6, <1>7 DEF StoreOK

-----------------------------------------------------------------------------
(* The moves of a run. *)

LEMMA OrdersType ==
    ASSUME NEW P \in SUBSET Profiles, NEW st, NEW q \in Orders(P, st)
    PROVE  /\ q \in Seq(P) /\ Len(q) = Cardinality(P)
           /\ \A k, l \in 1..Len(q) : k # l => q[k] # q[l]
<1>1. IsFiniteSet(P) /\ Cardinality(P) \in Nat
  BY FS_Subset, FS_CardinalityType, ProfilesAssumption
<1>2. q \in [1..Cardinality(P) -> P]
  BY DEF Orders
<1>3. q \in Seq(P)
  BY <1>1, <1>2, SeqDef
<1>4. Len(q) = Cardinality(P)
  BY <1>1, <1>2, <1>3, LenProperties
<1>5. \A a, b \in 1..Cardinality(P) : a < b => q[a] # q[b]
  BY DEF Orders
<1>6. \A k, l \in 1..Cardinality(P) : k # l => (k < l \/ l < k)
  BY <1>1
<1>7. \A k, l \in 1..Cardinality(P) : k # l => q[k] # q[l]
  BY <1>5, <1>6, Zenon
<1>8. QED
  BY <1>3, <1>4, <1>7, Zenon

LEMMA CopiedType ==
    ASSUME NEW P \in SUBSET Profiles, NEW st \in [Profiles -> Stats], NEW q \in Orders(P, st)
    PROVE  /\ Copied(q, st) \in Seq(Copies) /\ Len(Copied(q, st)) = Len(q)
           /\ \A k \in 1..Len(q) : Copied(q, st)[k] = [id |-> q[k], stats |-> st[q[k]]]
           /\ \A k, l \in 1..Len(q) : k # l => Copied(q, st)[k].id # Copied(q, st)[l].id
<1>1. q \in Seq(P) /\ \A k, l \in 1..Len(q) : k # l => q[k] # q[l]
  BY OrdersType
<1>2. Len(q) \in Nat /\ \A k \in 1..Len(q) : q[k] \in Profiles
  BY <1>1, LenProperties, ElementOfSeq
<1>3. \A k \in 1..Len(q) : Copied(q, st)[k] = [id |-> q[k], stats |-> st[q[k]]]
  BY DEF Copied
<1>4. Copied(q, st) \in [1..Len(q) -> Copies]
  BY <1>2 DEF Copied, Copies
<1>5. Copied(q, st) \in Seq(Copies)
  BY <1>2, <1>4, SeqDef
<1>6. Len(Copied(q, st)) = Len(q)
  BY <1>2, <1>4, <1>5, LenProperties
<1>7. \A k, l \in 1..Len(q) : k # l => Copied(q, st)[k].id # Copied(q, st)[l].id
  <2>1. SUFFICES ASSUME NEW k \in 1..Len(q), NEW l \in 1..Len(q), k # l
                 PROVE  Copied(q, st)[k].id # Copied(q, st)[l].id
    OBVIOUS
  <2>2. /\ Copied(q, st)[k] = [id |-> q[k], stats |-> st[q[k]]]
        /\ Copied(q, st)[l] = [id |-> q[l], stats |-> st[q[l]]]
        /\ q[k] # q[l]
    BY <1>1, <1>3, <2>1, Zenon
  <2>3. QED
    BY <2>2
<1>8. QED
  BY <1>3, <1>5, <1>6, <1>7, Zenon

(* Only the primary is passed over: a fallback candidate leads to a call, whatever cooldowns  *)
(* its profiles have.                                                                         *)
LEMMA FallbackServes ==
    ASSUME now \in Nat, known \subseteq Profiles, NEW st \in [Profiles -> Stats], Short(st),
           NEW i \in Candidates, i # 1
    PROVE  Serves(i, st)
<1>1. SUFFICES ASSUME NEW p \in Offered(i) PROVE Willing(st[p], i)
  BY DEF Serves
<1>2. p \in Profiles /\ st[p] \in Stats
  BY <1>1 DEF Offered
<1>3. Margin \in Nat
  BY ProfilesAssumption
<1>4. CASE st[p].cooldownReason = "timeout"
  BY <1>2, <1>3, <1>4 DEF Short, Willing, Stats
<1>5. CASE st[p].cooldownReason # "timeout"
  BY <1>2, <1>5 DEF Willing, Stats, Transient
<1>6. QED
  BY <1>4, <1>5

\* What a list of copies and the calls so far must satisfy for candidate i to be tried from it.
Queued(r, i, q, rotated) ==
    /\ q \in Seq(Copies)
    /\ \A k \in 1..Len(q) : [cand |-> i, id |-> q[k].id] \notin run[r].tried
    /\ \A k, l \in 1..Len(q) : k # l => q[k].id # q[l].id
    /\ \A a \in run[r].tried : a.cand <= i
    /\ \A j \in 1..i : j # i => Heard(run[r], j)
    /\ IF rotated THEN \E a : At(run[r].tried, i) \subseteq {a} ELSE At(run[r].tried, i) = {}

(* A call with a profile that was not tried is a sound move. *)
LEMMA CallMoves ==
    ASSUME NEW r \in Runs, Sound(run[r]), NEW i \in Candidates,
           NEW id \in Profiles \cup {NoProfile}, NEW q, NEW rotated \in BOOLEAN,
           Queued(r, i, q, rotated), [cand |-> i, id |-> id] \notin run[r].tried,
           \A k \in 1..Len(q) : q[k].id # id,
           Call(r, i, id, q, rotated)
    PROVE  Moves(r)
<1> DEFINE c == [cand |-> i, id |-> id]
           T == run[r].tried \cup {c}
           n == [pc |-> "calling", cand |-> i, id |-> id, queue |-> q, rotated |-> rotated,
                 tried |-> T]
<1>1. run' = [run EXCEPT ![r] = n]
  BY DEF Call
<1>2. c \in Attempts /\ i \in Nat
  BY DEF Attempts, Candidates
<1>3. n \in RunStates
  BY <1>2 DEF RunStates, Sound, Queued
<1>4. \A j \in 1..i : Heard(n, j)
  BY DEF Heard, At, Queued
<1>5. \A a \in T : a.cand <= i
  BY <1>2 DEF Queued
<1>6. \A k \in 1..Len(q) : [cand |-> i, id |-> q[k].id] \notin T
  BY DEF Queued
<1>7. \A j \in Candidates : j # i => At(T, j) = At(run[r].tried, j)
  BY DEF At
<1>8. At(T, i) = At(run[r].tried, i) \cup {c}
  BY DEF At
<1>9. ~rotated => \E a : At(T, i) \subseteq {a}
  BY <1>8 DEF Queued
<1>10. \E a, b : At(T, i) \subseteq {a, b}
  <2>1. \E a : At(run[r].tried, i) \subseteq {a}
    BY DEF Queued
  <2>2. PICK a : At(run[r].tried, i) \subseteq {a}
    BY <2>1
  <2>3. At(T, i) \subseteq {a, c}
    BY <1>8, <2>2
  <2>4. QED
    BY <2>3, Zenon
<1>11. \A j \in Candidates : \E a, b : At(T, j) \subseteq {a, b}
  BY <1>7, <1>10 DEF Sound
<1>12. \A k, l \in 1..Len(q) : k # l => q[k].id # q[l].id
  BY DEF Queued
<1>13. Sound(n)
  BY <1>3, <1>4, <1>5, <1>6, <1>9, <1>11, <1>12, ZenonT(30) DEF Sound
<1>14. [cand |-> n.cand, id |-> n.id] = c /\ c \notin run[r].tried
  OBVIOUS
<1>15. QED
  <2> HIDE DEF n, c
  <2> QED
    BY <1>1, <1>13, <1>14, Zenon DEF Moves

(* A run that ends makes no further call. *)
LEMMA EndMoves ==
    ASSUME NEW r \in Runs, run \in [Runs -> RunStates], Sound(run[r]), NEW pc \in Finished, End(r, pc),
           pc = "exhausted" => \A i \in Candidates : Heard(run[r], i),
           pc = "surfaced" => Len(Chain) = 1
    PROVE  Moves(r)
<1>1. run' = [run EXCEPT ![r] = Ended(r, pc)]
  BY DEF End
<1>2. run[r] \in RunStates
  OBVIOUS
<1>3. Ended(r, pc) \in RunStates
  BY <1>2, EmptySeq DEF Ended, RunStates
<1>4. Ended(r, pc).pc = pc /\ Ended(r, pc).tried = run[r].tried
  BY DEF Ended
<1>5. pc # "calling" /\ pc # "ready"
  BY DEF Finished
<1>6. Sound(Ended(r, pc))
  BY <1>3, <1>4, <1>5 DEF Sound, Heard
<1>7. QED
  BY <1>1, <1>4, <1>5, <1>6 DEF Moves

LEMMA RestType ==
    ASSUME NEW S, NEW q \in Seq(S), NEW k \in 1..Len(q)
    PROVE  /\ SubSeq(q, k + 1, Len(q)) \in Seq(S)
           /\ \A l \in 1..Len(SubSeq(q, k + 1, Len(q))) :
                  k + l \in 1..Len(q) /\ k + l # k /\ SubSeq(q, k + 1, Len(q))[l] = q[k + l]
<1>1. Len(q) \in Nat
  BY LenProperties
<1> DEFINE m == k + 1
           n == Len(q)
           rest == SubSeq(q, m, n)
<1>2. m \in Int /\ n \in Int /\ k \in Int /\ m = k + 1 /\ 1 <= k /\ k <= n
  BY <1>1
<1>3. \A l \in m..n : q[l] \in S
  <2>1. m..n \subseteq 1..n
    BY <1>2
  <2>2. QED
    BY <2>1, ElementOfSeq
<1> HIDE DEF m, n
<1>4. /\ rest \in Seq(S)
      /\ Len(rest) = IF m <= n THEN n - m + 1 ELSE 0
      /\ \A l \in 1..(n - m + 1) : rest[l] = q[m + l - 1]
  BY <1>2, <1>3, SubSeqProperties
<1> HIDE DEF rest
<1>5. ASSUME NEW l \in 1..Len(rest)
      PROVE  k + l \in 1..n /\ k + l # k /\ rest[l] = q[k + l]
  <2>1. l \in 1..(n - m + 1) /\ l \in Int
    BY <1>2, <1>4
  <2>2. rest[l] = q[m + l - 1]
    BY <1>4, <2>1
  <2>3. m + l - 1 = k + l /\ k + l \in 1..n /\ k + l # k
    BY <1>2, <2>1
  <2>4. QED
    BY <2>2, <2>3
<1>6. rest = SubSeq(q, k + 1, Len(q)) /\ n = Len(q)
  BY DEF rest, m, n
<1>7. QED
  BY <1>4, <1>5, <1>6, Zenon

(* Trying the first willing copy of a list is a sound move, and leaves a list of untried ones. *)
LEMMA CallFirstMoves ==
    ASSUME NEW r \in Runs, Sound(run[r]), NEW i \in Candidates, NEW q, NEW rotated \in BOOLEAN,
           Queued(r, i, q, rotated), CallFirst(r, i, q, rotated)
    PROVE  Moves(r)
<1>1. q \in Seq(Copies) /\ Len(q) \in Nat /\ DOMAIN q = 1..Len(q)
  BY LenProperties DEF Queued
<1>2. PICK k \in 1..Len(q) : Call(r, i, q[k].id, SubSeq(q, k + 1, Len(q)), rotated)
  BY <1>1 DEF CallFirst
<1> DEFINE rest == SubSeq(q, k + 1, Len(q))
<1>3. k \in Int
  BY <1>1
<1>4. rest \in Seq(Copies) /\ Len(rest) \in Nat
  BY <1>1, RestType, LenProperties
<1>5. \A l \in 1..Len(rest) : k + l \in 1..Len(q) /\ k + l # k /\ rest[l] = q[k + l]
  BY <1>1, RestType
<1> HIDE DEF rest
<1>6. \A l \in 1..Len(rest) : [cand |-> i, id |-> rest[l].id] \notin run[r].tried /\ rest[l].id # q[k].id
  BY <1>5 DEF Queued
<1>7. \A l, m \in 1..Len(rest) : l # m => rest[l].id # rest[m].id
  <2>1. SUFFICES ASSUME NEW l \in 1..Len(rest), NEW m \in 1..Len(rest), l # m
                 PROVE  rest[l].id # rest[m].id
    OBVIOUS
  <2>2. k + l # k + m
    BY <1>3, <1>4, <2>1
  <2>3. q[k + l].id # q[k + m].id
    BY <1>5, <2>2, Zenon DEF Queued
  <2>4. QED
    BY <1>5, <2>3
<1>8. Queued(r, i, rest, rotated)
  BY <1>4, <1>6, <1>7 DEF Queued
<1>9. q[k].id \in Profiles /\ [cand |-> i, id |-> q[k].id] \notin run[r].tried
  <2>1. q[k] \in Copies
    BY <1>1, ElementOfSeq
  <2>2. QED
    BY <2>1 DEF Copies, Queued
<1>10. Call(r, i, q[k].id, rest, rotated)
  BY <1>2 DEF rest
<1>11. QED
  BY <1>6, <1>8, <1>9, <1>10, CallMoves

(* So is the turn of a candidate that no call was made for yet. *)
LEMMA TurnMoves ==
    ASSUME StoreOK, RunsOK, NEW r \in Runs, NEW i \in 1..(Len(Chain) + 1),
           NEW st \in [Profiles -> Stats], Short(st),
           \A j \in 1..(i - 1) : Heard(run[r], j),
           \A a \in run[r].tried : a.cand < i,
           Turn(r, i, st)
    PROVE  Moves(r)
<1> DEFINE clean == IF i \in Candidates THEN ClearedAll(st) ELSE st
<1>1. clean \in [Profiles -> Stats] /\ Short(clean)
  BY ClearedAllOK
<1>2. Len(Chain) \in Nat
  BY ChainAssumption, LenProperties
<1>3. Advance(r, i, clean)
  BY DEF Turn
<1> HIDE DEF clean
<1>4. run[r] \in RunStates /\ Sound(run[r]) /\ run \in [Runs -> RunStates]
  BY DEF RunsOK
<1>5. now \in Nat /\ known \subseteq Profiles
  BY DEF StoreOK
<1>6. \A j \in Candidates : j >= i /\ ~Serves(j, clean) => j = 1
  BY <1>1, <1>5, FallbackServes
<1>7. CASE (\A j \in i..Len(Chain) : ~Serves(j, clean)) /\ End(r, "exhausted")
  <2>1. \A j \in Candidates : Heard(run[r], j)
    <3>1. SUFFICES ASSUME NEW j \in Candidates, j # 1 PROVE Heard(run[r], j)
      BY DEF Heard
    <3>2. j \in Nat /\ j <= Len(Chain) /\ i \in Nat /\ 1 <= j
      BY <1>2 DEF Candidates
    <3>3. ~(j >= i)
      BY <1>6, <1>7, <3>1, <3>2
    <3>4. QED
      BY <1>2, <3>2, <3>3
  <2>2. QED
    BY <1>4, <1>7, <2>1, EndMoves DEF Finished
<1>8. CASE \E j \in i..Len(Chain) :
              /\ Serves(j, clean)
              /\ \A l \in i..(j - 1) : ~Serves(l, clean)
              /\ \/ Offered(j) = {} /\ Call(r, j, NoProfile, <<>>, FALSE)
                 \/ \E q \in Orders(Offered(j), clean) : CallFirst(r, j, Copied(q, clean), FALSE)
  <2>1. PICK j \in i..Len(Chain) :
              /\ \A l \in i..(j - 1) : ~Serves(l, clean)
              /\ \/ Offered(j) = {} /\ Call(r, j, NoProfile, <<>>, FALSE)
                 \/ \E q \in Orders(Offered(j), clean) : CallFirst(r, j, Copied(q, clean), FALSE)
    BY <1>8
  <2>2. j \in Candidates /\ j \in Nat /\ i \in Nat /\ i <= j
    BY <1>2 DEF Candidates
  <2>3. \A a \in run[r].tried : a.cand \in Nat /\ a.cand < j
    <3>1. SUFFICES ASSUME NEW a \in run[r].tried PROVE a.cand \in Nat /\ a.cand < j
      OBVIOUS
    <3>2. a.cand \in Nat
      BY <1>4 DEF RunStates, Attempts, Candidates
    <3>3. a.cand < i
      OBVIOUS
    <3>4. QED
      BY <2>2, <3>2, <3>3
  <2>4. At(run[r].tried, j) = {}
    BY <2>2, <2>3 DEF At
  <2>5. \A l \in 1..j : l # j => Heard(run[r], l)
    <3>1. SUFFICES ASSUME NEW l \in 1..j, l # j, l # 1 PROVE Heard(run[r], l)
      BY DEF Heard
    <3>2. l \in Candidates
      BY <1>2, <2>2 DEF Candidates
    <3>3. CASE l >= i
      BY <1>6, <2>1, <2>2, <3>1, <3>2, <3>3
    <3>4. CASE ~(l >= i)
      BY <2>2, <3>4
    <3>5. QED
      BY <3>3, <3>4
  <2>6. \A id : [cand |-> j, id |-> id] \notin run[r].tried
    BY <2>2, <2>3
  <2>7. \A a \in run[r].tried : a.cand <= j
    BY <2>2, <2>3
  <2>8. CASE Offered(j) = {} /\ Call(r, j, NoProfile, <<>>, FALSE)
    <3>1. <<>> \in Seq(Copies) /\ Len(<<>>) = 0
      BY EmptySeq
    <3>2. Queued(r, j, <<>>, FALSE)
      BY <2>4, <2>5, <2>7, <3>1 DEF Queued
    <3>3. \A k \in 1..Len(<<>>) : <<>>[k].id # NoProfile
      BY <3>1
    <3>4. QED
      BY <1>4, <2>2, <2>6, <2>8, <3>2, <3>3, CallMoves
  <2>9. CASE \E q \in Orders(Offered(j), clean) : CallFirst(r, j, Copied(q, clean), FALSE)
    <3>1. PICK q \in Orders(Offered(j), clean) : CallFirst(r, j, Copied(q, clean), FALSE)
      BY <2>9
    <3>2. Offered(j) \in SUBSET Profiles
      BY <1>5 DEF Offered
    <3>3. /\ Copied(q, clean) \in Seq(Copies) /\ Len(Copied(q, clean)) = Len(q)
          /\ \A k, l \in 1..Len(q) : k # l => Copied(q, clean)[k].id # Copied(q, clean)[l].id
      BY <1>1, <3>2, CopiedType
    <3>4. Queued(r, j, Copied(q, clean), FALSE)
      BY <2>4, <2>5, <2>6, <2>7, <3>3 DEF Queued
    <3>5. QED
      BY <1>4, <2>2, <3>1, <3>4, CallFirstMoves
  <2>10. QED
    BY <2>1, <2>8, <2>9
<1>9. QED
  BY <1>3, <1>7, <1>8 DEF Advance

-----------------------------------------------------------------------------
(* The actions. *)

LEMMA TurnWrites ==
    ASSUME StoreOK, NEW r, NEW i, NEW st \in [Profiles -> Stats], Short(st), Turn(r, i, st)
    PROVE  StoreWritten \/ Unsaved
<1> DEFINE clean == IF i \in Candidates THEN ClearedAll(st) ELSE st
<1>1. clean \in [Profiles -> Stats] /\ Short(clean)
  BY ClearedAllOK
<1>2. Save(known, clean, lastGood) \/ Unsaved
  BY DEF Turn
<1> HIDE DEF clean
<1>3. QED
  BY <1>1, <1>2 DEF StoreWritten, StoreOK

LEMMA MarkedOK ==
    ASSUME StoreOK, NEW r, NEW e \in Reasons
    PROVE  Marked(r, e) \in [Profiles -> Stats] /\ Short(Marked(r, e))
<1> DEFINE p == run[r].id
           s == Failed(stats[p], e, Cooldown[e])
<1>1. stats \in [Profiles -> Stats] /\ Short(stats) /\ now \in Nat /\ known \subseteq Profiles
  BY DEF StoreOK
<1>2. CASE p \notin known
  BY <1>1, <1>2 DEF Marked
<1>3. CASE p \in known
  <2>1. p \in Profiles /\ stats[p] \in Stats
    BY <1>1, <1>3
  <2>2. stats[p].cooldownReason = "timeout" =>
            (stats[p].cooldownUntil # 0 /\ stats[p].cooldownUntil <= now + Margin)
    BY <1>1, <2>1 DEF Short
  <2>3. s \in Stats /\ (s.cooldownReason = "timeout" => (s.cooldownUntil # 0 /\ s.cooldownUntil <= now + Margin))
    BY <1>1, <2>1, <2>2, FailedType, FailedShort
  <2>4. Marked(r, e) = [stats EXCEPT ![p] = s]
    BY <1>3 DEF Marked
  <2> HIDE DEF p, s
  <2>5. [stats EXCEPT ![p] = s] \in [Profiles -> Stats] /\ Short([stats EXCEPT ![p] = s])
    BY <1>1, <2>1, <2>3, ReplacedOK
  <2>6. QED
    BY <2>4, <2>5, Zenon
<1>4. QED
  BY <1>2, <1>3

LEMMA MarkedWrites ==
    ASSUME StoreOK, NEW r, NEW e \in Reasons,
           IF run[r].id \in known THEN Save(known, Marked(r, e), lastGood) ELSE Unsaved
    PROVE  StoreWritten \/ Unsaved
BY MarkedOK DEF StoreWritten, StoreOK

LEMMA SucceedWrites ==
    ASSUME StoreOK, RunsOK, NEW r \in Runs, Succeed(r)
    PROVE  StoreWritten \/ Unsaved
<1> DEFINE p == run[r].id
           s == Succeeded(stats[p])
           good == [lastGood EXCEPT ![ProviderOf[p]] = p]
<1>1. SUFFICES ASSUME p \in known PROVE StoreWritten
  BY DEF Succeed
<1>2. stats \in [Profiles -> Stats] /\ Short(stats) /\ now \in Nat /\ known \subseteq Profiles
      /\ lastGood \in [Providers -> Profiles \cup {NoProfile}]
  BY DEF StoreOK
<1>3. p \in Profiles /\ stats[p] \in Stats
  BY <1>1, <1>2
<1>4. s \in Stats
  BY <1>2, <1>3 DEF Succeeded, Stats
<1>5. s.cooldownReason = "timeout" => (s.cooldownUntil # 0 /\ s.cooldownUntil <= now + Margin)
  BY <1>2, <1>3 DEF Succeeded, Short
<1>6. good \in [Providers -> Profiles \cup {NoProfile}]
  BY <1>2, <1>3
<1>7. Save(known, [stats EXCEPT ![p] = s], good)
  BY <1>1 DEF Succeed
<1> HIDE DEF p, s, good
<1>8. [stats EXCEPT ![p] = s] \in [Profiles -> Stats] /\ Short([stats EXCEPT ![p] = s])
  BY <1>2, <1>3, <1>4, <1>5, ReplacedOK
<1>9. QED
  BY <1>2, <1>6, <1>7, <1>8 DEF StoreWritten

(* A run whose call failed may turn to the next candidate. *)
LEMMA NextTurnMoves ==
    ASSUME StoreOK, RunsOK, NEW r \in Runs, NEW e \in Reasons, Calling(r),
           Turn(r, run[r].cand + 1, Marked(r, e))
    PROVE  Moves(r) /\ (StoreWritten \/ Unsaved)
<1> DEFINE i == run[r].cand
<1>1. Sound(run[r]) /\ run[r] \in RunStates
  BY DEF RunsOK
<1>2. Len(Chain) \in Nat
  BY ChainAssumption, LenProperties
<1>3. i \in 1..Len(Chain)
  BY <1>1 DEF RunStates, Candidates
<1>4. i + 1 \in 1..(Len(Chain) + 1) /\ (i + 1) - 1 = i
  BY <1>2, <1>3
<1>5. \A j \in 1..i : Heard(run[r], j)
  BY <1>1 DEF Sound, Calling
<1>6. \A a \in run[r].tried : a.cand <= i
  BY <1>1 DEF Sound, Calling
<1>7. ASSUME NEW a \in run[r].tried
      PROVE  a.cand < i + 1
  <2>1. a.cand \in 1..Len(Chain)
    BY <1>1 DEF RunStates, Attempts, Candidates
  <2>2. QED
    BY <1>2, <1>3, <1>6, <2>1
<1>8. Marked(r, e) \in [Profiles -> Stats] /\ Short(Marked(r, e))
  BY MarkedOK
<1>9. Turn(r, i + 1, Marked(r, e))
  OBVIOUS
<1> HIDE DEF i
<1>10. QED
  BY <1>4, <1>5, <1>7, <1>8, <1>9, TurnMoves, TurnWrites

LEMMA RunActions ==
    ASSUME StoreOK, RunsOK, NEW r \in Runs, Begin(r) \/ Answer(r) \/ Cancel(r)
    PROVE  Moves(r) /\ (StoreWritten \/ Unsaved)
<1>1. Sound(run[r]) /\ run[r] \in RunStates /\ run \in [Runs -> RunStates]
  BY DEF RunsOK
<1>2. CASE Begin(r)
  <2>1. run[r].tried = {} /\ Turn(r, 1, stats)
    BY <1>1, <1>2 DEF Sound, Begin
  <2>2. 1 \in 1..(Len(Chain) + 1)
    BY ChainAssumption, LenProperties
  <2>3. stats \in [Profiles -> Stats] /\ Short(stats)
    BY DEF StoreOK
  <2>4. QED
    BY <2>1, <2>2, <2>3, TurnMoves, TurnWrites
<1>3. CASE Succeed(r)
  <2>1. End(r, "succeeded")
    BY <1>3 DEF Succeed
  <2>2. Moves(r)
    BY <1>1, <2>1, EndMoves DEF Finished
  <2>3. QED
    BY <1>3, <2>2, SucceedWrites
<1>4. CASE Overflow(r) \/ Cancel(r)
  <2>1. (End(r, "overflow") \/ End(r, "cancelled")) /\ Unsaved
    BY <1>4 DEF Overflow, Cancel
  <2>2. QED
    BY <1>1, <2>1, EndMoves DEF Finished
<1>5. ASSUME NEW e \in Reasons, FallBack(r, e)
      PROVE  Moves(r) /\ (StoreWritten \/ Unsaved)
  BY <1>5, NextTurnMoves DEF FallBack
<1>6. ASSUME NEW e \in Reasons, Surface(r, e)
      PROVE  Moves(r) /\ (StoreWritten \/ Unsaved)
  <2>1. End(r, "surfaced") /\ Len(Chain) = 1
    BY <1>6 DEF Surface
  <2>2. Moves(r)
    BY <1>1, <2>1, EndMoves DEF Finished
  <2>3. QED
    BY <1>6, <2>2, MarkedWrites DEF Surface
<1>7. ASSUME NEW e \in Reasons, Rotate(r, e)
      PROVE  Moves(r) /\ (StoreWritten \/ Unsaved)
  <2> DEFINE i == run[r].cand
             q == run[r].queue
  <2>1. Calling(r) /\ ~run[r].rotated
    BY <1>7 DEF Rotate
  <2>2. CASE \E k \in DOMAIN q : Willing(q[k].stats, i)
    <3>1. CallFirst(r, i, q, TRUE)
      BY <1>7, <2>2 DEF Rotate
    <3>2. i \in Candidates /\ q \in Seq(Copies)
      BY <1>1 DEF RunStates
    <3>3. Queued(r, i, q, TRUE)
      BY <1>1, <2>1, <3>2 DEF Queued, Sound, Calling
    <3> HIDE DEF i, q
    <3>4. Moves(r)
      BY <1>1, <3>1, <3>2, <3>3, CallFirstMoves
    <3>5. IF run[r].id \in known THEN Save(known, Marked(r, e), lastGood) ELSE Unsaved
      BY <1>7, <2>2 DEF Rotate, i, q
    <3>6. QED
      BY <3>4, <3>5, MarkedWrites
  <2>3. CASE ~ \E k \in DOMAIN q : Willing(q[k].stats, i)
    BY <1>7, <2>1, <2>3, NextTurnMoves DEF Rotate
  <2>4. QED
    BY <2>2, <2>3
<1>8. QED
  BY <1>2, <1>3, <1>4, <1>5, <1>6, <1>7 DEF Answer

\* The requests of OAuth are well typed, an id was drawn for one authorization at most, and
\* one whose exchange is under way or to come has given none.
OAuthOK ==
    /\ opened \in [Logins -> 0..MaxTime]
    /\ pending \subseteq Logins
    /\ exchanging \in [Callbacks -> Logins \cup {NoLogin}]
    /\ refreshing \in [Refreshers -> Profiles \cup {NoProfile}]
    /\ origin \in [Issued -> Logins \cup {NoLogin}]

OpenLogins == {s \in Logins : opened[s] = 0 \/ s \in pending}

OriginsOK ==
    /\ \A s \in Logins : opened[s] = 0 => s \notin pending
    /\ \A c \in Callbacks : exchanging[c] # NoLogin => exchanging[c] \notin OpenLogins
    /\ \A c, d \in Callbacks : (exchanging[c] # NoLogin /\ exchanging[c] = exchanging[d]) => c = d
    /\ \A p \in Issued : origin[p] # NoLogin =>
          (origin[p] \notin OpenLogins /\ \A c \in Callbacks : exchanging[c] # origin[p])
    /\ OneProfilePerLogin

\* The last good profiles of a store with the profiles K; LastGoodKnown says it of the store.
GoodIn(K, good) ==
    \A v \in Providers : good[v] # NoProfile => (good[v] \in K /\ ProviderOf[good[v]] = v)

Inv ==
    /\ StoreOK /\ RunsOK /\ OAuthOK /\ OriginsOK
    /\ GoodIn(known, lastGood) /\ GoodIn(disk.known, disk.lastGood)
    /\ restarts \in 0..MaxRestarts

(* What the requests of OAuth write is well typed. *)
LEMMA OAuthWrites ==
    ASSUME StoreOK, OAuthOK, NextOAuth
    PROVE  StoreWritten \/ Unsaved
<1>1. /\ stats \in [Profiles -> Stats] /\ Short(stats) /\ now \in Nat /\ known \subseteq Profiles
      /\ lastGood \in [Providers -> Profiles \cup {NoProfile}]
  BY DEF StoreOK
<1>2. ASSUME NEW p \in Profiles
      PROVE  [stats EXCEPT ![p] = Fresh] \in [Profiles -> Stats] /\ Short([stats EXCEPT ![p] = Fresh])
  <2>1. Fresh.cooldownReason # "timeout"
    BY DEF Fresh, NoReason
  <2>2. QED
    BY <1>1, <2>1, FreshType, ReplacedOK
<1>3. ASSUME NEW c \in Callbacks, NEW p \in Issued, Exchanged(c, p)
      PROVE  StoreWritten
  <2>1. p \in Profiles
    BY LoginsAssumption
  <2>2. QED
    BY <1>1, <1>2, <1>3, <2>1 DEF Exchanged, StoreWritten
<1>4. ASSUME NEW f \in Refreshers, Refreshed(f)
      PROVE  StoreWritten
  <2>1. refreshing[f] \in Profiles
    BY <1>4 DEF OAuthOK, Refreshed
  <2>2. QED
    BY <1>1, <1>2, <1>4, <2>1 DEF Refreshed, StoreWritten
<1>5. ASSUME NEW f \in Refreshers, RefreshRefused(f)
      PROVE  StoreWritten \/ Unsaved
  <2> DEFINE p == refreshing[f]
             s == Failed(stats[p], "auth", 0)
  <2>1. SUFFICES ASSUME p \in known PROVE StoreWritten
    BY <1>5 DEF RefreshRefused
  <2>2. p \in Profiles /\ stats[p] \in Stats
    BY <1>1, <2>1
  <2>3. s = [lastUsed |-> stats[p].lastUsed, cooldownUntil |-> 0, cooldownReason |-> NoReason,
             disabledUntil |-> stats[p].disabledUntil]
    BY DEF Failed, Transient, Persistent
  <2>4. s \in Stats /\ s.cooldownReason # "timeout"
    BY <2>2, <2>3 DEF Stats, NoReason
  <2>5. Save(known, [stats EXCEPT ![p] = s], lastGood)
    BY <1>5, <2>1 DEF RefreshRefused
  <2> HIDE DEF p, s
  <2>6. [stats EXCEPT ![p] = s] \in [Profiles -> Stats] /\ Short([stats EXCEPT ![p] = s])
    BY <1>1, <2>2, <2>4, ReplacedOK
  <2>7. QED
    BY <1>1, <2>5, <2>6 DEF StoreWritten
<1>6. ASSUME NEW p \in Profiles, Revoke(p)
      PROVE  StoreWritten
  <2>1. [v \in Providers |-> IF lastGood[v] = p THEN NoProfile ELSE lastGood[v]]
            \in [Providers -> Profiles \cup {NoProfile}]
    BY <1>1
  <2>2. known \ {p} \in SUBSET Profiles
    BY <1>1
  <2>3. QED
    BY <1>2, <1>6, <2>1, <2>2 DEF Revoke, StoreWritten
<1>7. QED
  BY <1>3, <1>4, <1>5, <1>6 DEF NextOAuth, Authorize, Callback, ExchangeFails, Refresh, RefreshFails

LEMMA OAuthType ==
    ASSUME StoreOK, OAuthOK, NextOAuth
    PROVE  OAuthOK'
<1>1. now \in 0..MaxTime
  BY ProfilesAssumption DEF StoreOK
<1>2. ASSUME NEW x \in Logins, Authorize(x) PROVE OAuthOK'
  BY <1>1, <1>2 DEF OAuthOK, Authorize
<1>3. ASSUME NEW c \in Callbacks, NEW x \in Logins, Callback(c, x) PROVE OAuthOK'
  BY <1>3 DEF OAuthOK, Callback
<1>4. ASSUME NEW c \in Callbacks, NEW p \in Issued, Exchanged(c, p) PROVE OAuthOK'
  BY <1>4 DEF OAuthOK, Exchanged
<1>5. ASSUME NEW c \in Callbacks, ExchangeFails(c) PROVE OAuthOK'
  BY <1>5 DEF OAuthOK, ExchangeFails
<1>6. ASSUME NEW f \in Refreshers, NEW p \in Profiles, Refresh(f, p) PROVE OAuthOK'
  BY <1>6 DEF OAuthOK, Refresh
<1>7. ASSUME NEW f \in Refreshers, Refreshed(f) \/ RefreshRefused(f) \/ RefreshFails(f) PROVE OAuthOK'
  BY <1>7 DEF OAuthOK, Refreshed, RefreshRefused, RefreshFails
<1>8. ASSUME NEW p \in Profiles, Revoke(p) PROVE OAuthOK'
  BY <1>8 DEF OAuthOK, Revoke, oauthVars
<1>9. QED
  BY <1>2, <1>3, <1>4, <1>5, <1>6, <1>7, <1>8 DEF NextOAuth

(* An authorization stays with one callback, and then with one id. *)
LEMMA OriginsStep ==
    ASSUME StoreOK, OAuthOK, OriginsOK, NextOAuth
    PROVE  OriginsOK'
<1> USE LoginsAssumption
<1>1. ASSUME NEW x \in Logins, Authorize(x) PROVE OriginsOK'
  <2>1. now # 0
    BY DEF StoreOK
  <2>2. \A y \in Logins : (opened'[y] = 0 => opened[y] = 0 /\ y # x) /\ (y \in pending' <=> (y \in pending \/ y = x))
    BY <1>1, <2>1 DEF Authorize, OAuthOK
  <2>3. OpenLogins' \subseteq OpenLogins
    BY <1>1, <2>2 DEF OpenLogins, Authorize
  <2>4. UNCHANGED <<exchanging, origin>>
    BY <1>1 DEF Authorize
  <2>5. QED
    BY <2>2, <2>3, <2>4 DEF OriginsOK, OAuthOK, OneProfilePerLogin
<1>2. ASSUME NEW c \in Callbacks, NEW x \in Logins, Callback(c, x) PROVE OriginsOK'
  <2>1. x \in OpenLogins /\ x # NoLogin /\ opened[x] # 0 /\ opened' = opened /\ origin' = origin /\ pending' = pending \ {x}
    BY <1>2 DEF Callback, OpenLogins, OriginsOK
  <2>2. x \notin OpenLogins' /\ OpenLogins' \subseteq OpenLogins
    BY <2>1 DEF OpenLogins
  <2>3. \A d \in Callbacks : exchanging'[d] = exchanging[d] \/ (d = c /\ exchanging'[d] = x)
    BY <1>2 DEF Callback, OAuthOK
  <2>4. \A d \in Callbacks : exchanging[d] # x
    BY <2>1 DEF OriginsOK
  <2>5. \A p \in Issued : origin[p] # x
    BY <2>1 DEF OriginsOK
  <2>6. \A d \in Callbacks : exchanging'[d] # NoLogin => exchanging'[d] \notin OpenLogins'
    BY <2>2, <2>3 DEF OriginsOK, OAuthOK
  <2>7. \A d, e \in Callbacks : (exchanging'[d] # NoLogin /\ exchanging'[d] = exchanging'[e]) => d = e
    BY <2>3, <2>4 DEF OriginsOK
  <2>8. \A p \in Issued : origin'[p] # NoLogin =>
            (origin'[p] \notin OpenLogins' /\ \A d \in Callbacks : exchanging'[d] # origin'[p])
    BY <2>1, <2>2, <2>3, <2>5 DEF OriginsOK, OAuthOK
  <2>9. QED
    BY <2>1, <2>6, <2>7, <2>8 DEF OriginsOK, OneProfilePerLogin
<1>3. ASSUME NEW c \in Callbacks, NEW p \in Issued, Exchanged(c, p) PROVE OriginsOK'
  <2> DEFINE x == exchanging[c]
  <2>1. x # NoLogin /\ x \notin OpenLogins /\ opened' = opened /\ pending' = pending
    BY <1>3 DEF Exchanged, OriginsOK
  <2>2. OpenLogins' = OpenLogins
    BY <2>1 DEF OpenLogins
  <2>3. \A d \in Callbacks : exchanging'[d] = IF d = c THEN NoLogin ELSE exchanging[d]
    BY <1>3 DEF Exchanged, OAuthOK
  <2>4. \A q \in Issued : origin'[q] = IF q = p THEN x ELSE origin[q]
    BY <1>3 DEF Exchanged, OAuthOK
  <2>5. \A q \in Issued : origin[q] # x
    BY <2>1 DEF OriginsOK
  <2>6. \A d \in Callbacks : d # c => exchanging[d] # x
    BY <2>1 DEF OriginsOK
  <2> HIDE DEF x
  <2>7. \A q \in Issued : origin'[q] # NoLogin =>
            (origin'[q] \notin OpenLogins' /\ \A d \in Callbacks : exchanging'[d] # origin'[q])
    BY <2>1, <2>2, <2>3, <2>4, <2>6 DEF OriginsOK
  <2>8. OneProfilePerLogin'
    BY <2>4, <2>5 DEF OriginsOK, OneProfilePerLogin
  <2>9. QED
    BY <2>1, <2>2, <2>3, <2>7, <2>8 DEF OriginsOK
<1>4. ASSUME NEW c \in Callbacks, ExchangeFails(c) PROVE OriginsOK'
  <2>1. opened' = opened /\ pending' = pending /\ origin' = origin
    BY <1>4 DEF ExchangeFails
  <2>2. OpenLogins' = OpenLogins
    BY <2>1 DEF OpenLogins
  <2>3. \A d \in Callbacks : exchanging'[d] = IF d = c THEN NoLogin ELSE exchanging[d]
    BY <1>4 DEF ExchangeFails, OAuthOK
  <2>4. QED
    BY <2>1, <2>2, <2>3 DEF OriginsOK, OneProfilePerLogin
<1>5. ASSUME UNCHANGED <<opened, pending, exchanging, origin>> PROVE OriginsOK'
  BY <1>5 DEF OriginsOK, OneProfilePerLogin, OpenLogins
<1>6. QED
  BY <1>1, <1>2, <1>3, <1>4, <1>5 DEF NextOAuth, Refresh, Refreshed, RefreshRefused, RefreshFails, Revoke,
     oauthVars

(* A write that names only profiles it leaves in the store keeps the last good ones known. *)
LEMMA SaveGood ==
    ASSUME GoodIn(known, lastGood), GoodIn(disk.known, disk.lastGood),
           NEW K, NEW st, NEW good, Save(K, st, good), GoodIn(K, good)
    PROVE  GoodIn(known, lastGood)' /\ GoodIn(disk.known, disk.lastGood)'
<1>1. known' = K /\ lastGood' = good
  BY DEF Save
<1>2. GoodIn(EmptyFile.known, EmptyFile.lastGood)
  BY DEF GoodIn, EmptyFile, NothingGood
<1>3. disk' \in {[known |-> K, stats |-> st, lastGood |-> good], disk, EmptyFile}
  BY DEF Save
<1>4. GoodIn(disk'.known, disk'.lastGood)
  BY <1>2, <1>3
<1>5. QED
  BY <1>1, <1>4 DEF GoodIn

LEMMA RunGood ==
    ASSUME Inv, NEW r \in Runs, Begin(r) \/ Answer(r) \/ Cancel(r)
    PROVE  GoodIn(known, lastGood)' /\ GoodIn(disk.known, disk.lastGood)'
<1>1. GoodIn(known, lastGood) /\ GoodIn(disk.known, disk.lastGood)
      /\ known \subseteq Profiles /\ lastGood \in [Providers -> Profiles \cup {NoProfile}]
  BY DEF Inv, StoreOK
<1>2. CASE Unsaved
  BY <1>1, <1>2 DEF Unsaved, storeVars, GoodIn
<1>3. CASE \E st : Save(known, st, lastGood)
  BY <1>1, <1>3, SaveGood
<1>4. CASE Succeed(r)
  <2> DEFINE p == run[r].id
             good == [lastGood EXCEPT ![ProviderOf[p]] = p]
  <2>1. SUFFICES ASSUME p \in known
                 PROVE  GoodIn(known, lastGood)' /\ GoodIn(disk.known, disk.lastGood)'
    BY <1>2, <1>4 DEF Succeed
  <2>2. PICK st : Save(known, st, good)
    BY <1>4, <2>1 DEF Succeed
  <2>3. p \in Profiles
    BY <1>1, <2>1
  <2> HIDE DEF p
  <2>4. \A v \in Providers : good[v] = IF v = ProviderOf[p] THEN p ELSE lastGood[v]
    BY <1>1
  <2>5. GoodIn(known, good)
    BY <1>1, <2>1, <2>4 DEF GoodIn
  <2> HIDE DEF good
  <2>6. QED
    BY <1>1, <2>2, <2>5, SaveGood
<1>5. CASE Begin(r) \/ \E e \in Reasons : Rotate(r, e) \/ FallBack(r, e) \/ Surface(r, e)
  <2>1. Unsaved \/ \E st : Save(known, st, lastGood)
    BY <1>5 DEF Begin, Rotate, FallBack, Surface, Turn
  <2>2. QED
    BY <1>2, <1>3, <2>1
<1>6. CASE Overflow(r) \/ Cancel(r)
  BY <1>2, <1>6 DEF Overflow, Cancel
<1>7. QED
  BY <1>4, <1>5, <1>6 DEF Answer

LEMMA OAuthGood ==
    ASSUME Inv, NextOAuth
    PROVE  GoodIn(known, lastGood)' /\ GoodIn(disk.known, disk.lastGood)'
<1>1. GoodIn(known, lastGood) /\ GoodIn(disk.known, disk.lastGood)
  BY DEF Inv
<1>2. CASE Unsaved
  BY <1>1, <1>2 DEF Unsaved, storeVars, GoodIn
<1>3. ASSUME NEW K, NEW st, known \subseteq K, Save(K, st, lastGood)
      PROVE  GoodIn(known, lastGood)' /\ GoodIn(disk.known, disk.lastGood)'
  <2>1. GoodIn(K, lastGood)
    BY <1>1, <1>3 DEF GoodIn
  <2>2. QED
    BY <1>1, <1>3, <2>1, SaveGood
<1>4. ASSUME NEW p \in Profiles, Revoke(p)
      PROVE  GoodIn(known, lastGood)' /\ GoodIn(disk.known, disk.lastGood)'
  <2> DEFINE good == [v \in Providers |-> IF lastGood[v] = p THEN NoProfile ELSE lastGood[v]]
  <2>1. GoodIn(known \ {p}, good)
    BY <1>1 DEF GoodIn
  <2>2. PICK st : Save(known \ {p}, st, good)
    BY <1>4 DEF Revoke
  <2> HIDE DEF good
  <2>3. QED
    BY <1>1, <2>1, <2>2, SaveGood
<1>5. ASSUME NEW c \in Callbacks, NEW p \in Issued, Exchanged(c, p)
      PROVE  \E K, st : known \subseteq K /\ Save(K, st, lastGood)
  BY <1>5 DEF Exchanged
<1>6. ASSUME NEW f \in Refreshers, Refreshed(f)
      PROVE  \E K, st : known \subseteq K /\ Save(K, st, lastGood)
  BY <1>6 DEF Refreshed
<1>7. ASSUME NEW f \in Refreshers, RefreshRefused(f)
      PROVE  Unsaved \/ \E K, st : known \subseteq K /\ Save(K, st, lastGood)
  BY <1>7 DEF RefreshRefused
<1>8. QED
  BY <1>2, <1>3, <1>4, <1>5, <1>6, <1>7
     DEF NextOAuth, Authorize, Callback, ExchangeFails, Refresh, RefreshFails

-----------------------------------------------------------------------------
(* The invariant. *)

LEMMA InvInit == InitSystem => Inv
<1> SUFFICES ASSUME InitSystem PROVE Inv
  OBVIOUS
<1>1. known \subseteq Profiles /\ stats = [p \in Profiles |-> Fresh] /\ lastGood = NothingGood
      /\ disk = [known |-> known, stats |-> stats, lastGood |-> lastGood] /\ now = 1 /\ faults = 0
  BY DEF InitSystem, Init
<1>2. stats \in [Profiles -> Stats] /\ Short(stats) /\ NothingGood \in [Providers -> Profiles \cup {NoProfile}]
  BY <1>1, FreshType DEF Short, Fresh, NoReason, NothingGood
<1>3. StoreOK
  BY <1>1, <1>2, ProfilesAssumption DEF StoreOK, Files
<1>4. RunsOK
  <2> DEFINE n == [pc |-> "ready", cand |-> 1, id |-> NoProfile, queue |-> <<>>, rotated |-> FALSE, tried |-> {}]
  <2>1. run = [r \in Runs |-> n]
    BY DEF InitSystem, InitRuns
  <2>2. n \in RunStates
    BY ChainAssumption, LenProperties, EmptySeq DEF RunStates, Candidates
  <2>3. \A i : At(n.tried, i) = {}
    BY DEF At
  <2>4. Sound(n)
    BY <2>2, <2>3 DEF Sound
  <2> HIDE DEF n
  <2>5. QED
    BY <2>1, <2>2, <2>4 DEF RunsOK
<1>5. OAuthOK /\ OriginsOK
  BY ProfilesAssumption DEF InitSystem, InitOAuth, OAuthOK, OriginsOK, OneProfilePerLogin
<1>6. GoodIn(known, lastGood) /\ GoodIn(disk.known, disk.lastGood)
  BY <1>1 DEF GoodIn, NothingGood
<1>7. restarts \in 0..MaxRestarts
  BY RestartsAssumption DEF InitSystem
<1>8. QED
  BY <1>3, <1>4, <1>5, <1>6, <1>7 DEF Inv

(* A sound move leaves every run sound. *)
LEMMA MovesSound ==
    ASSUME RunsOK, NEW r \in Runs, Moves(r)
    PROVE  RunsOK'
<1>1. PICK n : Sound(n) /\ run' = [run EXCEPT ![r] = n]
  BY DEF Moves
<1>2. n \in RunStates
  BY <1>1 DEF Sound
<1>3. run' \in [Runs -> RunStates]
  BY <1>1, <1>2 DEF RunsOK
<1>4. \A s \in Runs : Sound(run'[s])
  BY <1>1, <1>2 DEF RunsOK
<1>5. \A s \in Runs : Sound(run[s])'
  BY <1>4 DEF Sound, Heard, At
<1>6. QED
  BY <1>3, <1>5 DEF RunsOK

LEMMA RunsStutter ==
    ASSUME RunsOK, run' = run
    PROVE  RunsOK'
<1>1. \A r \in Runs : Sound(run'[r])
  BY DEF RunsOK
<1>2. \A r \in Runs : Sound(run[r])'
  BY <1>1 DEF Sound, Heard, At
<1>3. QED
  BY <1>2 DEF RunsOK

LEMMA OAuthStutters ==
    ASSUME OAuthOK, OriginsOK, UNCHANGED oauthVars
    PROVE  OAuthOK' /\ OriginsOK'
BY DEF OAuthOK, OriginsOK, OneProfilePerLogin, OpenLogins, oauthVars

LEMMA StoreStutters ==
    ASSUME StoreOK, UNCHANGED storeVars
    PROVE  StoreOK'
BY DEF StoreOK, storeVars, Short

LEMMA InvStep == Inv /\ [NextSystem]_vars => Inv'
<1> SUFFICES ASSUME Inv, [NextSystem]_vars PROVE Inv'
  OBVIOUS
<1>1. StoreOK /\ RunsOK /\ OAuthOK /\ OriginsOK /\ GoodIn(known, lastGood)
      /\ GoodIn(disk.known, disk.lastGood) /\ restarts \in 0..MaxRestarts
  BY DEF Inv
<1>2. CASE NextRun /\ UNCHANGED <<oauthVars, restarts>>
  <2>1. PICK r \in Runs : Begin(r) \/ Answer(r) \/ Cancel(r)
    BY <1>2 DEF NextRun
  <2>2. Moves(r) /\ (StoreWritten \/ Unsaved)
    BY <1>1, <2>1, RunActions
  <2>3. StoreOK'
    BY <1>1, <2>2, WrittenOK, StoreStutters DEF Unsaved
  <2>4. RunsOK'
    BY <1>1, <2>2, MovesSound
  <2>5. OAuthOK' /\ OriginsOK' /\ restarts' \in 0..MaxRestarts
    BY <1>1, <1>2, OAuthStutters
  <2>6. QED
    BY <2>1, <2>3, <2>4, <2>5, RunGood DEF Inv
<1>3. CASE NextOAuth /\ UNCHANGED <<run, restarts>>
  <2>1. StoreOK'
    BY <1>1, <1>3, OAuthWrites, WrittenOK, StoreStutters DEF Unsaved
  <2>2. RunsOK' /\ restarts' \in 0..MaxRestarts
    BY <1>1, <1>3, RunsStutter
  <2>3. QED
    BY <1>1, <1>3, <2>1, <2>2, OAuthType, OriginsStep, OAuthGood DEF Inv
<1>4. CASE Tick /\ UNCHANGED <<run, oauthVars, restarts>>
  <2>1. now \in Nat /\ Margin \in Nat /\ now' = now + 1
    BY <1>1, <1>4, ProfilesAssumption DEF Tick, StoreOK
  <2>2. \A t \in Nat : t <= now + Margin => t <= now' + Margin
    BY <2>1
  <2>3. stats' = stats /\ disk' = disk /\ stats \in [Profiles -> Stats] /\ disk.stats \in [Profiles -> Stats]
    BY <1>1, <1>4 DEF Tick, StoreOK, Files
  <2>4. \A p \in Profiles : stats[p].cooldownUntil \in Nat /\ disk.stats[p].cooldownUntil \in Nat
    BY <2>3 DEF Stats
  <2>5. Short(stats)' /\ Short(disk.stats)'
    BY <1>1, <2>2, <2>3, <2>4 DEF Short, StoreOK
  <2>6. StoreOK'
    BY <1>1, <1>4, <2>5, ProfilesAssumption DEF StoreOK, Tick
  <2>7. RunsOK' /\ OAuthOK' /\ OriginsOK' /\ restarts' \in 0..MaxRestarts
    BY <1>1, <1>4, RunsStutter, OAuthStutters
  <2>8. GoodIn(known, lastGood)' /\ GoodIn(disk.known, disk.lastGood)'
    BY <1>1, <1>4 DEF GoodIn, Tick
  <2>9. QED
    BY <2>6, <2>7, <2>8 DEF Inv
<1>5. CASE Restart
  <2>1. StoreOK'
    BY <1>1, <1>5 DEF Restart, Load, StoreOK, Files, Short
  <2>2. ASSUME NEW r \in Runs PROVE Sound(run'[r]) /\ run'[r] \in RunStates
    <3>1. Sound(run[r]) /\ run[r] \in RunStates
      BY <1>1 DEF RunsOK
    <3>2. Ended(r, "killed") \in RunStates
      BY <3>1, EmptySeq DEF Ended, RunStates, Finished
    <3>3. Ended(r, "killed").pc = "killed" /\ Ended(r, "killed").tried = run[r].tried
      BY DEF Ended
    <3>4. Sound(Ended(r, "killed"))
      BY <3>1, <3>2, <3>3 DEF Sound
    <3>5. run'[r] = IF Calling(r) THEN Ended(r, "killed") ELSE run[r]
      BY <1>5 DEF Restart
    <3>6. QED
      BY <3>1, <3>2, <3>4, <3>5
  <2>3. run' \in [Runs -> RunStates]
    BY <1>5, <2>2 DEF Restart
  <2>4. RunsOK'
    BY <2>2, <2>3 DEF RunsOK, Sound, Heard, At
  <2>5. OAuthOK'
    BY <1>1, <1>5 DEF Restart, ForgetOAuth, OAuthOK
  <2>6. OriginsOK'
    BY <1>1, <1>5, LoginsAssumption DEF Restart, ForgetOAuth, OAuthOK, OriginsOK, OneProfilePerLogin, OpenLogins
  <2>7. GoodIn(known, lastGood)' /\ GoodIn(disk.known, disk.lastGood)'
    BY <1>1, <1>5 DEF Restart, Load, GoodIn
  <2>8. restarts' \in 0..MaxRestarts
    BY <1>1, <1>5, RestartsAssumption DEF Restart
  <2>9. QED
    BY <2>1, <2>4, <2>5, <2>6, <2>7, <2>8 DEF Inv
<1>6. CASE UNCHANGED vars
  <2>1. UNCHANGED storeVars /\ UNCHANGED oauthVars /\ run' = run /\ restarts' = restarts
    BY <1>6 DEF vars
  <2>2. StoreOK'
    BY <1>1, <2>1, StoreStutters
  <2>3. RunsOK' /\ OAuthOK' /\ OriginsOK'
    BY <1>1, <2>1, RunsStutter, OAuthStutters
  <2>4. GoodIn(known, lastGood)' /\ GoodIn(disk.known, disk.lastGood)'
    BY <1>1, <2>1 DEF GoodIn, storeVars
  <2>5. QED
    BY <1>1, <2>1, <2>2, <2>3, <2>4 DEF Inv
<1>7. QED
  BY <1>2, <1>3, <1>4, <1>5, <1>6 DEF NextSystem

(* The inductive invariant: the store is well typed and a timed-out profile is close to the   *)
(* end of its cooldown; every run is Sound; an authorization has one callback and one id; the *)
(* last good profiles of the store and of the file are in them.                               *)
THEOREM FailoverInvariant == Spec => []Inv
BY InvInit, InvStep, PTL DEF Spec

(* For any number of profiles, runs, requests, failures and restarts the variables are well   *)
(* typed (auth_profiles.py, fallback.py, oauth_provider.py).                                  *)
THEOREM TypeCorrect == Spec => []TypeOK
<1>1. Inv => TypeOK
  BY DEF Inv, StoreOK, RunsOK, OAuthOK, TypeOK
<1>2. QED
  BY <1>1, FailoverInvariant, PTL

(* No fallback candidate is passed over for a short cooldown of its profiles; with the        *)
(* cooldowns of _get_cooldown_ms and the reason that stands in for a missing one, none is     *)
(* passed over at all (cooldown.py:263-281).                                                  *)
THEOREM FallbacksPassedOver == Spec => OnlyDisabledPassedOver
<1>1. ASSUME Inv', NEW r \in Runs, NEW i \in Candidates \ {1}, PassesOver(r, i)
      PROVE  FALSE
  <2>1. Sound(run[r])' /\ run'[r] \in RunStates
    BY <1>1 DEF Inv, RunsOK
  <2>2. ~ \E a \in run'[r].tried : a.cand = i
    BY <1>1 DEF PassesOver
  <2>3. CASE run'[r].pc = "exhausted"
    BY <2>1, <2>2, <2>3 DEF Sound, Heard, At
  <2>4. CASE run'[r].pc = "calling" /\ i < run'[r].cand
    <3>1. i \in 1..run'[r].cand
      BY <2>1, <2>4 DEF RunStates, Candidates
    <3>2. QED
      BY <2>1, <2>2, <2>4, <3>1 DEF Sound, Heard, At
  <2>5. QED
    BY <1>1, <2>3, <2>4 DEF PassesOver
<1>2. Inv /\ Inv' /\ [NextSystem]_vars =>
        \A r \in Runs, i \in Candidates \ {1} :
            PassesOver(r, i) => Offered(i) # {} /\ \A p \in Offered(i) : stats'[p].disabledUntil > now
  BY <1>1
<1>3. QED
  BY <1>2, FailoverInvariant, PTL DEF Spec, OnlyDisabledPassedOver

LEMMA PairSmall ==
    ASSUME NEW a, NEW b, NEW S, S \subseteq {a, b}
    PROVE  Cardinality(S) <= 2
<1>1. IsFiniteSet({a}) /\ Cardinality({a}) = 1
  BY FS_Singleton
<1>2. IsFiniteSet({a} \cup {b}) /\ Cardinality({a} \cup {b}) <= 2
  BY <1>1, FS_AddElement
<1>3. S \subseteq {a} \cup {b}
  OBVIOUS
<1>4. Cardinality(S) <= Cardinality({a} \cup {b}) /\ Cardinality(S) \in Nat /\ Cardinality({a} \cup {b}) \in Nat
  BY <1>2, <1>3, FS_Subset, FS_CardinalityType
<1>5. QED
  BY <1>2, <1>4

(* A candidate costs a run two calls at most, however many profiles its provider has, and     *)
(* whatever the list of them became during the calls (fallback.py:284-309).                   *)
THEOREM FewAttempts == Spec => []AttemptsFew
<1>1. ASSUME Inv, NEW r \in Runs, NEW i \in Candidates
      PROVE  Cardinality({a \in run[r].tried : a.cand = i}) <= 2
  <2>1. \E a, b : At(run[r].tried, i) \subseteq {a, b}
    BY <1>1 DEF Inv, RunsOK, Sound
  <2>2. Cardinality(At(run[r].tried, i)) <= 2
    BY <2>1, PairSmall
  <2>3. QED
    BY <2>2 DEF At
<1>2. Inv => AttemptsFew
  BY <1>1 DEF AttemptsFew
<1>3. QED
  BY <1>2, FailoverInvariant, PTL

(* The last good profile of a provider is in the store, whatever was revoked during the call  *)
(* that succeeded and whichever file a restart found (auth_profiles.py:230, 389).             *)
THEOREM LastGoodIsKnown == Spec => []LastGoodKnown
<1>1. Inv => LastGoodKnown
  BY DEF Inv, GoodIn, LastGoodKnown
<1>2. QED
  BY <1>1, FailoverInvariant, PTL

(* No authorization gives two profiles (oauth_provider.py:234).                               *)
THEOREM OneProfileEach == Spec => []OneProfilePerLogin
<1>1. Inv => OneProfilePerLogin
  BY DEF Inv, OriginsOK
<1>2. QED
  BY <1>1, FailoverInvariant, PTL

(* No run makes a call twice, so that a run makes finitely many (fallback.py:172-326).        *)
THEOREM NoRepeatedCall == Spec => NeverRepeats
<1>1. ASSUME Inv, [NextSystem]_vars, NEW r \in Runs, run'[r] # run[r], run'[r].pc = "calling"
      PROVE  [cand |-> run'[r].cand, id |-> run'[r].id] \notin run[r].tried
  <2>1. StoreOK /\ RunsOK
    BY <1>1 DEF Inv
  <2>2. CASE NextRun
    <3>1. PICK s \in Runs : Moves(s)
      BY <2>1, <2>2, RunActions DEF NextRun
    <3>2. PICK n : /\ run' = [run EXCEPT ![s] = n]
                   /\ n.pc = "calling" => [cand |-> n.cand, id |-> n.id] \notin run[s].tried
      BY <3>1 DEF Moves
    <3>3. r = s /\ run'[r] = n
      BY <1>1, <2>1, <3>2 DEF RunsOK
    <3>4. QED
      BY <1>1, <3>2, <3>3
  <2>3. CASE Restart
    <3>1. run'[r] = Ended(r, "killed") \/ run'[r] = run[r]
      BY <2>3 DEF Restart
    <3>2. QED
      BY <1>1, <3>1 DEF Ended
  <2>4. CASE run' = run
    BY <1>1, <2>4
  <2>5. QED
    BY <1>1, <2>2, <2>3, <2>4 DEF NextSystem, vars
<1>2. Inv /\ [NextSystem]_vars =>
        \A r \in Runs : (run'[r] # run[r] /\ run'[r].pc = "calling") =>
            [cand |-> run'[r].cand, id |-> run'[r].id] \notin run[r].tried
  BY <1>1
<1>3. QED
  BY <1>2, FailoverInvariant, PTL DEF Spec, NeverRepeats

\* What a run's action does to the store: the profiles stay, and a disabled one stays disabled,
\* until the same time unless the run's own call failed with it.
KeepsDisabled(r) ==
    /\ known' = known
    /\ \A p \in known : stats[p].disabledUntil > now =>
          \/ stats'[p].disabledUntil = stats[p].disabledUntil
          \/ Calling(r) /\ run[r].id = p /\ stats'[p].disabledUntil > now

LEMMA ClearedDisabled ==
    ASSUME NEW st \in [Profiles -> Stats], NEW p \in Profiles, now \in Nat, st[p].disabledUntil > now
    PROVE  ClearedAll(st)[p].disabledUntil = st[p].disabledUntil
<1>1. st[p].disabledUntil \in Nat
  BY DEF Stats
<1>2. ~(now >= st[p].disabledUntil)
  BY <1>1
<1>3. ClearedAll(st)[p] = IF p \in known THEN Cleared(st[p]) ELSE st[p]
  BY DEF ClearedAll
<1>4. Cleared(st[p]).disabledUntil = st[p].disabledUntil
  BY <1>2 DEF Cleared
<1>5. QED
  BY <1>3, <1>4

LEMMA MarkedDisabled ==
    ASSUME StoreOK, NEW r, NEW e \in Reasons, NEW p \in Profiles, stats[p].disabledUntil > now
    PROVE  /\ Marked(r, e)[p].disabledUntil > now
           /\ run[r].id # p => Marked(r, e)[p].disabledUntil = stats[p].disabledUntil
<1>1. stats \in [Profiles -> Stats] /\ now \in Nat /\ Cooldown[e] \in Nat
  BY ProfilesAssumption DEF StoreOK, Reasons
<1>2. CASE run[r].id # p \/ run[r].id \notin known
  BY <1>1, <1>2 DEF Marked
<1>3. CASE run[r].id = p /\ p \in known
  <2> DEFINE s == Failed(stats[p], e, Cooldown[e])
  <2>1. Marked(r, e)[p] = s
    BY <1>1, <1>3 DEF Marked
  <2>2. s.disabledUntil = stats[p].disabledUntil \/ (Cooldown[e] # 0 /\ s.disabledUntil = now + Cooldown[e])
    <3>1. CASE e \in Transient
      BY <3>1 DEF Failed
    <3>2. CASE e \notin Transient /\ e \in Persistent
      BY <3>2 DEF Failed, Transient, Persistent
    <3>3. CASE e \notin Transient /\ e \notin Persistent
      BY <3>3 DEF Failed
    <3>4. QED
      BY <3>1, <3>2, <3>3
  <2> HIDE DEF s
  <2>3. s.disabledUntil > now
    BY <1>1, <2>2
  <2>4. QED
    BY <1>3, <2>1, <2>3
<1>4. QED
  BY <1>2, <1>3

LEMMA RunKeepsDisabled ==
    ASSUME StoreOK, NEW r \in Runs, Begin(r) \/ Answer(r) \/ Cancel(r)
    PROVE  KeepsDisabled(r)
<1>1. stats \in [Profiles -> Stats] /\ now \in Nat /\ known \subseteq Profiles
  BY DEF StoreOK
<1>2. CASE Unsaved
  BY <1>2 DEF Unsaved, storeVars, KeepsDisabled
<1>3. ASSUME NEW i, Turn(r, i, stats) PROVE KeepsDisabled(r)
  <2>1. Unsaved \/ (known' = known /\ (stats' = ClearedAll(stats) \/ stats' = stats))
    BY <1>3 DEF Turn, Save
  <2>2. QED
    BY <1>1, <1>2, <2>1, ClearedDisabled DEF KeepsDisabled
<1>4. ASSUME NEW e \in Reasons, NEW i, Calling(r), Turn(r, i, Marked(r, e)) PROVE KeepsDisabled(r)
  <2> DEFINE m == Marked(r, e)
  <2>1. Unsaved \/ (known' = known /\ (stats' = ClearedAll(m) \/ stats' = m))
    BY <1>4 DEF Turn, Save
  <2>2. m \in [Profiles -> Stats]
    BY MarkedOK
  <2>3. ASSUME NEW p \in known, stats[p].disabledUntil > now
        PROVE  /\ m[p].disabledUntil > now /\ ClearedAll(m)[p].disabledUntil = m[p].disabledUntil
               /\ run[r].id # p => m[p].disabledUntil = stats[p].disabledUntil
    <3>1. m[p].disabledUntil > now /\ (run[r].id # p => m[p].disabledUntil = stats[p].disabledUntil)
      BY <1>1, <2>3, MarkedDisabled
    <3> HIDE DEF m
    <3>2. QED
      BY <1>1, <2>2, <3>1, ClearedDisabled
  <2> HIDE DEF m
  <2>4. QED
    BY <1>2, <1>4, <2>1, <2>3 DEF KeepsDisabled
<1>5. ASSUME NEW e \in Reasons, Calling(r),
             IF run[r].id \in known THEN Save(known, Marked(r, e), lastGood) ELSE Unsaved
      PROVE  KeepsDisabled(r)
  <2>1. Unsaved \/ (known' = known /\ stats' = Marked(r, e))
    BY <1>5 DEF Save
  <2>2. \A p \in known : stats[p].disabledUntil > now =>
           /\ Marked(r, e)[p].disabledUntil > now
           /\ run[r].id # p => Marked(r, e)[p].disabledUntil = stats[p].disabledUntil
    BY <1>1, MarkedDisabled
  <2>3. QED
    BY <1>2, <1>5, <2>1, <2>2 DEF KeepsDisabled
<1>6. CASE Succeed(r)
  <2>1. SUFFICES ASSUME run[r].id \in known PROVE KeepsDisabled(r)
    BY <1>2, <1>6 DEF Succeed
  <2>2. known' = known /\ stats' = [stats EXCEPT ![run[r].id] = Succeeded(stats[run[r].id])]
    BY <1>6, <2>1 DEF Succeed, Save
  <2>3. \A s : Succeeded(s).disabledUntil = s.disabledUntil
    BY DEF Succeeded
  <2>4. \A p \in known : stats'[p].disabledUntil = stats[p].disabledUntil
    BY <1>1, <2>2, <2>3
  <2>5. QED
    BY <2>2, <2>4 DEF KeepsDisabled
<1>7. ASSUME NEW e \in Reasons, Rotate(r, e) PROVE KeepsDisabled(r)
  BY <1>4, <1>5, <1>7 DEF Rotate
<1>8. ASSUME NEW e \in Reasons, FallBack(r, e) PROVE KeepsDisabled(r)
  BY <1>4, <1>8 DEF FallBack
<1>9. ASSUME NEW e \in Reasons, Surface(r, e) PROVE KeepsDisabled(r)
  BY <1>5, <1>9 DEF Surface
<1>10. CASE Begin(r) \/ Overflow(r) \/ Cancel(r)
  BY <1>2, <1>3, <1>10 DEF Begin, Overflow, Cancel
<1>11. QED
  BY <1>6, <1>7, <1>8, <1>9, <1>10 DEF Answer

\* What a request of OAuth does to the profiles that stay and to those that come.
LEMMA OAuthKeeps ==
    ASSUME StoreOK, OAuthOK, NextOAuth, NEW p \in known'
    PROVE  /\ p \in known => (Renewed(p) \/ stats'[p].disabledUntil = stats[p].disabledUntil)
           /\ p \notin known => (Renewed(p) \/ (p \in Issued /\ origin[p] = NoLogin /\ origin'[p] # NoLogin))
<1>1. stats \in [Profiles -> Stats] /\ known \subseteq Profiles
  BY DEF StoreOK
<1>2. CASE Unsaved
  BY <1>2 DEF Unsaved, storeVars
<1>3. ASSUME NEW c \in Callbacks, NEW q \in Issued, Exchanged(c, q)
      PROVE  IF p = q THEN p \notin known /\ origin[p] = NoLogin /\ origin'[p] # NoLogin
             ELSE p \in known /\ stats'[p] = stats[p]
  BY <1>1, <1>3, LoginsAssumption DEF Exchanged, Save, OAuthOK
<1>4. ASSUME NEW f \in Refreshers, Refreshed(f)
      PROVE  Renewed(p) \/ (p \in known /\ stats'[p] = stats[p])
  BY <1>1, <1>4 DEF Refreshed, Save, Renewed, OAuthOK
<1>5. ASSUME NEW f \in Refreshers, RefreshRefused(f)
      PROVE  p \in known /\ stats'[p].disabledUntil = stats[p].disabledUntil
  <2>1. Unsaved \/ (known' = known /\ stats' = [stats EXCEPT ![refreshing[f]] = Failed(stats[refreshing[f]], "auth", 0)])
    BY <1>5 DEF RefreshRefused, Save
  <2>2. \A s : Failed(s, "auth", 0).disabledUntil = s.disabledUntil
    BY DEF Failed, Transient, Persistent
  <2>3. QED
    BY <1>1, <2>1, <2>2 DEF Unsaved, storeVars
<1>6. ASSUME NEW q \in Profiles, Revoke(q)
      PROVE  p \in known /\ stats'[p] = stats[p]
  BY <1>1, <1>6 DEF Revoke, Save
<1>7. QED
  BY <1>2, <1>3, <1>4, <1>5, <1>6
     DEF NextOAuth, Authorize, Callback, ExchangeFails, Refresh, RefreshFails

(* Only an exchange or a refresh brings a profile into the store, between restarts: the       *)
(* result of a call whose profile was revoked meanwhile does not (auth_profiles.py:355, 385). *)
THEOREM LateResultsDoNotReturn == Spec => NoLateReturn
<1>1. ASSUME Inv, [NextSystem]_vars, restarts' = restarts, NEW p \in known' \ known
      PROVE  Renewed(p) \/ (p \in Issued /\ origin[p] = NoLogin /\ origin'[p] # NoLogin)
  <2>1. StoreOK /\ OAuthOK /\ restarts \in Nat
    BY <1>1, RestartsAssumption DEF Inv
  <2>2. CASE NextRun
    BY <1>1, <2>1, <2>2, RunKeepsDisabled DEF NextRun, KeepsDisabled
  <2>3. CASE NextOAuth
    BY <1>1, <2>1, <2>3, OAuthKeeps
  <2>4. CASE Tick \/ UNCHANGED vars
    BY <1>1, <2>4 DEF Tick, vars, storeVars
  <2>5. CASE Restart
    BY <1>1, <2>1, <2>5 DEF Restart
  <2>6. QED
    BY <1>1, <2>2, <2>3, <2>4, <2>5 DEF NextSystem
<1>2. Inv /\ [NextSystem]_vars =>
        (restarts' = restarts =>
           \A p \in known' \ known : Renewed(p) \/ (p \in Issued /\ origin[p] = NoLogin /\ origin'[p] # NoLogin))
  BY <1>1
<1>3. QED
  BY <1>2, FailoverInvariant, PTL DEF Spec, NoLateReturn

(* Between restarts a disabled profile stays disabled until its time, whatever other calls,   *)
(* refused refreshes and clearings do to it; only a later persistent failure of a call with   *)
(* it, the renewal of its token or its revocation end that (auth_profiles.py:344-428).        *)
THEOREM DisabledProfilesStand == Spec => DisabledStands
<1>1. ASSUME Inv, [NextSystem]_vars, restarts' = restarts, NEW p \in known \cap known',
             stats[p].disabledUntil > now, stats'[p].disabledUntil # stats[p].disabledUntil
      PROVE  \/ Renewed(p)
             \/ \E r \in Runs : Calling(r) /\ run[r].id = p /\ stats'[p].disabledUntil > now
  <2>1. StoreOK /\ OAuthOK /\ restarts \in Nat
    BY <1>1, RestartsAssumption DEF Inv
  <2>2. CASE NextRun
    BY <1>1, <2>1, <2>2, RunKeepsDisabled DEF NextRun, KeepsDisabled
  <2>3. CASE NextOAuth
    BY <1>1, <2>1, <2>3, OAuthKeeps
  <2>4. CASE Tick \/ UNCHANGED vars
    BY <1>1, <2>4 DEF Tick, vars, storeVars
  <2>5. CASE Restart
    BY <1>1, <2>1, <2>5 DEF Restart
  <2>6. QED
    BY <1>1, <2>2, <2>3, <2>4, <2>5 DEF NextSystem
<1>2. Inv /\ [NextSystem]_vars =>
        (restarts' = restarts =>
           \A p \in known \cap known' :
              (stats[p].disabledUntil > now /\ stats'[p].disabledUntil # stats[p].disabledUntil) =>
                \/ Renewed(p)
                \/ \E r \in Runs : Calling(r) /\ run[r].id = p /\ stats'[p].disabledUntil > now)
  BY <1>1
<1>3. QED
  BY <1>2, FailoverInvariant, PTL DEF Spec, DisabledStands
=============================================================================
