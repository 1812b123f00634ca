---------------------------- MODULE Views_proofs -----------------------------
(***************************************************************************)
(* Proofs about what becomes of the texts and lists that users are shown:  *)
(* HiddenThoughts (no thought is shown), by induction over the data, which *)
(* the first section makes room for, ChatPage (the page shows what was     *)
(* recorded), along what the events on their way will make of the page,    *)
(* and Skills (what is chosen was asked for), by bounds on the scores.     *)
(***************************************************************************)
EXTENDS HiddenThoughts, ChatPage, Skills, FiniteSetTheorems, SequenceTheorems, TLAPS

-----------------------------------------------------------------------------
(* Numbers. *)

\* Every set of natural numbers that is not empty has a least element: finite sets are well
\* ordered by inclusion, and 0..n grows with n.
LEMMA LeastNumber ==
    ASSUME NEW T \in SUBSET Nat, T # {}
    PROVE  \E x \in T : \A y \in T : x <= y
<1> DEFINE R == StrictSubsetOrdering(Nat)
           Upto(n) == 0..n
           B == {Upto(n) : n \in T}
<1>1. IsWellFoundedOn(R, FiniteSubsetsOf(Nat))
  BY FS_StrictSubsetOrderingWellFounded
<1>2. B \subseteq FiniteSubsetsOf(Nat)
  <2>1. ASSUME NEW n \in T
        PROVE  Upto(n) \in FiniteSubsetsOf(Nat)
    <3>1. IsFiniteSet(0..n)
      BY FS_Interval
    <3> QED
      BY <3>1 DEF FiniteSubsetsOf
  <2> QED
    BY <2>1
<1>3. B # {}
  OBVIOUS
<1> HIDE DEF R, B
<1>4. PICK x \in B : \A y \in B : ~(<<y, x>> \in R)
  BY <1>1, <1>2, <1>3, WFMin
<1> USE DEF R, B
<1>5. PICK n \in T : x = Upto(n)
  BY <1>4
<1>6. SUFFICES ASSUME NEW m \in T, m < n PROVE FALSE
  BY DEF B
<1>7. Upto(m) \subseteq Upto(n) /\ n \in Upto(n) /\ n \notin Upto(m)
  BY <1>6
<1>8. <<Upto(m), Upto(n)>> \in R
  BY <1>7 DEF StrictSubsetOrdering
<1> QED
  BY <1>4, <1>5, <1>6, <1>8

\* What holds of 0, and of n + 1 if of n, holds of every number up to a bound.
LEMMA Induction ==
    ASSUME NEW N \in Nat, NEW T, 0 \in T, \A n \in 0..(N - 1) : n \in T => n + 1 \in T
    PROVE  0..N \subseteq T
<1> SUFFICES ASSUME (0..N) \ T # {} PROVE FALSE
  OBVIOUS
<1>1. PICK x \in (0..N) \ T : \A y \in (0..N) \ T : x <= y
  <2> DEFINE B == (0..N) \ T
  <2>1. B \in SUBSET Nat /\ B # {}
    OBVIOUS
  <2> HIDE DEF B
  <2>2. \E x \in B : \A y \in B : x <= y
    BY <2>1, LeastNumber
  <2> QED
    BY <2>2 DEF B
<1>2. x # 0 /\ x - 1 \in 0..(N - 1) /\ x - 1 < x /\ x - 1 + 1 = x
  BY <1>1
<1>3. x - 1 \in T
  BY <1>1, <1>2
<1> QED
  BY <1>1, <1>2, <1>3

\* A step can be taken over and over.
Repeats(f, N, s, F) == f[0] = s /\ \A i \in 1..N : f[i] = F[f[i - 1]]

LEMMA Repeated ==
    ASSUME NEW N \in Nat, NEW S, NEW s \in S, NEW F \in [S -> S]
    PROVE  \E f \in [0..N -> S] : Repeats(f, N, s, F)
<1> DEFINE Upto(f, n) == f \in [0..n -> S] /\ f = [i \in 0..n |-> IF i = 0 THEN s ELSE F[f[i - 1]]]
           T == {n \in 0..N : \E f : Upto(f, n)}
<1>1. 0 \in T
  <2>1. Upto([i \in 0..0 |-> s], 0)
    OBVIOUS
  <2> HIDE DEF Upto
  <2> QED
    BY <2>1
<1>2. ASSUME NEW n \in 0..(N - 1), n \in T
      PROVE  n + 1 \in T
  <2>1. PICK f : Upto(f, n)
    BY <1>2
  <2> DEFINE g == [i \in 0..(n + 1) |-> IF i \in 0..n THEN f[i] ELSE F[f[n]]]
  <2>2. \A i \in 0..(n + 1) : g[i] \in S /\ g[i] = IF i = 0 THEN s ELSE F[g[i - 1]]
    <3> SUFFICES ASSUME NEW i \in 0..(n + 1)
                 PROVE  g[i] \in S /\ g[i] = IF i = 0 THEN s ELSE F[g[i - 1]]
      OBVIOUS
    <3>1. CASE i \in 0..n
      <4>1. g[i] = f[i] /\ (i # 0 => g[i - 1] = f[i - 1])
        BY <3>1
      <4> QED
        BY <2>1, <3>1, <4>1
    <3>2. CASE i = n + 1
      <4>1. i # 0 /\ i - 1 = n /\ i \notin 0..n /\ g[i - 1] = f[n] /\ f[n] \in S
        BY <2>1, <3>2
      <4> QED
        BY <3>2, <4>1
    <3> QED
      BY <3>1, <3>2
  <2>3. Upto(g, n + 1)
    <3> HIDE DEF g
    <3>1. g = [i \in 0..(n + 1) |-> g[i]]
      BY DEF g
    <3> QED
      BY <2>2, <3>1
  <2> HIDE DEF Upto, g
  <2>4. n + 1 \in 0..N
    OBVIOUS
  <2> QED
    BY <2>3, <2>4
<1> HIDE DEF T
<1>3. 0..N \subseteq T
  BY <1>1, <1>2, Induction
<1> USE DEF T
<1>4. PICK f : Upto(f, N)
  BY <1>3
<1>5. f[0] = s /\ \A i \in 1..N : f[i] = F[f[i - 1]]
  BY <1>4
<1> QED
  BY <1>4, <1>5 DEF Repeats

-----------------------------------------------------------------------------
(* HiddenThoughts: reading a text. *)

\* A run of Reading over a text.
RunOf(f, s, t) == f = [i \in 0..Len(t) |-> IF i = 0 THEN s ELSE ReadOne(f[i - 1], t[i])]

LEMMA OneRun ==
    ASSUME NEW f, NEW g, NEW s, NEW t \in Seq(Characters), RunOf(f, s, t), RunOf(g, s, t)
    PROVE  f = g
<1> DEFINE T == {n \in 0..Len(t) : f[n] = g[n]}
<1>1. Len(t) \in Nat
  OBVIOUS
<1>2. 0 \in T
  BY <1>1 DEF RunOf
<1>3. ASSUME NEW n \in 0..(Len(t) - 1), n \in T
      PROVE  n + 1 \in T
  <2>1. n + 1 \in 0..Len(t) /\ n + 1 # 0 /\ n + 1 - 1 = n /\ f[n] = g[n]
    BY <1>1, <1>3
  <2>2. f[n + 1] = ReadOne(f[n], t[n + 1]) /\ g[n + 1] = ReadOne(g[n], t[n + 1])
    BY <2>1 DEF RunOf
  <2> QED
    BY <2>1, <2>2
<1> HIDE DEF T
<1>4. 0..Len(t) \subseteq T
  BY <1>1, <1>2, <1>3, Induction
<1> USE DEF T
<1> QED
  BY <1>4 DEF RunOf

LEMMA RunExists ==
    ASSUME NEW s, NEW t \in Seq(Characters)
    PROVE  \E f : RunOf(f, s, t)
<1> DEFINE Upto(f, n) == f = [i \in 0..n |-> IF i = 0 THEN s ELSE ReadOne(f[i - 1], t[i])]
           T == {n \in 0..Len(t) : \E f : Upto(f, n)}
<1>1. Len(t) \in Nat
  OBVIOUS
<1>2. 0 \in T
  <2>1. Upto([i \in 0..0 |-> s], 0)
    OBVIOUS
  <2> HIDE DEF Upto
  <2> QED
    BY <1>1, <2>1
<1>3. ASSUME NEW n \in 0..(Len(t) - 1), n \in T
      PROVE  n + 1 \in T
  <2>1. PICK f : Upto(f, n)
    BY <1>3
  <2> DEFINE g == [i \in 0..(n + 1) |-> IF i \in 0..n THEN f[i] ELSE ReadOne(f[n], t[n + 1])]
  <2>2. \A i \in 0..(n + 1) : g[i] = IF i = 0 THEN s ELSE ReadOne(g[i - 1], t[i])
    <3> SUFFICES ASSUME NEW i \in 0..(n + 1)
                 PROVE  g[i] = IF i = 0 THEN s ELSE ReadOne(g[i - 1], t[i])
      OBVIOUS
    <3>1. CASE i \in 0..n
      <4>1. g[i] = f[i] /\ (i # 0 => g[i - 1] = f[i - 1])
        BY <3>1
      <4> QED
        BY <2>1, <3>1, <4>1
    <3>2. CASE i = n + 1
      <4>1. i # 0 /\ i - 1 = n /\ i \notin 0..n /\ g[i - 1] = f[n]
        BY <3>2
      <4> QED
        BY <3>2, <4>1
    <3> QED
      BY <3>1, <3>2
  <2>3. Upto(g, n + 1)
    <3> HIDE DEF g
    <3>1. g = [i \in 0..(n + 1) |-> g[i]]
      BY DEF g
    <3> QED
      BY <2>2, <3>1
  <2> HIDE DEF Upto, g
  <2>4. n + 1 \in 0..Len(t)
    BY <1>1
  <2> QED
    BY <2>3, <2>4
<1> HIDE DEF T
<1>4. 0..Len(t) \subseteq T
  BY <1>1, <1>2, <1>3, Induction
<1> USE DEF T
<1>5. \E f : Upto(f, Len(t))
  BY <1>1, <1>4
<1> QED
  BY <1>5 DEF RunOf

\* Reading a text gives the end of any run over it.
LEMMA ReadingIs ==
    ASSUME NEW f, NEW s, NEW t \in Seq(Characters), RunOf(f, s, t)
    PROVE  Reading(s, t) = f[Len(t)]
<1> DEFINE g == CHOOSE g : g = [i \in 0..Len(t) |-> IF i = 0 THEN s ELSE ReadOne(g[i - 1], t[i])]
<1>1. RunOf(g, s, t)
  BY DEF RunOf
<1>2. g = f
  <2> HIDE DEF g
  <2> QED
    BY <1>1, OneRun
<1>3. Reading(s, t) = g[Len(t)]
  BY DEF Reading
<1> QED
  BY <1>2, <1>3

\* A text is read piece by piece.
LEMMA ReadingConcat ==
    ASSUME NEW s, NEW t \in Seq(Characters), NEW u \in Seq(Characters)
    PROVE  Reading(s, t \o u) = Reading(Reading(s, t), u)
<1>1. PICK f : RunOf(f, s, t)
  BY RunExists
<1>2. PICK g : RunOf(g, Reading(s, t), u)
  BY RunExists
<1>3. Reading(s, t) = f[Len(t)] /\ Reading(Reading(s, t), u) = g[Len(u)]
  BY <1>1, <1>2, ReadingIs
<1>4. t \o u \in Seq(Characters) /\ Len(t \o u) = Len(t) + Len(u) /\ Len(t) \in Nat /\ Len(u) \in Nat
  OBVIOUS
<1>5. PICK h : h = [i \in 0..(Len(t) + Len(u)) |-> IF i <= Len(t) THEN f[i] ELSE g[i - Len(t)]]
  OBVIOUS
<1>6. \A i \in 0..(Len(t) + Len(u)) : h[i] = IF i = 0 THEN s ELSE ReadOne(h[i - 1], (t \o u)[i])
  <2> SUFFICES ASSUME NEW i \in 0..(Len(t) + Len(u))
               PROVE  h[i] = IF i = 0 THEN s ELSE ReadOne(h[i - 1], (t \o u)[i])
    OBVIOUS
  <2>1. CASE i = 0
    <3>1. h[0] = f[0]
      BY <1>4, <1>5
    <3> QED
      BY <1>1, <1>4, <2>1, <3>1 DEF RunOf
  <2>2. CASE i \in 1..Len(t)
    <3>1. h[i] = f[i] /\ h[i - 1] = f[i - 1] /\ (t \o u)[i] = t[i]
      BY <1>4, <1>5, <2>2
    <3>2. f[i] = ReadOne(f[i - 1], t[i])
      BY <1>1, <1>4, <2>2 DEF RunOf
    <3> QED
      BY <2>2, <3>1, <3>2
  <2>3. CASE i > Len(t)
    <3>1. PICK j \in 1..Len(u) : i = Len(t) + j
      <4>1. i - Len(t) \in 1..Len(u) /\ i = Len(t) + (i - Len(t))
        BY <1>4, <2>3
      <4> QED
        BY <4>1
    <3>2. h[i] = g[j] /\ (t \o u)[i] = u[j]
      <4>1. i - Len(t) = j /\ ~(i <= Len(t))
        BY <1>4, <3>1
      <4> QED
        BY <1>4, <1>5, <2>3, <3>1, <4>1
    <3>3. h[i - 1] = g[j - 1]
      <4>1. CASE j = 1
        <5>1. h[i - 1] = f[Len(t)]
          BY <1>4, <1>5, <3>1, <4>1
        <5>2. g[0] = f[Len(t)]
          BY <1>2, <1>3, <1>4 DEF RunOf
        <5> QED
          BY <4>1, <5>1, <5>2
      <4>2. CASE j > 1
        <5>1. ~(i - 1 <= Len(t)) /\ i - 1 - Len(t) = j - 1 /\ i - 1 \in 0..(Len(t) + Len(u))
          BY <1>4, <3>1, <4>2
        <5> QED
          BY <1>5, <5>1
      <4> QED
        BY <3>1, <4>1, <4>2
    <3>4. g[j] = ReadOne(g[j - 1], u[j])
      BY <1>2, <1>4, <3>1 DEF RunOf
    <3> QED
      BY <1>4, <2>3, <3>2, <3>3, <3>4
  <2> QED
    BY <1>4, <2>1, <2>2, <2>3
<1>7. RunOf(h, s, t \o u)
  BY <1>4, <1>5, <1>6 DEF RunOf
<1>8. Reading(s, t \o u) = h[Len(t) + Len(u)]
  BY <1>4, <1>7, ReadingIs
<1>9. h[Len(t) + Len(u)] = g[Len(u)]
  <2>1. CASE Len(u) = 0
    BY <1>2, <1>3, <1>4, <1>5, <2>1 DEF RunOf
  <2>2. CASE Len(u) # 0
    <3>1. ~(Len(t) + Len(u) <= Len(t)) /\ Len(t) + Len(u) - Len(t) = Len(u)
      BY <1>4, <2>2
    <3> QED
      BY <1>4, <1>5, <3>1
  <2> QED
    BY <2>1, <2>2
<1> QED
  BY <1>3, <1>8, <1>9

LEMMA ReadingNothing ==
    ASSUME NEW s
    PROVE  Reading(s, <<>>) = s
<1>1. PICK f : RunOf(f, s, <<>>)
  <2>1. <<>> \in Seq(Characters)
    OBVIOUS
  <2> QED
    BY <2>1, RunExists
<1>2. Reading(s, <<>>) = f[0]
  <2>1. <<>> \in Seq(Characters) /\ Len(<<>>) = 0
    OBVIOUS
  <2> QED
    BY <1>1, <2>1, ReadingIs
<1> QED
  BY <1>1, <1>2 DEF RunOf

-----------------------------------------------------------------------------
\* What a reader has seen, and what part of a tag, h characters long, is at place n of a text.
Seen(inside, held, out) == [inside |-> inside, held |-> held, out |-> out]
Plain(inside, out, t, n) == IF inside THEN out ELSE out \o SubSeq(t, 1, n)
Part(inside, t, n, h) ==
    h > 0 => /\ t[n - h + 1] = Beginning(inside)
             /\ \A k \in (n - h + 2)..n : t[k] \in Filler(inside)
Longest(inside, t, n, h) ==
    /\ h \in 0..n /\ Part(inside, t, n, h)
    /\ \A g \in 0..n : Part(inside, t, n, g) => g <= h
NoTag(inside, t) == \A i \in 1..Len(t) : \A j \in 1..Len(t) : ~Tag(inside, t, i, j)

LEMMA MarksDiffer ==
    ASSUME NEW inside \in BOOLEAN
    PROVE  /\ ">" \notin Filler(inside) /\ Beginning(inside) # ">"
           /\ Beginning(inside) \in Characters /\ ">" \in Characters
BY DEF Filler, Beginning, Characters

\* Up to its first tag a text is read as it stands, or, inside a thought, not at all, and what
\* is held is the longest part of a tag there is.
LEMMA RunPlain ==
    ASSUME NEW inside \in BOOLEAN, NEW out \in Seq(Characters), NEW t \in Seq(Characters),
           NEW m \in 0..Len(t), NEW f, RunOf(f, Seen(inside, 0, out), t),
           \A j \in 1..m : \A i \in 1..j : ~Tag(inside, t, i, j)
    PROVE  \A n \in 0..m : \E h \in 0..n : /\ f[n] = Seen(inside, h, Plain(inside, out, t, n))
                                           /\ Longest(inside, t, n, h)
<1> DEFINE T == {n \in 0..m : \E h \in 0..n : /\ f[n] = Seen(inside, h, Plain(inside, out, t, n))
                                              /\ Longest(inside, t, n, h)}
<1>1. Len(t) \in Nat /\ m \in Nat /\ m <= Len(t)
  OBVIOUS
<1>2. 0 \in T
  <2>1. f[0] = Seen(inside, 0, out)
    BY <1>1 DEF RunOf
  <2>2. SubSeq(t, 1, 0) = <<>> /\ out \o <<>> = out
    BY <1>1
  <2>3. Plain(inside, out, t, 0) = out
    BY <2>2 DEF Plain
  <2>4. Longest(inside, t, 0, 0)
    BY DEF Longest, Part
  <2> QED
    BY <1>1, <2>1, <2>3, <2>4
<1>3. ASSUME NEW n \in 0..(m - 1), n \in T
      PROVE  n + 1 \in T
  <2>1. PICK h \in 0..n : /\ f[n] = Seen(inside, h, Plain(inside, out, t, n))
                          /\ Longest(inside, t, n, h)
    BY <1>3
  <2>2. PICK o : o = Plain(inside, out, t, n)
    OBVIOUS
  <2>3. PICK c \in Characters : c = t[n + 1]
    BY <1>1
  <2>4. f[n + 1] = ReadOne(Seen(inside, h, o), c)
    <3>1. n + 1 \in 0..Len(t) /\ n + 1 # 0 /\ n + 1 - 1 = n
      BY <1>1
    <3> QED
      BY <2>1, <2>2, <2>3, <3>1 DEF RunOf
  <2>5. ~(h > 0 /\ c = ">")
    <3> SUFFICES ASSUME h > 0, c = ">" PROVE FALSE
      OBVIOUS
    <3>1. n - h + 1 \in 1..(n + 1) /\ n + 1 \in 1..m /\ n - h + 1 < n + 1
      BY <1>1
    <3>2. \A k \in (n - h + 1 + 1)..(n + 1 - 1) : k \in (n - h + 2)..n
      BY <1>1
    <3>3. t[n - h + 1] = Beginning(inside) /\ \A k \in (n - h + 2)..n : t[k] \in Filler(inside)
      BY <2>1 DEF Longest, Part
    <3>4. Tag(inside, t, n - h + 1, n + 1)
      BY <2>3, <3>1, <3>2, <3>3 DEF Tag
    <3> QED
      BY <3>1, <3>4
  <2>6. PICK g : g = IF h > 0 /\ c \in Filler(inside) THEN h + 1
                     ELSE IF c = Beginning(inside) THEN 1 ELSE 0
    OBVIOUS
  <2>7. f[n + 1] = Seen(inside, g, IF inside THEN o ELSE Append(o, c))
    BY <2>4, <2>5, <2>6 DEF ReadOne, Seen
  <2>8. (IF inside THEN o ELSE Append(o, c)) = Plain(inside, out, t, n + 1)
    <3>1. CASE inside
      BY <2>2, <3>1 DEF Plain
    <3>2. CASE ~inside
      <4>1. SubSeq(t, 1, n + 1) = Append(SubSeq(t, 1, n), c)
        BY <1>1, <2>3
      <4>2. SubSeq(t, 1, n) \in Seq(Characters)
        BY <1>1
      <4>3. out \o Append(SubSeq(t, 1, n), c) = Append(out \o SubSeq(t, 1, n), c)
        BY <4>2
      <4> QED
        BY <2>2, <3>2, <4>1, <4>3 DEF Plain
    <3> QED
      BY <3>1, <3>2
  <2>9. Longest(inside, t, n + 1, g) /\ g \in 0..(n + 1)
    <3>1. g \in 0..(n + 1)
      BY <1>1, <2>6
    <3>2. Part(inside, t, n + 1, g)
      <4>1. CASE h > 0 /\ c \in Filler(inside)
        <5>1. g = h + 1 /\ n + 1 - g + 1 = n - h + 1 /\ n + 1 - g + 2 = n - h + 2
          BY <1>1, <2>6, <4>1
        <5>2. t[n - h + 1] = Beginning(inside) /\ \A k \in (n - h + 2)..n : t[k] \in Filler(inside)
          BY <2>1, <4>1 DEF Longest, Part
        <5>3. \A k \in (n - h + 2)..(n + 1) : k \in (n - h + 2)..n \/ k = n + 1
          BY <1>1
        <5> QED
          BY <2>3, <4>1, <5>1, <5>2, <5>3 DEF Part
      <4>2. CASE ~(h > 0 /\ c \in Filler(inside)) /\ c = Beginning(inside)
        <5>1. g = 1 /\ n + 1 - g + 1 = n + 1 /\ n + 1 - g + 2 = n + 2
          BY <1>1, <2>6, <4>2
        <5>4. PICK x \in Nat : x = n + 1
          <6>1. n + 1 \in Nat
            BY <1>1
          <6> QED
            BY <6>1
        <5>5. /\ t[x - g + 1] = Beginning(inside)
              /\ \A k \in (x - g + 2)..x : t[k] \in Filler(inside)
          <6>1. x - g + 1 = x /\ x - g + 2 = x + 1 /\ x \in Nat
            BY <5>1, <5>4
          <6>2. \A k \in (x + 1)..x : t[k] \in Filler(inside)
            <7>1. (x + 1)..x = {}
              BY <6>1
            <7> QED
              BY <7>1
          <6>3. t[x] = Beginning(inside)
            BY <2>3, <4>2, <5>4
          <6> QED
            BY <6>1, <6>2, <6>3
        <5>6. Part(inside, t, x, g)
          BY <5>5, Zenon DEF Part
        <5> QED
          BY <5>4, <5>6
      <4>3. CASE ~(h > 0 /\ c \in Filler(inside)) /\ c # Beginning(inside)
        BY <2>6, <4>3 DEF Part
      <4> QED
        BY <4>1, <4>2, <4>3
    <3>3. ASSUME NEW x \in 0..(n + 1), Part(inside, t, n + 1, x)
          PROVE  x <= g
      <4>1. CASE x = 0
        BY <3>1, <4>1
      <4>2. CASE x = 1
        <5>1. n + 1 - x + 1 = n + 1
          BY <1>1, <4>2
        <5>2. c = Beginning(inside)
          BY <2>3, <3>3, <4>2, <5>1 DEF Part
        <5> QED
          BY <2>6, <4>2, <5>2
      <4>3. CASE x > 1
        <5>1. /\ x - 1 \in 0..n /\ x - 1 > 0 /\ n - (x - 1) + 1 = n + 1 - x + 1
              /\ n - (x - 1) + 2 = n + 1 - x + 2 /\ n + 1 \in (n + 1 - x + 2)..(n + 1)
              /\ \A k \in (n + 1 - x + 2)..n : k \in (n + 1 - x + 2)..(n + 1)
          BY <1>1, <4>3
        <5>2. /\ t[n + 1 - x + 1] = Beginning(inside)
              /\ \A k \in (n + 1 - x + 2)..(n + 1) : t[k] \in Filler(inside)
          BY <3>3, <4>3 DEF Part
        <5>3. Part(inside, t, n, x - 1)
          BY <5>1, <5>2 DEF Part
        <5>4. x - 1 <= h /\ c \in Filler(inside)
          BY <2>1, <2>3, <5>1, <5>2, <5>3 DEF Longest
        <5> QED
          BY <2>6, <4>3, <5>4
      <4> QED
        BY <4>1, <4>2, <4>3
    <3> QED
      BY <3>1, <3>2, <3>3 DEF Longest
  <2> QED
    BY <1>1, <2>7, <2>8, <2>9
<1> HIDE DEF T
<1>4. 0..m \subseteq T
  BY <1>1, <1>2, <1>3, Induction
<1> USE DEF T
<1> QED
  BY <1>4

\* A text without a tag.
LEMMA ReadingPlain ==
    ASSUME NEW inside \in BOOLEAN, NEW out \in Seq(Characters), NEW t \in Seq(Characters), NoTag(inside, t)
    PROVE  \E h \in 0..Len(t), o \in Seq(Characters) :
              /\ Reading(Seen(inside, 0, out), t) = Seen(inside, h, o)
              /\ o = IF inside THEN out ELSE out \o t
              /\ Longest(inside, t, Len(t), h)
<1>1. Len(t) \in Nat /\ Len(t) \in 0..Len(t) /\ SubSeq(t, 1, Len(t)) = t
  OBVIOUS
<1>2. PICK f : RunOf(f, Seen(inside, 0, out), t)
  BY RunExists
<1>3. \A j \in 1..Len(t) : \A i \in 1..j : ~Tag(inside, t, i, j)
  BY <1>1 DEF NoTag
<1>4. PICK h \in 0..Len(t) : /\ f[Len(t)] = Seen(inside, h, Plain(inside, out, t, Len(t)))
                             /\ Longest(inside, t, Len(t), h)
  BY <1>1, <1>2, <1>3, RunPlain
<1>5. PICK o \in Seq(Characters) : o = IF inside THEN out ELSE out \o t
  BY ConcatProperties
<1>6. Plain(inside, out, t, Len(t)) = o
  BY <1>1, <1>5 DEF Plain
<1>7. Reading(Seen(inside, 0, out), t) = f[Len(t)]
  BY <1>2, ReadingIs
<1> QED
  BY <1>4, <1>5, <1>6, <1>7

LEMMA ReadingOne ==
    ASSUME NEW s, NEW c \in Characters
    PROVE  Reading(s, <<c>>) = ReadOne(s, c)
<1>1. <<c>> \in Seq(Characters) /\ Len(<<c>>) = 1 /\ <<c>>[1] = c
  OBVIOUS
<1>2. PICK f : RunOf(f, s, <<c>>)
  BY <1>1, RunExists
<1>3. f[0] = s /\ f[1] = ReadOne(f[0], c)
  BY <1>1, <1>2 DEF RunOf
<1> QED
  BY <1>1, <1>2, <1>3, ReadingIs

\* A run over a text passes through what is read of its beginnings.
LEMMA ReadingFrom ==
    ASSUME NEW s, NEW t \in Seq(Characters), NEW f, RunOf(f, s, t), NEW n \in 0..Len(t)
    PROVE  Reading(s, t) = Reading(f[n], SubSeq(t, n + 1, Len(t)))
<1>1. Len(t) \in Nat /\ n \in Nat /\ n <= Len(t)
  OBVIOUS
<1>2. PICK p, q : p = SubSeq(t, 1, n) /\ q = SubSeq(t, n + 1, Len(t))
  OBVIOUS
<1>3. p \in Seq(Characters) /\ Len(p) = n /\ \A i \in 1..n : p[i] = t[i]
  BY <1>1, <1>2
<1>4. q \in Seq(Characters)
  BY <1>1, <1>2
<1>5. t = p \o q
  <2>1. 1 \in 1..(Len(t) + 1) /\ n \in (1 - 1)..Len(t) /\ Len(t) \in n..Len(t)
    BY <1>1
  <2>2. SubSeq(t, 1, n) \o SubSeq(t, n + 1, Len(t)) = SubSeq(t, 1, Len(t))
    BY <2>1, ConcatAdjacentSubSeq
  <2>3. SubSeq(t, 1, Len(t)) = t
    OBVIOUS
  <2> QED
    BY <1>2, <2>2, <2>3
<1>6. PICK g : g = [i \in 0..n |-> f[i]]
  OBVIOUS
<1>7. RunOf(g, s, p)
  <2>1. \A i \in 0..n : f[i] = IF i = 0 THEN s ELSE ReadOne(f[i - 1], t[i])
    BY <1>1 DEF RunOf
  <2>2. \A i \in 0..n : i # 0 => i - 1 \in 0..n /\ i \in 1..n
    BY <1>1
  <2>3. \A i \in 0..n : g[i] = IF i = 0 THEN s ELSE ReadOne(g[i - 1], p[i])
    BY <1>3, <1>6, <2>1, <2>2
  <2> QED
    BY <1>3, <1>6, <2>3 DEF RunOf
<1>8. Reading(s, p) = f[n]
  <2>1. Reading(s, p) = g[Len(p)]
    BY <1>3, <1>7, ReadingIs
  <2> QED
    BY <1>1, <1>3, <1>6, <2>1
<1>9. Reading(s, p \o q) = Reading(Reading(s, p), q)
  BY <1>3, <1>4, ReadingConcat
<1> QED
  BY <1>2, <1>5, <1>8, <1>9

\* A text with a tag is read up to the first, then, the other way round, from behind it on.
LEMMA ReadingTag ==
    ASSUME NEW inside \in BOOLEAN, NEW out \in Seq(Characters), NEW t \in Seq(Characters),
           NEW i \in 1..Len(t), NEW j \in 1..Len(t), Tag(inside, t, i, j),
           \A g \in 1..Len(t) : \A k \in 1..Len(t) : Tag(inside, t, g, k) => i <= g
    PROVE  Reading(Seen(inside, 0, out), t)
           = Reading(Seen(~inside, 0, IF inside THEN out ELSE out \o SubSeq(t, 1, i - 1)),
                     SubSeq(t, j + 1, Len(t)))
<1>1. Len(t) \in Nat /\ i \in Nat /\ j \in Nat /\ 0 < i /\ i < j /\ j <= Len(t) /\ j - 1 \in 0..Len(t)
  BY DEF Tag
<1>2. PICK f : RunOf(f, Seen(inside, 0, out), t)
  BY RunExists
<1>3. \A k \in 1..(j - 1) : \A g \in 1..k : ~Tag(inside, t, g, k)
  <2> SUFFICES ASSUME NEW k \in 1..(j - 1), NEW g \in 1..k, Tag(inside, t, g, k) PROVE FALSE
    OBVIOUS
  <2>1. k \in 1..Len(t) /\ g \in 1..Len(t)
    BY <1>1
  <2>2. i <= g
    BY <2>1
  <2>3. g < k /\ t[k] = ">"
    BY DEF Tag
  <2>4. k \in (i + 1)..(j - 1)
    BY <1>1, <2>1, <2>2, <2>3
  <2>5. t[k] \in Filler(inside)
    BY <2>4 DEF Tag
  <2> QED
    BY <2>3, <2>5, MarksDiffer
<1>4. PICK h \in 0..(j - 1) : /\ f[j - 1] = Seen(inside, h, Plain(inside, out, t, j - 1))
                              /\ Longest(inside, t, j - 1, h)
  <2>1. PICK m \in 0..Len(t) : m = j - 1
    BY <1>1
  <2>2. \A n \in 0..m : \E h \in 0..n : /\ f[n] = Seen(inside, h, Plain(inside, out, t, n))
                                         /\ Longest(inside, t, n, h)
    <3>1. \A k \in 1..m : \A g \in 1..k : ~Tag(inside, t, g, k)
      BY <1>3, <2>1
    <3> HIDE <1>3, <2>1
    <3> QED
      BY <1>2, <3>1, RunPlain
  <2>3. m \in 0..m
    BY <1>1
  <2> QED
    BY <2>1, <2>2, <2>3
<1>5. h = j - i
  <2>1. Part(inside, t, j - 1, j - i)
    <3>1. j - 1 - (j - i) + 1 = i /\ j - 1 - (j - i) + 2 = i + 1
      BY <1>1
    <3> QED
      BY <3>1 DEF Part, Tag
  <2>2. j - i <= h
    <3>1. j - i \in 0..(j - 1)
      BY <1>1
    <3> QED
      BY <1>4, <2>1, <3>1 DEF Longest
  <2>3. h <= j - i
    <3> SUFFICES ASSUME h > j - i PROVE FALSE
      BY <1>1
    <3>1. PICK g \in 1..Len(t) : g = j - h
      <4>1. j - h \in 1..Len(t)
        BY <1>1
      <4> QED
        BY <4>1
    <3>2. g < i /\ g < j /\ h > 0 /\ j - 1 - h + 1 = g /\ j - 1 - h + 2 = g + 1
      BY <1>1, <3>1
    <3>3. t[g] = Beginning(inside) /\ \A k \in (g + 1)..(j - 1) : t[k] \in Filler(inside)
      BY <1>4, <3>2 DEF Longest, Part
    <3>4. Tag(inside, t, g, j)
      BY <3>2, <3>3 DEF Tag
    <3>5. i <= g
      BY <3>4
    <3> QED
      BY <1>1, <3>2, <3>5
  <2> QED
    BY <1>1, <2>2, <2>3
<1>6. PICK o : o = IF inside THEN out ELSE out \o SubSeq(t, 1, i - 1)
  OBVIOUS
<1>7. f[j] = Seen(~inside, 0, o)
  <2>1. PICK w : w = Plain(inside, out, t, j - 1)
    OBVIOUS
  <2>2. f[j] = ReadOne(Seen(inside, j - i, w), ">")
    <3>1. j \in 0..Len(t) /\ j # 0 /\ t[j] = ">"
      BY <1>1 DEF Tag
    <3> QED
      BY <1>2, <1>4, <1>5, <2>1, <3>1 DEF RunOf
  <2>3. CASE inside
    BY <1>1, <1>6, <2>1, <2>2, <2>3 DEF ReadOne, Seen, Plain
  <2>4. CASE ~inside
    <3>1. PICK u, v : u = SubSeq(t, 1, i - 1) /\ v = SubSeq(t, 1, j - 1)
      OBVIOUS
    <3>2. /\ u \in Seq(Characters) /\ Len(u) = i - 1 /\ \A k \in 1..(i - 1) : u[k] = t[k]
      BY <1>1, <3>1
    <3>3. /\ v \in Seq(Characters) /\ Len(v) = j - 1 /\ \A k \in 1..(j - 1) : v[k] = t[k]
      BY <1>1, <3>1
    <3>4. w = out \o v /\ o = out \o u
      BY <1>6, <2>1, <2>4, <3>1 DEF Plain
    <3>5. PICK x \in Nat : x = Len(out)
      OBVIOUS
    <3>6. /\ w \in Seq(Characters) /\ Len(w) = x + (j - 1)
          /\ \A k \in 1..(x + (j - 1)) : w[k] = IF k <= x THEN out[k] ELSE v[k - x]
      <4>1. /\ out \o v \in Seq(Characters) /\ Len(out \o v) = Len(out) + Len(v)
            /\ \A k \in 1..(Len(out) + Len(v)) :
                  (out \o v)[k] = IF k <= Len(out) THEN out[k] ELSE v[k - Len(out)]
        BY <3>3, ConcatProperties
      <4> QED
        BY <3>3, <3>4, <3>5, <4>1
    <3>7. /\ o \in Seq(Characters) /\ Len(o) = x + (i - 1)
          /\ \A k \in 1..(x + (i - 1)) : o[k] = IF k <= x THEN out[k] ELSE u[k - x]
      <4>1. /\ out \o u \in Seq(Characters) /\ Len(out \o u) = Len(out) + Len(u)
            /\ \A k \in 1..(Len(out) + Len(u)) :
                  (out \o u)[k] = IF k <= Len(out) THEN out[k] ELSE u[k - Len(out)]
        BY <3>2, ConcatProperties
      <4> QED
        BY <3>2, <3>4, <3>5, <4>1
    <3>8. SubSeq(w, 1, Len(w) - (j - i)) = o
      <4>1. PICK y : y = SubSeq(w, 1, Len(w) - (j - i))
        OBVIOUS
      <4>2. Len(w) - (j - i) = x + (i - 1) /\ x + (i - 1) \in Nat /\ x + (i - 1) <= Len(w)
        BY <1>1, <3>5, <3>6
      <4>3. /\ y \in Seq(Characters) /\ Len(y) = x + (i - 1)
            /\ \A k \in 1..(x + (i - 1)) : y[k] = w[k]
        BY <3>6, <4>1, <4>2
      <4>4. ASSUME NEW k \in 1..(x + (i - 1)) PROVE y[k] = o[k]
        <5>1. k \in 1..(x + (j - 1))
          BY <1>1, <3>5
        <5>2. CASE k <= x
          BY <3>6, <3>7, <4>3, <5>1, <5>2
        <5>3. CASE ~(k <= x)
          <6>1. k - x \in 1..(i - 1) /\ k - x \in 1..(j - 1)
            BY <1>1, <3>5, <5>3
          <6>2. w[k] = v[k - x] /\ o[k] = u[k - x]
            BY <3>6, <3>7, <5>1, <5>3
          <6> QED
            BY <3>2, <3>3, <4>3, <6>1, <6>2
        <5> QED
          BY <5>2, <5>3
      <4>5. y = o
        BY <3>7, <4>3, <4>4, SeqEqual
      <4> QED
        BY <4>1, <4>5
    <3>9. ReadOne(Seen(inside, j - i, w), ">")
          = Seen(~inside, 0, SubSeq(w, 1, Len(w) - (j - i)))
      <4>1. PICK d \in Nat : d = j - i /\ d > 0
        BY <1>1
      <4>2. ReadOne(Seen(inside, d, w), ">") = Seen(~inside, 0, SubSeq(w, 1, Len(w) - d))
        BY <2>4, <4>1 DEF ReadOne, Seen
      <4> QED
        BY <4>1, <4>2
    <3> QED
      BY <2>2, <3>8, <3>9
  <2> QED
    BY <2>3, <2>4
<1>8. Reading(Seen(inside, 0, out), t) = Reading(f[j], SubSeq(t, j + 1, Len(t)))
  BY <1>1, <1>2, ReadingFrom
<1> QED
  BY <1>6, <1>7, <1>8

\* What Search finds is the first tag.
LEMMA SearchFinds ==
    ASSUME NEW inside \in BOOLEAN, NEW b \in Seq(Characters), NEW at, at = Search(inside, b)
    PROVE  /\ at = <<>> => NoTag(inside, b)
           /\ at # <<>> =>
                 /\ at[1] \in 1..Len(b) /\ at[2] \in 1..Len(b) /\ Tag(inside, b, at[1], at[2])
                 /\ \A g \in 1..Len(b) : \A k \in 1..Len(b) : Tag(inside, b, g, k) => at[1] <= g
<1> DEFINE tags == {m \in (1..Len(b)) \X (1..Len(b)) : Tag(inside, b, m[1], m[2])}
           firsts == {m[1] : m \in tags}
<1>1. \A g \in 1..Len(b) : \A k \in 1..Len(b) : Tag(inside, b, g, k) => <<g, k>> \in tags
  OBVIOUS
<1>2. at = IF tags = {} THEN <<>> ELSE CHOOSE m \in tags : \A n \in tags : m[1] <= n[1]
  BY DEF Search
<1>3. CASE tags = {}
  BY <1>1, <1>2, <1>3 DEF NoTag
<1>4. CASE tags # {}
  <2>1. firsts \in SUBSET Nat /\ firsts # {}
    BY <1>4
  <2> HIDE DEF firsts
  <2>2. PICK x \in firsts : \A y \in firsts : x <= y
    BY <2>1, LeastNumber
  <2> USE DEF firsts
  <2>3. \E m \in tags : \A n \in tags : m[1] <= n[1]
    BY <2>2
  <2>4. at \in tags /\ \A n \in tags : at[1] <= n[1]
    <3> HIDE DEF tags
    <3> QED
      BY <1>2, <1>4, <2>3
  <2>5. at # <<>> /\ at[1] \in 1..Len(b) /\ at[2] \in 1..Len(b) /\ Tag(inside, b, at[1], at[2])
    BY <2>4
  <2>6. ASSUME NEW g \in 1..Len(b), NEW k \in 1..Len(b), Tag(inside, b, g, k)
        PROVE  at[1] <= g
    <3>1. at[1] <= <<g, k>>[1]
      BY <1>1, <2>4, <2>6
    <3> QED
      BY <3>1
  <2> QED
    BY <2>5, <2>6
<1> QED
  BY <1>3, <1>4

\* What has been shown once a text without a tag has been.
Behind(inside, out, t) == IF inside THEN out ELSE out \o t

LEMMA OneAfterTheOther ==
    ASSUME NEW r \in Seq(Characters), NEW k \in Seq(Characters), NEW before \in Seq(Characters)
    PROVE  (before \o r) \o k = before \o (r \o k)
BY ConcatAssociative

\* If the part of a tag at the end of a text lies in its last piece, reading from there on comes
\* to the same.
LEMMA ReadingLast ==
    ASSUME NEW inside \in BOOLEAN, NEW out \in Seq(Characters), NEW r \in Seq(Characters),
           NEW k \in Seq(Characters), NoTag(inside, r \o k)
    PROVE  /\ NoTag(inside, k)
           /\ Reading(Seen(inside, 0, Behind(inside, out, r)), k).out = Reading(Seen(inside, 0, out), r \o k).out
           /\ Reading(Seen(inside, 0, out), r \o k).held <= Len(k) =>
                 Reading(Seen(inside, 0, Behind(inside, out, r)), k) = Reading(Seen(inside, 0, out), r \o k)
<1>1. PICK t \in Seq(Characters), x \in Nat, y \in Nat : t = r \o k /\ x = Len(r) /\ y = Len(k)
  <2>1. r \o k \in Seq(Characters) /\ Len(r) \in Nat /\ Len(k) \in Nat
    OBVIOUS
  <2> QED
    BY <2>1
<1>2. Len(t) = x + y
  BY <1>1, ConcatProperties
<1>3. \A i \in 1..y : x + i \in 1..(x + y) /\ t[x + i] = k[i]
  <2> SUFFICES ASSUME NEW i \in 1..y PROVE x + i \in 1..(x + y) /\ t[x + i] = k[i]
    OBVIOUS
  <2>1. x + i \in 1..(x + y) /\ ~(x + i <= x) /\ x + i - x = i
    BY <1>1
  <2>2. (r \o k)[x + i] = k[x + i - x]
    BY <1>1, <2>1, ConcatProperties
  <2> QED
    BY <1>1, <2>1, <2>2
<1>4. NoTag(inside, k)
  <2> SUFFICES ASSUME NEW i \in 1..y, NEW j \in 1..y, Tag(inside, k, i, j) PROVE FALSE
    BY <1>1 DEF NoTag
  <2>1. i < j /\ k[i] = Beginning(inside) /\ k[j] = ">" /\ \A n \in (i + 1)..(j - 1) : k[n] \in Filler(inside)
    BY DEF Tag
  <2>2. x + i < x + j /\ t[x + i] = Beginning(inside) /\ t[x + j] = ">"
    BY <1>1, <1>3, <2>1
  <2>3. ASSUME NEW n \in (x + i + 1)..(x + j - 1) PROVE t[n] \in Filler(inside)
    <3>1. PICK l \in 1..y : n = x + l /\ l \in (i + 1)..(j - 1)
      <4>1. n - x \in 1..y /\ n = x + (n - x) /\ n - x \in (i + 1)..(j - 1)
        BY <1>1
      <4> QED
        BY <4>1
    <3> QED
      BY <1>3, <2>1, <3>1
  <2>4. Tag(inside, t, x + i, x + j)
    BY <2>2, <2>3 DEF Tag
  <2> QED
    BY <1>1, <1>2, <1>3, <2>4 DEF NoTag
<1>5. PICK h \in 0..(x + y), o \in Seq(Characters) :
         /\ Reading(Seen(inside, 0, out), t) = Seen(inside, h, o)
         /\ o = IF inside THEN out ELSE out \o t
         /\ Longest(inside, t, x + y, h)
  <2>1. NoTag(inside, t)
    BY <1>1
  <2>2. \E h \in 0..Len(t), o \in Seq(Characters) :
           /\ Reading(Seen(inside, 0, out), t) = Seen(inside, h, o)
           /\ o = IF inside THEN out ELSE out \o t
           /\ Longest(inside, t, Len(t), h)
    BY <2>1, ReadingPlain
  <2> QED
    BY <1>2, <2>2
<1>0. PICK v \in Seq(Characters) : v = Behind(inside, out, r)
  BY ConcatProperties DEF Behind
<1>6. PICK g \in 0..y, w \in Seq(Characters) :
         /\ Reading(Seen(inside, 0, v), k) = Seen(inside, g, w)
         /\ w = IF inside THEN v ELSE v \o k
         /\ Longest(inside, k, y, g)
  BY <1>1, <1>4, ReadingPlain
<1>7. w = o
  <2>1. (out \o r) \o k = out \o (r \o k)
    BY OneAfterTheOther
  <2> QED
    BY <1>0, <1>1, <1>5, <1>6, <2>1 DEF Behind
<1>8. \A p \in 0..y : Part(inside, k, y, p) <=> Part(inside, t, x + y, p)
  <2> SUFFICES ASSUME NEW p \in 0..y, p > 0 PROVE Part(inside, k, y, p) <=> Part(inside, t, x + y, p)
    BY DEF Part
  <2>1. y - p + 1 \in 1..y /\ x + y - p + 1 = x + (y - p + 1) /\ x + y - p + 2 = x + (y - p + 2)
    BY <1>1
  <2>2. t[x + y - p + 1] = k[y - p + 1]
    BY <1>3, <2>1
  <2>3. \A n \in (y - p + 2)..y : n \in 1..y /\ x + n \in (x + y - p + 2)..(x + y) /\ t[x + n] = k[n]
    <3>1. ASSUME NEW n \in (y - p + 2)..y
          PROVE  n \in 1..y /\ x + n \in (x + y - p + 2)..(x + y)
      BY <1>1
    <3> QED
      BY <1>3, <3>1
  <2>4. ASSUME NEW n \in (x + y - p + 2)..(x + y)
        PROVE  \E l \in (y - p + 2)..y : n = x + l /\ t[n] = k[l]
    <3>1. n - x \in (y - p + 2)..y /\ n = x + (n - x)
      BY <1>1
    <3>2. PICK l \in (y - p + 2)..y : n = x + l
      BY <3>1
    <3> QED
      BY <2>3, <3>2
  <2>5. (\A n \in (y - p + 2)..y : k[n] \in Filler(inside))
        <=> \A n \in (x + y - p + 2)..(x + y) : t[n] \in Filler(inside)
    BY <2>3, <2>4
  <2>6. Part(inside, k, y, p) <=> /\ k[y - p + 1] = Beginning(inside)
                                  /\ \A n \in (y - p + 2)..y : k[n] \in Filler(inside)
    BY DEF Part
  <2>7. Part(inside, t, x + y, p) <=> /\ t[x + y - p + 1] = Beginning(inside)
                                      /\ \A n \in (x + y - p + 2)..(x + y) : t[n] \in Filler(inside)
    BY DEF Part
  <2> QED
    BY <2>2, <2>5, <2>6, <2>7
<1>9. h <= y => h = g
  <2> SUFFICES ASSUME h <= y PROVE h = g
    OBVIOUS
  <2>1. h \in 0..y /\ g \in 0..(x + y)
    BY <1>1
  <2>2. h <= g
    BY <1>5, <1>6, <1>8, <2>1 DEF Longest
  <2>3. g <= h
    BY <1>5, <1>6, <1>8, <2>1 DEF Longest
  <2> QED
    BY <2>2, <2>3
<1>10. \A a, c : Seen(inside, a, c).out = c /\ Seen(inside, a, c).held = a
  BY DEF Seen
<1>11. Reading(Seen(inside, 0, Behind(inside, out, r)), k).out = Reading(Seen(inside, 0, out), r \o k).out
  <2>1. Reading(Seen(inside, 0, v), k).out = w
    BY <1>6, <1>10
  <2>2. Reading(Seen(inside, 0, out), t).out = o
    BY <1>5, <1>10
  <2> QED
    BY <1>0, <1>1, <1>7, <2>1, <2>2
<1>12. ASSUME Reading(Seen(inside, 0, out), r \o k).held <= Len(k)
      PROVE  Reading(Seen(inside, 0, Behind(inside, out, r)), k) = Reading(Seen(inside, 0, out), r \o k)
  <2>1. h <= y
    BY <1>1, <1>5, <1>10, <1>12
  <2>2. h = g
    BY <1>9, <2>1
  <2> QED
    BY <1>0, <1>1, <1>5, <1>6, <1>7, <2>2
<1> QED
  BY <1>4, <1>11, <1>12

-----------------------------------------------------------------------------
(* HiddenThoughts: the loop. *)

\* What the loop in _drain works on, and what there is still to read.
Drains == [buffer : Seq(Characters), inside : BOOLEAN, visible : Seq(Characters), more : BOOLEAN]
ToRead(s) == Reading(Seen(s.inside, 0, s.visible), s.buffer)

\* Inside a thought there is nothing to show, else what there is to read is what is shown.
LEMMA ReadingTail ==
    ASSUME NEW inside \in BOOLEAN, NEW out \in Seq(Characters), NEW b \in Seq(Characters), NoTag(inside, b)
    PROVE  Reading(Seen(inside, 0, out), b).out = IF inside THEN out ELSE out \o b
<1>1. PICK h \in 0..Len(b), o \in Seq(Characters) :
         /\ Reading(Seen(inside, 0, out), b) = Seen(inside, h, o)
         /\ o = IF inside THEN out ELSE out \o b
         /\ Longest(inside, b, Len(b), h)
  BY ReadingPlain
<1>2. Seen(inside, h, o).out = o
  BY DEF Seen
<1> QED
  BY <1>1, <1>2

\* What is kept of a text ends as the text does, and what is released comes before it.
LEMMA KeptIsTail ==
    ASSUME NEW b \in Seq(Characters), b # <<>>
    PROVE  /\ Kept(b) \in Seq(Characters) /\ Kept(b) # <<>>
           /\ Released(b) \in Seq(Characters)
           /\ b = Released(b) \o Kept(b)
           /\ (b = Kept(b) /\ Released(b) = <<>>) \/ Len(Kept(b)) = HIDDEN_THOUGHT_TAIL_CHARS
<1>1. HIDDEN_THOUGHT_TAIL_CHARS \in Nat /\ HIDDEN_THOUGHT_TAIL_CHARS > 0
  BY ThoughtsAssumption
<1>2. Len(b) \in Nat /\ Len(b) > 0
  OBVIOUS
<1>3. CASE Len(b) <= HIDDEN_THOUGHT_TAIL_CHARS
  <2>1. Kept(b) = b
    BY <1>3 DEF Kept
  <2>2. Released(b) = <<>>
    BY <1>2, <2>1, SubSeqEmpty DEF Released
  <2>3. <<>> \o b = b
    OBVIOUS
  <2> QED
    BY <2>1, <2>2, <2>3
<1>4. CASE Len(b) > HIDDEN_THOUGHT_TAIL_CHARS
  <2>1. PICK k \in 1..(Len(b) - 1) : k = Len(b) - HIDDEN_THOUGHT_TAIL_CHARS
    <3>1. Len(b) - HIDDEN_THOUGHT_TAIL_CHARS \in 1..(Len(b) - 1)
      BY <1>1, <1>2, <1>4
    <3> QED
      BY <3>1
  <2>2. Kept(b) = SubSeq(b, k + 1, Len(b))
    BY <1>1, <1>2, <1>4, <2>1 DEF Kept
  <2>3. /\ Kept(b) \in Seq(Characters) /\ Len(Kept(b)) = Len(b) - k
        /\ \A i \in 1..(Len(b) - k) : Kept(b)[i] = b[k + i]
    <3>1. PICK u : u = SubSeq(b, k + 1, Len(b))
      OBVIOUS
    <3>2. /\ u \in Seq(Characters) /\ Len(u) = Len(b) - (k + 1) + 1
          /\ \A i \in 1..(Len(b) - (k + 1) + 1) : u[i] = b[k + 1 + i - 1]
      BY <1>2, <2>1, <3>1, SubSeqProperties
    <3>3. Len(b) - (k + 1) + 1 = Len(b) - k /\ \A i \in 1..(Len(b) - k) : k + 1 + i - 1 = k + i
      BY <1>2, <2>1
    <3> QED
      BY <2>2, <3>1, <3>2, <3>3
  <2>4. /\ Released(b) \in Seq(Characters) /\ Len(Released(b)) = k
        /\ \A i \in 1..k : Released(b)[i] = b[i]
    <3>1. Len(b) - (Len(b) - k) = k
      BY <1>2, <2>1
    <3>2. Released(b) = SubSeq(b, 1, k)
      BY <2>3, <3>1 DEF Released
    <3> QED
      BY <1>2, <2>1, <3>2
  <2>5. PICK p, q : p = Released(b) /\ q = Kept(b)
    OBVIOUS
  <2>6. b = p \o q
    <3>1. PICK w : w = p \o q
      OBVIOUS
    <3>2. /\ w \in Seq(Characters) /\ Len(w) = Len(p) + Len(q)
          /\ \A i \in 1..(Len(p) + Len(q)) : w[i] = IF i <= Len(p) THEN p[i] ELSE q[i - Len(p)]
      BY <2>3, <2>4, <2>5, <3>1, ConcatProperties
    <3>3. Len(p) = k /\ Len(q) = Len(b) - k /\ Len(p) + Len(q) = Len(b)
      BY <1>2, <2>1, <2>3, <2>4, <2>5
    <3>4. ASSUME NEW i \in 1..Len(b)
          PROVE  w[i] = b[i]
      <4>1. CASE i <= k
        BY <1>2, <2>1, <2>4, <2>5, <3>2, <3>3, <4>1
      <4>2. CASE i > k
        <5>1. PICK j \in 1..(Len(b) - k) : i = k + j /\ i - k = j
          <6>1. i - k \in 1..(Len(b) - k) /\ i = k + (i - k)
            BY <1>2, <2>1, <4>2
          <6> QED
            BY <6>1
        <5>2. w[i] = q[i - k]
          BY <1>2, <2>1, <3>2, <3>3, <4>2
        <5> QED
          BY <2>3, <2>5, <5>1, <5>2
      <4> QED
        BY <1>2, <2>1, <4>1, <4>2
    <3>5. w = b
      BY <3>2, <3>3, <3>4
    <3> QED
      BY <3>1, <3>5
  <2>7. Len(Kept(b)) = HIDDEN_THOUGHT_TAIL_CHARS /\ Len(Kept(b)) > 0
    BY <1>1, <1>2, <2>1, <2>3
  <2>8. Kept(b) # <<>>
    BY <2>7
  <2> QED
    BY <2>3, <2>4, <2>5, <2>6, <2>7, <2>8
<1> QED
  BY <1>1, <1>2, <1>3, <1>4

\* A pass of the loop leaves what there is to read as it is, if a part of a tag at its end fits
\* the tail; the last one leaves no tag in the buffer, and any other takes one away.
LEMMA PassKeeps ==
    ASSUME NEW s \in Drains, NEW final \in BOOLEAN, NEW p, p = Pass(s, final), s.more
    PROVE  /\ p \in Drains
           /\ ToRead(p).out = ToRead(s).out
           /\ ~final /\ ToRead(s).held <= HIDDEN_THOUGHT_TAIL_CHARS => ToRead(p) = ToRead(s)
           /\ p.more => Len(p.buffer) < Len(s.buffer)
           /\ ~p.more => NoTag(p.inside, p.buffer) /\ (final => p.buffer = <<>>)
<1>1. PICK b \in Seq(Characters), in \in BOOLEAN, o \in Seq(Characters) :
         b = s.buffer /\ in = s.inside /\ o = s.visible
  BY DEF Drains
<1>2. PICK at : at = Search(in, b)
  OBVIOUS
<1>3. Len(b) \in Nat /\ ToRead(s) = Reading(Seen(in, 0, o), b)
  BY <1>1 DEF ToRead
<1>4. CASE b = <<>>
  <2>1. p = [s EXCEPT !.more = FALSE]
    BY <1>1, <1>4 DEF Pass
  <2>2. /\ p \in Drains /\ p.buffer = s.buffer /\ p.inside = s.inside /\ p.visible = s.visible
        /\ p.more = FALSE
    BY <2>1 DEF Drains
  <2>3. ToRead(p) = ToRead(s)
    BY <2>2 DEF ToRead
  <2>4. NoTag(p.inside, p.buffer)
    <3>1. p.buffer = <<>>
      BY <1>1, <1>4, <2>2
    <3>2. 1..Len(<<>>) = {}
      OBVIOUS
    <3> QED
      BY <3>1, <3>2 DEF NoTag
  <2> QED
    BY <1>1, <1>4, <2>2, <2>3, <2>4
<1>5. CASE b # <<>> /\ at # <<>>
  <2>1. PICK i \in 1..Len(b), j \in 1..Len(b) :
           /\ i = at[1] /\ j = at[2] /\ Tag(in, b, i, j)
           /\ \A g \in 1..Len(b) : \A k \in 1..Len(b) : Tag(in, b, g, k) => i <= g
    BY <1>2, <1>5, SearchFinds
  <2>2. PICK v : v = IF in THEN o ELSE o \o SubSeq(b, 1, i - 1)
    OBVIOUS
  <2>3. PICK q : q = SubSeq(b, j + 1, Len(b))
    OBVIOUS
  <2>4. PICK out \in BOOLEAN : out = ~in
    OBVIOUS
  <2>5. p = [buffer |-> q, inside |-> out, more |-> TRUE, visible |-> v]
    BY <1>1, <1>2, <1>5, <2>1, <2>2, <2>3, <2>4 DEF Pass
  <2>6. v \in Seq(Characters)
    <3>1. SubSeq(b, 1, i - 1) \in Seq(Characters)
      BY <1>3
    <3> QED
      BY <2>2, <3>1
  <2>7. q \in Seq(Characters) /\ Len(q) < Len(b)
    BY <1>3, <2>3
  <2>8. p \in Drains
    BY <2>5, <2>6, <2>7 DEF Drains
  <2>9. p.buffer = q /\ p.inside = out /\ p.visible = v /\ p.more = TRUE
    BY <2>5
  <2>10. Reading(Seen(in, 0, o), b) = Reading(Seen(~in, 0, v), q)
    <3>1. Tag(in, b, i, j) /\ \A g \in 1..Len(b) : \A k \in 1..Len(b) : Tag(in, b, g, k) => i <= g
      BY <2>1
    <3> HIDE <1>1, <1>2, <1>5, <2>1
    <3>2. Reading(Seen(in, 0, o), b)
          = Reading(Seen(~in, 0, IF in THEN o ELSE o \o SubSeq(b, 1, i - 1)), SubSeq(b, j + 1, Len(b)))
      BY <3>1, ReadingTag
    <3> QED
      BY <2>2, <2>3, <3>2
  <2>11. ToRead(p) = ToRead(s)
    BY <1>3, <2>4, <2>9, <2>10 DEF ToRead
  <2> QED
    BY <1>1, <2>7, <2>8, <2>9, <2>11
<1>6. CASE b # <<>> /\ at = <<>>
  <2>1. NoTag(in, b)
    BY <1>2, <1>6, SearchFinds
  <2>2. PICK q, v : /\ q = (IF final THEN <<>> ELSE Kept(b))
                    /\ v = IF in THEN o ELSE o \o (IF final THEN b ELSE Released(b))
    OBVIOUS
  <2>3. p = [buffer |-> q, inside |-> in, more |-> FALSE, visible |-> v]
    BY <1>1, <1>2, <1>6, <2>2 DEF Pass
  <2>4. PICK r \in Seq(Characters), k \in Seq(Characters) :
           /\ r = Released(b) /\ k = Kept(b) /\ b = r \o k
           /\ (b = k /\ r = <<>>) \/ Len(k) = HIDDEN_THOUGHT_TAIL_CHARS
    BY <1>6, KeptIsTail
  <2>5. q \in Seq(Characters) /\ v \in Seq(Characters)
    BY <2>2, <2>4
  <2>6. p \in Drains
    BY <2>3, <2>5 DEF Drains
  <2>7. p.buffer = q /\ p.inside = in /\ p.visible = v /\ p.more = FALSE
    BY <2>3
  <2>8. ToRead(p) = Reading(Seen(in, 0, v), q)
    BY <2>7 DEF ToRead
  <2>9. CASE final
    <3>1. q = <<>> /\ v = IF in THEN o ELSE o \o b
      BY <2>2, <2>9
    <3>2. ToRead(p).out = v
      <4>1. ToRead(p) = Seen(in, 0, v)
        BY <2>8, <3>1, ReadingNothing
      <4> QED
        BY <4>1 DEF Seen
    <3>3. ToRead(s).out = v
      <4>1. Reading(Seen(in, 0, o), b).out = IF in THEN o ELSE o \o b
        BY <2>1, ReadingTail
      <4> QED
        BY <1>3, <3>1, <4>1
    <3>4. NoTag(p.inside, p.buffer)
      BY <2>7, <3>1 DEF NoTag
    <3> QED
      BY <2>6, <2>7, <2>9, <3>1, <3>2, <3>3, <3>4
  <2>10. CASE ~final
    <3>1. q = k
      BY <2>2, <2>4, <2>10
    <3>2. v \in Seq(Characters) /\ v = IF in THEN o ELSE o \o r
      BY <2>2, <2>4, <2>5, <2>10
    <3>3. NoTag(in, r \o k)
      BY <2>1, <2>4
    <3>4. /\ NoTag(in, k)
          /\ Reading(Seen(in, 0, v), k).out = Reading(Seen(in, 0, o), r \o k).out
          /\ Reading(Seen(in, 0, o), r \o k).held <= Len(k) =>
                Reading(Seen(in, 0, v), k) = Reading(Seen(in, 0, o), r \o k)
      <4>1. in \in BOOLEAN /\ o \in Seq(Characters) /\ r \in Seq(Characters) /\ k \in Seq(Characters)
        OBVIOUS
      <4>2. v = Behind(in, o, r)
        BY <3>2 DEF Behind
      <4> HIDE <1>1, <1>2, <1>6, <2>2, <2>4
      <4>3. /\ NoTag(in, k)
            /\ Reading(Seen(in, 0, Behind(in, o, r)), k).out = Reading(Seen(in, 0, o), r \o k).out
            /\ Reading(Seen(in, 0, o), r \o k).held <= Len(k) =>
                  Reading(Seen(in, 0, Behind(in, o, r)), k) = Reading(Seen(in, 0, o), r \o k)
        BY <3>3, <4>1, ReadingLast
      <4> QED
        BY <4>2, <4>3
    <3>5. ToRead(p) = Reading(Seen(in, 0, v), k) /\ ToRead(s) = Reading(Seen(in, 0, o), r \o k)
      BY <1>3, <2>4, <2>8, <3>1
    <3>6. ASSUME ToRead(s).held <= HIDDEN_THOUGHT_TAIL_CHARS
          PROVE  ToRead(p) = ToRead(s)
      <4>1. CASE Len(k) = HIDDEN_THOUGHT_TAIL_CHARS
        BY <3>4, <3>5, <3>6, <4>1
      <4>2. CASE b = k /\ r = <<>>
        <5>1. v = o
          <6>1. o \o r = o
            BY <4>2
          <6> QED
            BY <3>2, <6>1
        <5> QED
          BY <1>3, <3>5, <4>2, <5>1
      <4> QED
        BY <2>4, <4>1, <4>2
    <3>7. NoTag(p.inside, p.buffer)
      BY <2>7, <3>1, <3>4
    <3> QED
      BY <2>6, <2>7, <2>10, <3>4, <3>5, <3>6, <3>7
  <2> QED
    BY <2>9, <2>10
<1> QED
  BY <1>4, <1>5, <1>6

\* What holds of a pass holds of the loop, and the loop ends: with nothing held back that a tag
\* could be made of, or with nothing at all.
LEMMA DrainKeeps ==
    ASSUME NEW s \in Drains, s.more, NEW final \in BOOLEAN, NEW e, e = Drain(s, final)
    PROVE  /\ e \in Drains
           /\ ToRead(e).out = ToRead(s).out
           /\ ~final /\ ToRead(s).held <= HIDDEN_THOUGHT_TAIL_CHARS => ToRead(e) = ToRead(s)
           /\ NoTag(e.inside, e.buffer)
           /\ final => e.buffer = <<>>
<1> DEFINE N == Len(s.buffer) + 1
<1>1. N \in Nat
  BY DEF Drains
<1>2. \A p \in Drains : Pass(p, final) \in Drains
  <2> SUFFICES ASSUME NEW p \in Drains PROVE Pass(p, final) \in Drains
    OBVIOUS
  <2>1. CASE p.more
    BY <2>1, PassKeeps
  <2>2. CASE ~p.more
    <3>1. Pass(p, final) = [p EXCEPT !.more = FALSE]
      BY <2>2 DEF Pass
    <3> QED
      BY <3>1 DEF Drains
  <2> QED
    BY <2>1, <2>2
<1>3. PICK F \in [Drains -> Drains] : \A p \in Drains : F[p] = Pass(p, final)
  <2>1. [p \in Drains |-> Pass(p, final)] \in [Drains -> Drains]
    BY <1>2
  <2> QED
    BY <2>1
<1> DEFINE Passes(f) == f = [n \in 0..N |-> IF n = 0 THEN s ELSE Pass(f[n - 1], final)]
           passed == CHOOSE f : Passes(f)
<1>4. Passes(passed)
  <2>1. PICK f \in [0..N -> Drains] : f[0] = s /\ \A i \in 1..N : f[i] = F[f[i - 1]]
    <3> HIDE DEF N
    <3>1. \E f \in [0..N -> Drains] : Repeats(f, N, s, F)
      BY <1>1, <1>3, Repeated
    <3> QED
      BY <3>1 DEF Repeats
  <2>2. \A i \in 1..N : F[f[i - 1]] = Pass(f[i - 1], final)
    <3> HIDE DEF N
    <3>1. \A i \in 1..N : i - 1 \in 0..N
      BY <1>1
    <3> QED
      BY <1>3, <3>1
  <2>3. Passes(f)
    <3> HIDE DEF N
    <3>1. \A i \in 0..N : f[i] = IF i = 0 THEN s ELSE Pass(f[i - 1], final)
      BY <1>1, <2>1, <2>2
    <3> QED
      BY <2>1, <3>1
  <2> HIDE DEF Passes
  <2> QED
    BY <2>3
<1>5. e = passed[N]
  BY DEF Drain
<1> HIDE DEF passed
<1>6. passed[0] = s /\ \A n \in 0..(N - 1) : passed[n + 1] = Pass(passed[n], final)
  <2> HIDE DEF N
  <2>1. \A n \in 0..(N - 1) : n + 1 \in 0..N /\ n + 1 # 0 /\ n + 1 - 1 = n
    BY <1>1
  <2> QED
    BY <1>1, <1>4, <2>1
<1> DEFINE Good(p, n) == /\ p \in Drains
                         /\ ToRead(p).out = ToRead(s).out
                         /\ ~final /\ ToRead(s).held <= HIDDEN_THOUGHT_TAIL_CHARS => ToRead(p) = ToRead(s)
                         /\ p.more => Len(p.buffer) + n <= Len(s.buffer)
                         /\ ~p.more => NoTag(p.inside, p.buffer) /\ (final => p.buffer = <<>>)
           T == {n \in 0..N : Good(passed[n], n)}
<1>7. 0 \in T
  <2>1. Len(s.buffer) + 0 <= Len(s.buffer)
    BY <1>1 DEF Drains
  <2> QED
    BY <1>1, <1>6, <2>1
<1>8. ASSUME NEW n \in 0..(N - 1), n \in T
      PROVE  n + 1 \in T
  <2>1. PICK p, q : p = passed[n] /\ q = passed[n + 1]
    OBVIOUS
  <2>2. q = Pass(p, final) /\ Good(p, n)
    BY <1>6, <1>8, <2>1
  <2>3. Good(q, n + 1)
    <3>1. CASE p.more
      <4>1. /\ q \in Drains /\ ToRead(q).out = ToRead(p).out
            /\ ~final /\ ToRead(p).held <= HIDDEN_THOUGHT_TAIL_CHARS => ToRead(q) = ToRead(p)
            /\ q.more => Len(q.buffer) < Len(p.buffer)
            /\ ~q.more => NoTag(q.inside, q.buffer) /\ (final => q.buffer = <<>>)
        BY <2>2, <3>1, PassKeeps
      <4>2. Len(q.buffer) \in Nat /\ Len(p.buffer) \in Nat /\ Len(s.buffer) \in Nat
        BY <2>2, <4>1 DEF Drains
      <4>3. q.more => Len(q.buffer) + (n + 1) <= Len(s.buffer)
        <5>1. ASSUME q.more PROVE Len(q.buffer) + (n + 1) <= Len(s.buffer)
          <6>1. Len(q.buffer) < Len(p.buffer) /\ Len(p.buffer) + n <= Len(s.buffer)
            BY <2>2, <3>1, <4>1, <5>1
          <6>2. PICK x \in Nat, y \in Nat, z \in Nat :
                   x = Len(q.buffer) /\ y = Len(p.buffer) /\ z = Len(s.buffer)
            BY <4>2
          <6>3. n \in Int /\ x < y /\ y + n <= z
            BY <1>1, <6>1, <6>2
          <6>4. x + (n + 1) <= z
            BY <6>3
          <6> QED
            BY <6>2, <6>4
        <5> QED
          BY <5>1
      <4> QED
        BY <2>2, <4>1, <4>3
    <3>2. CASE ~p.more
      <4>1. q = [p EXCEPT !.more = FALSE]
        BY <2>2, <3>2 DEF Pass
      <4>2. p \in Drains
        BY <2>2
      <4>3. /\ q \in Drains /\ q.buffer = p.buffer /\ q.inside = p.inside /\ q.visible = p.visible
            /\ q.more = FALSE
        BY <4>1, <4>2 DEF Drains
      <4>4. ToRead(q) = ToRead(p)
        BY <4>3 DEF ToRead
      <4> QED
        BY <2>2, <3>2, <4>3, <4>4
    <3> QED
      BY <3>1, <3>2
  <2>4. n + 1 \in 0..N
    BY <1>1
  <2> HIDE DEF Good, N
  <2> QED
    BY <2>1, <2>3, <2>4
<1> HIDE DEF T
<1>9. 0..N \subseteq T
  <2> HIDE DEF N
  <2> QED
    BY <1>1, <1>7, <1>8, Induction
<1> USE DEF T
<1>10. Good(e, N)
  <2>1. N \in 0..N
    BY <1>1
  <2> HIDE DEF N, Good
  <2> QED
    BY <1>5, <1>9, <2>1
<1>11. ~e.more
  <2> SUFFICES ASSUME e.more PROVE FALSE
    OBVIOUS
  <2>1. Len(e.buffer) + N <= Len(s.buffer) /\ e \in Drains
    BY <1>10
  <2>2. Len(e.buffer) \in Nat /\ Len(s.buffer) \in Nat
    BY <2>1 DEF Drains
  <2>3. PICK x \in Nat, z \in Nat : x = Len(e.buffer) /\ z = Len(s.buffer)
    BY <2>2
  <2>4. x + (z + 1) <= z
    BY <2>1, <2>3
  <2> QED
    BY <2>4
<1> QED
  BY <1>10, <1>11

-----------------------------------------------------------------------------
(* HiddenThoughts: the filter. *)

\* As long as no tag has outgrown the tail, what the model has written reads, thoughts left out,
\* as what has been shown followed by what the filter holds, which has no tag in it; at the end it
\* holds nothing.
ThoughtsType ==
    /\ filter \in [buffer : Seq(Characters), inside : BOOLEAN]
    /\ shown \in Seq(Characters)
    /\ written \in Seq(Characters)
    /\ textEnded \in BOOLEAN

Held == Reading(Seen(filter.inside, 0, shown), filter.buffer)

ThoughtsInv ==
    /\ ThoughtsType
    /\ NoTag(filter.inside, filter.buffer)
    /\ textEnded => filter.buffer = <<>>
    /\ TagsFit(written) => /\ Visible(written) = Held.out
                           /\ ~textEnded => Reading(Unread, written) = Held

\* What fits the tail did so before the last piece came.
LEMMA FitsBefore ==
    ASSUME NEW w \in Seq(Characters), NEW piece \in Seq(Characters), TagsFit(w \o piece)
    PROVE  /\ TagsFit(w)
           /\ Reading(Unread, w \o piece).held <= HIDDEN_THOUGHT_TAIL_CHARS
<1>1. PICK u \in Seq(Characters), x \in Nat, y \in Nat : u = w \o piece /\ x = Len(w) /\ y = Len(piece)
  <2>1. w \o piece \in Seq(Characters) /\ Len(w) \in Nat /\ Len(piece) \in Nat
    OBVIOUS
  <2> QED
    BY <2>1
<1>2. Len(u) = x + y /\ \A i \in 1..x : u[i] = w[i]
  <2>1. /\ Len(w \o piece) = Len(w) + Len(piece)
        /\ \A i \in 1..(Len(w) + Len(piece)) :
              (w \o piece)[i] = IF i <= Len(w) THEN w[i] ELSE piece[i - Len(w)]
    BY ConcatProperties
  <2> QED
    BY <1>1, <2>1
<1>3. ASSUME NEW n \in 0..x PROVE SubSeq(w, 1, n) = SubSeq(u, 1, n)
  <2>1. PICK a, c : a = SubSeq(w, 1, n) /\ c = SubSeq(u, 1, n)
    OBVIOUS
  <2>2. a \in Seq(Characters) /\ Len(a) = n /\ \A i \in 1..n : a[i] = w[i]
    BY <1>1, <2>1
  <2>3. c \in Seq(Characters) /\ Len(c) = n /\ \A i \in 1..n : c[i] = u[i]
    BY <1>1, <1>2, <2>1
  <2>4. \A i \in 1..n : a[i] = c[i]
    BY <1>1, <1>2, <2>2, <2>3
  <2>5. a = c
    BY <2>2, <2>3, <2>4, SeqEqual
  <2> QED
    BY <2>1, <2>5
<1>4. \A n \in 0..(x + y) : Reading(Unread, SubSeq(u, 1, n)).held <= HIDDEN_THOUGHT_TAIL_CHARS
  BY <1>1, <1>2 DEF TagsFit
<1>5. ASSUME NEW n \in 0..x
      PROVE  Reading(Unread, SubSeq(w, 1, n)).held <= HIDDEN_THOUGHT_TAIL_CHARS
  <2>1. n \in 0..(x + y)
    BY <1>1
  <2> QED
    BY <1>3, <1>4, <2>1
<1>6. TagsFit(w)
  BY <1>1, <1>5 DEF TagsFit
<1>7. SubSeq(u, 1, x + y) = u /\ x + y \in 0..(x + y)
  BY <1>1, <1>2
<1> QED
  BY <1>1, <1>4, <1>6, <1>7

LEMMA DrainInit ==
    ASSUME NEW piece \in Seq(Characters), ThoughtsType,
           NEW s, s = [buffer |-> filter.buffer \o piece, inside |-> filter.inside,
                       visible |-> shown, more |-> TRUE]
    PROVE  /\ s \in Drains /\ s.more
           /\ ToRead(s) = Reading(Held, piece)
<1>1. PICK b \in Seq(Characters), in \in BOOLEAN, o \in Seq(Characters) :
         b = filter.buffer /\ in = filter.inside /\ o = shown
  BY DEF ThoughtsType
<1>2. PICK c \in Seq(Characters) : c = b \o piece
  <2>1. b \o piece \in Seq(Characters)
    BY <1>1
  <2> QED
    BY <2>1
<1>3. s = [buffer |-> c, inside |-> in, visible |-> o, more |-> TRUE]
  BY <1>1, <1>2
<1>4. s \in Drains /\ s.more /\ s.buffer = c /\ s.inside = in /\ s.visible = o
  <2>1. s.more = TRUE /\ s.buffer = c /\ s.inside = in /\ s.visible = o
    BY <1>3
  <2>2. s \in Drains
    BY <1>1, <1>2, <1>3 DEF Drains
  <2> QED
    BY <2>1, <2>2
<1>5. ToRead(s) = Reading(Seen(in, 0, o), b \o piece)
  BY <1>2, <1>4 DEF ToRead
<1>6. Reading(Seen(in, 0, o), b \o piece) = Reading(Reading(Seen(in, 0, o), b), piece)
  BY ReadingConcat
<1> QED
  BY <1>1, <1>4, <1>5, <1>6 DEF Held

\* What the loop makes of the filter is what it is afterwards.
LEMMA ShowsEnd ==
    ASSUME NEW b, NEW final \in BOOLEAN, ThoughtsType, Show(b, final),
           NEW s, s = [buffer |-> b, inside |-> filter.inside, visible |-> shown, more |-> TRUE],
           s \in Drains
    PROVE  \E e \in Drains :
              /\ e = Drain(s, final)
              /\ filter' = [buffer |-> e.buffer, inside |-> e.inside] /\ shown' = e.visible
              /\ filter'.buffer = e.buffer /\ filter'.inside = e.inside
              /\ filter' \in [buffer : Seq(Characters), inside : BOOLEAN]
              /\ shown' \in Seq(Characters)
              /\ Held' = ToRead(e)
<1>1. PICK e : e = Drain(s, final)
  OBVIOUS
<1>2. s.more
  OBVIOUS
<1>3. e \in Drains
  BY <1>1, <1>2, DrainKeeps
<1>4. filter' = [buffer |-> e.buffer, inside |-> e.inside] /\ shown' = e.visible
  BY <1>1 DEF Show
<1>5. filter'.buffer = e.buffer /\ filter'.inside = e.inside
  BY <1>4
<1>6. filter' \in [buffer : Seq(Characters), inside : BOOLEAN] /\ shown' \in Seq(Characters)
  BY <1>3, <1>4 DEF Drains
<1>7. Held' = ToRead(e)
  BY <1>4, <1>5 DEF Held, ToRead
<1> QED
  BY <1>1, <1>3, <1>4, <1>5, <1>6, <1>7

LEMMA FeedKeeps ==
    ASSUME ThoughtsInv, Feed
    PROVE  ThoughtsInv'
<1>1. PICK text \in Characters \cup (Characters \X Characters) :
         LET piece == IF text \in Characters THEN <<text>> ELSE text IN
         /\ ~textEnded
         /\ written' = written \o piece
         /\ Show(filter.buffer \o piece, FALSE)
         /\ UNCHANGED textEnded
  BY DEF Feed
<1>2. PICK piece : piece = IF text \in Characters THEN <<text>> ELSE text
  OBVIOUS
<1>3. piece \in Seq(Characters)
  <2>1. CASE text \in Characters
    BY <1>2, <2>1
  <2>2. CASE text \notin Characters
    <3>1. piece = text /\ text \in Characters \X Characters
      BY <1>2, <2>2
    <3>2. PICK c \in Characters, d \in Characters : text = <<c, d>>
      BY <3>1
    <3> QED
      BY <3>1, <3>2
  <2> QED
    BY <2>1, <2>2
<1>4. ~textEnded /\ ~textEnded' /\ written' = written \o piece /\ Show(filter.buffer \o piece, FALSE)
      /\ textEnded' \in BOOLEAN
  <2>1. /\ ~textEnded /\ written' = written \o piece /\ Show(filter.buffer \o piece, FALSE)
        /\ textEnded' = textEnded
    BY <1>1, <1>2
  <2>2. textEnded \in BOOLEAN
    BY DEF ThoughtsInv, ThoughtsType
  <2> QED
    BY <2>1, <2>2
<1>5. ThoughtsType
  BY DEF ThoughtsInv
<1>6. PICK s : s = [buffer |-> filter.buffer \o piece, inside |-> filter.inside,
                    visible |-> shown, more |-> TRUE]
  OBVIOUS
<1>7. s \in Drains /\ s.more /\ ToRead(s) = Reading(Held, piece)
  BY <1>3, <1>5, <1>6, DrainInit
<1>8. PICK e \in Drains :
         /\ e = Drain(s, FALSE)
         /\ filter'.buffer = e.buffer /\ filter'.inside = e.inside
         /\ filter' \in [buffer : Seq(Characters), inside : BOOLEAN]
         /\ shown' \in Seq(Characters)
         /\ Held' = ToRead(e)
  BY <1>4, <1>5, <1>6, <1>7, ShowsEnd
<1>9. /\ NoTag(e.inside, e.buffer)
      /\ ToRead(s).held <= HIDDEN_THOUGHT_TAIL_CHARS => ToRead(e) = ToRead(s)
  BY <1>7, <1>8, DrainKeeps
<1>10. ThoughtsType'
  <2>1. written \o piece \in Seq(Characters)
    BY <1>3, <1>5 DEF ThoughtsType
  <2> QED
    BY <1>4, <1>8, <2>1 DEF ThoughtsType
<1>11. PICK w \in Seq(Characters) : w = written
  BY <1>5 DEF ThoughtsType
<1>12. ASSUME TagsFit(w \o piece)
       PROVE  Reading(Unread, w \o piece) = Held'
  <2>1. TagsFit(w) /\ Reading(Unread, w \o piece).held <= HIDDEN_THOUGHT_TAIL_CHARS
    BY <1>3, <1>12, FitsBefore
  <2>2. Reading(Unread, w \o piece) = Reading(Reading(Unread, w), piece)
    BY <1>3, ReadingConcat
  <2>3. Reading(Unread, w) = Held
    BY <1>4, <1>11, <2>1 DEF ThoughtsInv
  <2>4. Reading(Unread, w \o piece) = ToRead(s)
    BY <1>7, <2>2, <2>3
  <2> QED
    BY <1>8, <1>9, <2>1, <2>4
<1>13. NoTag(filter.inside, filter.buffer)'
  <2>1. NoTag(filter'.inside, filter'.buffer)
    BY <1>8, <1>9
  <2> QED
    BY <2>1 DEF NoTag, Tag
<1>14. TagsFit(written') => Reading(Unread, written') = Held' /\ Visible(written') = Held'.out
  BY <1>4, <1>11, <1>12 DEF Visible
<1>15. /\ (Visible(written))' = Visible(written') /\ (TagsFit(written))' = TagsFit(written')
       /\ (Reading(Unread, written))' = Reading(Unread, written')
  BY DEF Visible, TagsFit, Reading, Unread, ReadOne
<1> QED
  BY <1>4, <1>10, <1>13, <1>14, <1>15 DEF ThoughtsInv

LEMMA FlushKeeps ==
    ASSUME ThoughtsInv, Flush
    PROVE  ThoughtsInv'
<1>1. Show(filter.buffer, TRUE) /\ textEnded' = TRUE /\ written' = written
  BY DEF Flush
<1>2. ThoughtsType
  BY DEF ThoughtsInv
<1>3. PICK s : s = [buffer |-> filter.buffer, inside |-> filter.inside, visible |-> shown, more |-> TRUE]
  OBVIOUS
<1>4. s \in Drains /\ s.more /\ ToRead(s) = Held
  <2>1. s \in Drains
    BY <1>2, <1>3 DEF Drains, ThoughtsType
  <2>2. s.buffer = filter.buffer /\ s.inside = filter.inside /\ s.visible = shown /\ s.more
    BY <1>3
  <2> QED
    BY <2>1, <2>2 DEF ToRead, Held
<1>5. PICK e \in Drains :
         /\ e = Drain(s, TRUE)
         /\ filter'.buffer = e.buffer /\ filter'.inside = e.inside
         /\ filter' \in [buffer : Seq(Characters), inside : BOOLEAN]
         /\ shown' \in Seq(Characters)
         /\ Held' = ToRead(e)
  BY <1>1, <1>2, <1>3, <1>4, ShowsEnd
<1>6. ToRead(e).out = ToRead(s).out /\ NoTag(e.inside, e.buffer) /\ e.buffer = <<>>
  BY <1>4, <1>5, DrainKeeps
<1>7. ThoughtsType'
  BY <1>1, <1>2, <1>5 DEF ThoughtsType
<1>8. NoTag(filter.inside, filter.buffer)'
  <2>1. NoTag(filter'.inside, filter'.buffer)
    BY <1>5, <1>6
  <2> QED
    BY <2>1 DEF NoTag, Tag
<1>9. TagsFit(written) => Visible(written) = Held.out
  BY DEF ThoughtsInv
<1>10. Visible(written)' = Visible(written) /\ TagsFit(written)' = TagsFit(written)
  BY <1>1 DEF Visible, TagsFit
<1>11. filter'.buffer = <<>> /\ Held'.out = Held.out
  BY <1>4, <1>5, <1>6
<1> QED
  BY <1>1, <1>7, <1>8, <1>9, <1>10, <1>11 DEF ThoughtsInv

\* One more character can only take back what the filter holds.
LEMMA InvHides ==
    ASSUME ThoughtsInv
    PROVE  ThoughtsStayHidden
<1> SUFFICES ASSUME TagsFit(written) PROVE OnlyTheRestShown
  BY DEF ThoughtsStayHidden
<1>1. PICK b \in Seq(Characters), in \in BOOLEAN, o \in Seq(Characters), w \in Seq(Characters) :
         b = filter.buffer /\ in = filter.inside /\ o = shown /\ w = written
  BY DEF ThoughtsInv, ThoughtsType
<1>2. NoTag(in, b)
  BY <1>1 DEF ThoughtsInv
<1>3. CASE textEnded
  <2>1. b = <<>> /\ Visible(written) = Held.out
    BY <1>1, <1>3 DEF ThoughtsInv
  <2>2. Held = Seen(in, 0, o)
    BY <1>1, <2>1, ReadingNothing DEF Held
  <2>3. Held.out = o
    BY <2>2 DEF Seen
  <2> QED
    BY <1>1, <1>3, <2>1, <2>3 DEF OnlyTheRestShown
<1>4. CASE ~textEnded
  <2>1. SUFFICES ASSUME NEW more \in Characters
                 PROVE  Starts(o, Visible(Append(w, more)))
    BY <1>1, <1>4 DEF OnlyTheRestShown
  <2>2. PICK h \in 0..Len(b), u \in Seq(Characters) :
           /\ Reading(Seen(in, 0, o), b) = Seen(in, h, u)
           /\ u = IF in THEN o ELSE o \o b
           /\ Longest(in, b, Len(b), h)
    BY <1>2, ReadingPlain
  <2>3. Reading(Unread, w) = Seen(in, h, u)
    BY <1>1, <1>4, <2>2 DEF ThoughtsInv, Held
  <2>4. Reading(Unread, w \o <<more>>) = ReadOne(Seen(in, h, u), more)
    <3>1. <<more>> \in Seq(Characters)
      OBVIOUS
    <3>2. Reading(Unread, w \o <<more>>) = Reading(Reading(Unread, w), <<more>>)
      BY <3>1, ReadingConcat
    <3> QED
      BY <2>3, <3>2, ReadingOne
  <2>5. Append(w, more) = w \o <<more>>
    OBVIOUS
  <2>6. Visible(Append(w, more)) = ReadOne(Seen(in, h, u), more).out
    BY <2>4, <2>5 DEF Visible
  <2>7. CASE h > 0 /\ more = ">"
    <3>1. ReadOne(Seen(in, h, u), more).out = IF in THEN u ELSE SubSeq(u, 1, Len(u) - h)
      BY <2>7 DEF ReadOne, Seen
    <3>2. CASE in
      <4>1. SubSeq(o, 1, Len(o)) = o /\ Len(o) \in Nat
        OBVIOUS
      <4>2. Visible(Append(w, more)) = o
        BY <2>2, <2>6, <3>1, <3>2
      <4> QED
        BY <4>1, <4>2 DEF Starts
    <3>3. CASE ~in
      <4>1. u = o \o b
        BY <2>2, <3>3
      <4>2. PICK v : v = SubSeq(u, 1, Len(u) - h)
        OBVIOUS
      <4>3. /\ Len(v) >= Len(o) /\ Len(o) \in Nat /\ v \in Seq(Characters)
            /\ \A i \in 1..Len(o) : v[i] = o[i]
        <5>1. PICK x \in Nat, y \in Nat : x = Len(o) /\ y = Len(b) /\ h <= y
          BY <2>2
        <5>2. /\ Len(o \o b) = Len(o) + Len(b)
              /\ \A i \in 1..(Len(o) + Len(b)) : (o \o b)[i] = IF i <= Len(o) THEN o[i] ELSE b[i - Len(o)]
          BY ConcatProperties
        <5>3. Len(u) = x + y /\ \A i \in 1..x : u[i] = o[i]
          BY <4>1, <5>1, <5>2
        <5>4. Len(u) - h \in Nat /\ Len(u) - h >= x /\ Len(u) - h <= Len(u)
          BY <5>1, <5>3
        <5>5. v \in Seq(Characters) /\ Len(v) = Len(u) - h /\ \A i \in 1..(Len(u) - h) : v[i] = u[i]
          BY <4>2, <5>4
        <5>6. \A i \in 1..x : v[i] = o[i]
          BY <5>1, <5>3, <5>4, <5>5
        <5> QED
          BY <5>1, <5>4, <5>5, <5>6
      <4>4. SubSeq(v, 1, Len(o)) = o
        <5>1. v \in Seq(Characters)
          BY <4>3
        <5>2. PICK x : x = SubSeq(v, 1, Len(o))
          OBVIOUS
        <5>3. x \in Seq(Characters) /\ Len(x) = Len(o) /\ \A i \in 1..Len(o) : x[i] = v[i]
          BY <4>3, <5>1, <5>2
        <5>4. x = o
          BY <4>3, <5>3
        <5> QED
          BY <5>2, <5>4
      <4>5. Starts(o, v)
        BY <4>3, <4>4 DEF Starts
      <4>6. Visible(Append(w, more)) = v
        BY <2>6, <3>1, <3>3, <4>2
      <4> QED
        BY <4>5, <4>6
    <3> QED
      BY <3>2, <3>3
  <2>8. CASE ~(h > 0 /\ more = ">")
    <3>1. ReadOne(Seen(in, h, u), more).out = IF in THEN u ELSE Append(u, more)
      <4> HIDE <2>2
      <4> QED
        BY <2>8 DEF ReadOne, Seen
    <3>2. CASE in
      <4>1. SubSeq(o, 1, Len(o)) = o /\ Len(o) \in Nat
        OBVIOUS
      <4>2. Visible(Append(w, more)) = o
        BY <2>2, <2>6, <3>1, <3>2
      <4> QED
        BY <4>1, <4>2 DEF Starts
    <3>3. CASE ~in
      <4>1. u = o \o b
        BY <2>2, <3>3
      <4>2. PICK v : v = Append(u, more)
        OBVIOUS
      <4>3. /\ v \in Seq(Characters) /\ Len(v) >= Len(o) /\ Len(o) \in Nat
            /\ \A i \in 1..Len(o) : v[i] = o[i]
        BY <2>2, <4>1, <4>2
      <4>4. SubSeq(v, 1, Len(o)) = o
        <5>2. PICK x : x = SubSeq(v, 1, Len(o))
          OBVIOUS
        <5>3. x \in Seq(Characters) /\ Len(x) = Len(o) /\ \A i \in 1..Len(o) : x[i] = v[i]
          BY <4>3, <5>2
        <5>4. x = o
          BY <4>3, <5>3
        <5> QED
          BY <5>2, <5>4
      <4>5. Starts(o, v)
        BY <4>3, <4>4 DEF Starts
      <4>6. Visible(Append(w, more)) = v
        BY <2>6, <3>1, <3>3, <4>2
      <4> QED
        BY <4>5, <4>6
    <3> QED
      BY <3>2, <3>3
  <2> QED
    BY <2>7, <2>8
<1> QED
  BY <1>3, <1>4

\* However a text is cut and however its thoughts are begun, broken off and ended, as long as no
\* tag outgrows the tail that is held back, nothing of a thought is shown, and all the rest is by
\* the time the message is over (core/streaming.py:162).
THEOREM ThoughtsAreHidden == ThoughtsSpec => []ThoughtsStayHidden
<1>1. ThoughtsInit => ThoughtsInv
  <2> SUFFICES ASSUME ThoughtsInit PROVE ThoughtsInv
    OBVIOUS
  <2>1. /\ filter.buffer = <<>> /\ filter.inside = FALSE /\ shown = <<>> /\ written = <<>> /\ ~textEnded
        /\ ThoughtsType
    <3>1. filter.buffer = <<>> /\ filter.inside = FALSE /\ shown = <<>> /\ written = <<>> /\ textEnded = FALSE
      BY DEF ThoughtsInit
    <3>2. PICK e \in Seq(Characters) : e = <<>>
      <4>1. <<>> \in Seq(Characters)
        OBVIOUS
      <4> QED
        BY <4>1
    <3>3. filter = [buffer |-> e, inside |-> FALSE]
      BY <3>2 DEF ThoughtsInit
    <3>4. filter \in [buffer : Seq(Characters), inside : BOOLEAN]
      BY <3>3
    <3> QED
      BY <3>1, <3>2, <3>4 DEF ThoughtsType
  <2>2. Unread = Seen(FALSE, 0, <<>>)
    BY DEF Unread, Seen
  <2>3. Held = Unread /\ Reading(Unread, written) = Unread
    BY <2>1, <2>2, ReadingNothing DEF Held
  <2>4. NoTag(filter.inside, filter.buffer)
    BY <2>1 DEF NoTag
  <2> QED
    BY <2>1, <2>3, <2>4 DEF ThoughtsInv, Visible
<1>2. ThoughtsInv /\ [ThoughtsNext]_thoughtVars => ThoughtsInv'
  <2> SUFFICES ASSUME ThoughtsInv, [ThoughtsNext]_thoughtVars PROVE ThoughtsInv'
    OBVIOUS
  <2>1. CASE Feed
    BY <2>1, FeedKeeps
  <2>2. CASE Flush
    BY <2>2, FlushKeeps
  <2>3. CASE UNCHANGED thoughtVars
    BY <2>3 DEF thoughtVars, ThoughtsInv, ThoughtsType, Held, Visible, NoTag, Tag, TagsFit
  <2> QED
    BY <2>1, <2>2, <2>3 DEF ThoughtsNext
<1>3. ThoughtsInv => ThoughtsStayHidden
  BY InvHides
<1> QED
  BY <1>1, <1>2, <1>3, PTL DEF ThoughtsSpec

-----------------------------------------------------------------------------
(* The chat page. *)

Deltas == Nat \X Nat
CallBlocks == [type : {"tool_use", "tool_result"}, use : Nat \X Nat, input : Nat]
Cards == [id : Nat, texts : Seq(Deltas), blocks : Seq(CallBlocks)]
ToolCards == [status : {"none", "running", "completed"}, buffer : Nat]
PageStates == [streaming : Seq(Deltas), id : Nat, pending : Seq(CallBlocks),
               messages : Seq(Cards), tools : [Ids -> ToolCards], queue : SUBSET (Nat \X Nat)]

ToolEvents == {"tool_use_start", "input_json_delta", "tool_result"}
EventTypes == {"assistant_message_start", "assistant_text", "assistant_message_end",
               "permission_request", "error"} \cup ToolEvents
Arriving == {e \in [type : EventTypes, m : Nat, n : Nat] : e.type \in ToolEvents => <<e.m, e.n>> \in Ids}

\* Two states of the page that differ in the requests for permission only.
Alike(a, b) ==
    /\ a.streaming = b.streaming /\ a.id = b.id /\ a.pending = b.pending
    /\ a.messages = b.messages /\ a.tools = b.tools

\* The last place is what streams.
Bottom(c) == Len(c.messages) + 1

LEMMA ShownIs ==
    ASSUME NEW c \in PageStates
    PROVE  /\ Bottom(c) \in Nat /\ Bottom(c) > 0 /\ Len(OnPage(c)) = Bottom(c)
           /\ \A i \in 1..Len(c.messages) : OnPage(c)[i] = c.messages[i]
           /\ OnPage(c)[Bottom(c)].texts = c.streaming /\ OnPage(c)[Bottom(c)].blocks = c.pending
           /\ \A i \in 1..Bottom(c) : OnPage(c)[i].texts \in Seq(Deltas) /\ OnPage(c)[i].blocks \in Seq(CallBlocks)
  <1>1. c.messages \in Seq(Cards) /\ c.streaming \in Seq(Deltas) /\ c.pending \in Seq(CallBlocks) /\ c.id \in Nat
    BY DEF PageStates
  <1>2. PICK b : b = Blocks(c)
    OBVIOUS
  <1>3. b \in Cards /\ b.texts = c.streaming /\ b.blocks = c.pending
    BY <1>1, <1>2 DEF Blocks, Cards
  <1>4. OnPage(c) = Append(c.messages, b)
    BY <1>2 DEF OnPage
  <1>5. PICK s \in Seq(Cards) : s = c.messages
    BY <1>1
  <1>6. /\ Len(Append(s, b)) = Len(s) + 1 /\ Len(s) \in Nat
        /\ \A i \in 1..Len(s) : Append(s, b)[i] = s[i] /\ s[i] \in Cards
        /\ Append(s, b)[Len(s) + 1] = b
    BY <1>3, AppendProperties
  <1>7. \A i \in 1..Bottom(c) : OnPage(c)[i] \in Cards
    BY <1>3, <1>4, <1>5, <1>6 DEF Bottom
  <1>8. Bottom(c) = Len(s) + 1 /\ Len(OnPage(c)) = Bottom(c)
    BY <1>4, <1>5, <1>6 DEF Bottom
  <1>9. \A i \in 1..Len(c.messages) : OnPage(c)[i] = c.messages[i]
    BY <1>4, <1>5, <1>6
  <1>10. OnPage(c)[Bottom(c)] = b
    BY <1>4, <1>5, <1>6, <1>8
  <1>11. \A i \in 1..Bottom(c) : OnPage(c)[i].texts \in Seq(Deltas) /\ OnPage(c)[i].blocks \in Seq(CallBlocks)
    BY <1>7 DEF Cards
  <1> QED
    BY <1>3, <1>6, <1>8, <1>9, <1>10, <1>11

LEMMA TextPlace ==
    ASSUME NEW c \in PageStates, NEW m
    PROVE  /\ \A i \in 1..Bottom(c) : \A k \in 1..Len(OnPage(c)[i].texts) :
                 OnPage(c)[i].texts[k][1] = m => <<i, k>> \in TextPlaces(c, m)
           /\ \A p \in TextPlaces(c, m) :
                 /\ p[1] \in 1..Bottom(c) /\ p[2] \in 1..Len(OnPage(c)[p[1]].texts) /\ p = <<p[1], p[2]>>
                 /\ OnPage(c)[p[1]].texts[p[2]][1] = m
                 /\ p[1] \in Nat /\ p[2] \in Nat /\ TextAt(c, p) \in Deltas /\ TextAt(c, p)[1] = m
  <1>1. Len(OnPage(c)) = Bottom(c) /\ Bottom(c) \in Nat
        /\ \A i \in 1..Bottom(c) : OnPage(c)[i].texts \in Seq(Deltas)
    BY ShownIs
  <1>2. ASSUME NEW i \in 1..Bottom(c), NEW k \in 1..Len(OnPage(c)[i].texts), OnPage(c)[i].texts[k][1] = m
        PROVE  <<i, k>> \in TextPlaces(c, m)
    BY <1>1, <1>2 DEF TextPlaces, TextAt
  <1>3. ASSUME NEW p \in TextPlaces(c, m)
        PROVE  /\ p[1] \in 1..Bottom(c) /\ p[2] \in 1..Len(OnPage(c)[p[1]].texts) /\ p = <<p[1], p[2]>>
               /\ OnPage(c)[p[1]].texts[p[2]][1] = m
    <2>1. PICK i \in 1..Len(OnPage(c)) : p \in {i} \X (1..Len(OnPage(c)[i].texts))
      BY DEF TextPlaces
    <2>2. p[1] = i /\ p[2] \in 1..Len(OnPage(c)[i].texts) /\ p = <<p[1], p[2]>>
      BY <2>1
    <2>3. TextAt(c, p)[1] = m
      BY DEF TextPlaces
    <2> QED
      BY <1>1, <2>2, <2>3 DEF TextAt
  <1>4. ASSUME NEW p \in TextPlaces(c, m)
        PROVE  p[1] \in Nat /\ p[2] \in Nat /\ TextAt(c, p) \in Deltas /\ TextAt(c, p)[1] = m
    <2>1. p[1] \in 1..Bottom(c) /\ p[2] \in 1..Len(OnPage(c)[p[1]].texts) /\ OnPage(c)[p[1]].texts[p[2]][1] = m
      BY <1>3
    <2>2. OnPage(c)[p[1]].texts \in Seq(Deltas)
      BY <1>1, <2>1
    <2> QED
      BY <1>1, <2>1, <2>2 DEF TextAt
  <1> QED
    BY <1>2, <1>3, <1>4

LEMMA UsePlace ==
    ASSUME NEW c \in PageStates, NEW u
    PROVE  /\ \A i \in 1..Bottom(c) : \A k \in 1..Len(OnPage(c)[i].blocks) :
                 (OnPage(c)[i].blocks[k].type = "tool_use" /\ OnPage(c)[i].blocks[k].use = u)
                     => <<i, k>> \in UsePlaces(c, u)
           /\ \A p \in UsePlaces(c, u) :
                 /\ p[1] \in 1..Bottom(c) /\ p[2] \in 1..Len(OnPage(c)[p[1]].blocks) /\ p = <<p[1], p[2]>>
                 /\ OnPage(c)[p[1]].blocks[p[2]].type = "tool_use" /\ OnPage(c)[p[1]].blocks[p[2]].use = u
  <1>1. Len(OnPage(c)) = Bottom(c) /\ Bottom(c) \in Nat
        /\ \A i \in 1..Bottom(c) : OnPage(c)[i].blocks \in Seq(CallBlocks)
    BY ShownIs
  <1>2. ASSUME NEW i \in 1..Bottom(c), NEW k \in 1..Len(OnPage(c)[i].blocks),
               OnPage(c)[i].blocks[k].type = "tool_use", OnPage(c)[i].blocks[k].use = u
        PROVE  <<i, k>> \in UsePlaces(c, u)
    BY <1>1, <1>2 DEF UsePlaces, BlockAt
  <1>3. ASSUME NEW p \in UsePlaces(c, u)
        PROVE  /\ p[1] \in 1..Bottom(c) /\ p[2] \in 1..Len(OnPage(c)[p[1]].blocks) /\ p = <<p[1], p[2]>>
               /\ OnPage(c)[p[1]].blocks[p[2]].type = "tool_use" /\ OnPage(c)[p[1]].blocks[p[2]].use = u
    <2>1. PICK i \in 1..Len(OnPage(c)) : p \in {i} \X (1..Len(OnPage(c)[i].blocks))
      BY DEF UsePlaces
    <2>2. p[1] = i /\ p[2] \in 1..Len(OnPage(c)[i].blocks) /\ p = <<p[1], p[2]>>
      BY <2>1
    <2>3. BlockAt(c, p).type = "tool_use" /\ BlockAt(c, p).use = u
      BY DEF UsePlaces
    <2> QED
      BY <1>1, <2>2, <2>3 DEF BlockAt
  <1> QED
    BY <1>2, <1>3

-----------------------------------------------------------------------------
(* What an event does to the fields of the page. *)

Card(id, c) == [id |-> id, texts |-> c.streaming, blocks |-> c.pending]

LEMMA CardIs ==
    ASSUME NEW c \in PageStates, NEW id \in Nat
    PROVE  /\ Card(id, c) \in Cards /\ Card(id, c).texts = c.streaming /\ Card(id, c).blocks = c.pending
           /\ Blocks(c) = Card(c.id, c) /\ [Blocks(c) EXCEPT !.id = id] = Card(id, c)
           /\ c.id \in Nat
  BY DEF PageStates, Card, Cards, Blocks

LEMMA ClearedIs ==
    ASSUME NEW c \in PageStates
    PROVE  /\ Cleared(c) \in PageStates
           /\ Cleared(c).streaming = <<>> /\ Cleared(c).id = 0 /\ Cleared(c).pending = <<>>
           /\ Cleared(c).messages = c.messages /\ Cleared(c).tools = c.tools /\ Cleared(c).queue = c.queue
  <1>1. PICK t \in Seq(Deltas) : t = <<>>
    <2>1. <<>> \in Seq(Deltas)
      OBVIOUS
    <2> QED
      BY <2>1
  <1>2. PICK b \in Seq(CallBlocks) : b = <<>>
    <2>1. <<>> \in Seq(CallBlocks)
      OBVIOUS
    <2> QED
      BY <2>1
  <1>3. PICK k : k = [c EXCEPT !.streaming = t, !.id = 0, !.pending = b]
    OBVIOUS
  <1>4. Cleared(c) = k
    BY <1>1, <1>2, <1>3 DEF Cleared
  <1>5. /\ k \in PageStates /\ k.streaming = t /\ k.id = 0 /\ k.pending = b
        /\ k.messages = c.messages /\ k.tools = c.tools /\ k.queue = c.queue
    BY <1>3 DEF PageStates
  <1> QED
    BY <1>1, <1>2, <1>4, <1>5

\* A list of messages with one more.
LEMMA OneMoreCard ==
    ASSUME NEW c \in PageStates, NEW id \in Nat
    PROVE  LET d == [Cleared(c) EXCEPT !.messages = Append(@, Card(id, c))] IN
           /\ d \in PageStates
           /\ d.streaming = <<>> /\ d.id = 0 /\ d.pending = <<>>
           /\ d.messages = Append(c.messages, Card(id, c)) /\ d.tools = c.tools
  <1>1. PICK k \in PageStates : k = Cleared(c)
    BY ClearedIs
  <1>2. k.streaming = <<>> /\ k.id = 0 /\ k.pending = <<>> /\ k.messages = c.messages /\ k.tools = c.tools
    BY <1>1, ClearedIs
  <1>3. PICK x \in Cards : x = Card(id, c)
    BY CardIs
  <1>4. k.messages \in Seq(Cards)
    BY DEF PageStates
  <1>5. PICK ms \in Seq(Cards) : ms = Append(k.messages, x)
    BY <1>3, <1>4, AppendProperties
  <1>6. [Cleared(c) EXCEPT !.messages = Append(@, Card(id, c))] = [k EXCEPT !.messages = ms]
    BY <1>1, <1>3, <1>5 DEF PageStates
  <1>7. [k EXCEPT !.messages = ms] \in PageStates
    BY <1>5 DEF PageStates
  <1> QED
    BY <1>2, <1>3, <1>5, <1>6, <1>7 DEF PageStates

LEMMA StartEffect ==
    ASSUME NEW c \in PageStates, NEW e \in Arriving, e.type = "assistant_message_start"
    PROVE  /\ Handled(c, e) \in PageStates
           /\ Handled(c, e).streaming = <<>> /\ Handled(c, e).id = e.m /\ Handled(c, e).pending = <<>>
           /\ Handled(c, e).messages = c.messages /\ Handled(c, e).tools = c.tools
  <1>1. PICK k \in PageStates : k = Cleared(c)
    BY ClearedIs
  <1>2. k.streaming = <<>> /\ k.pending = <<>> /\ k.messages = c.messages /\ k.tools = c.tools
    BY <1>1, ClearedIs
  <1>3. Handled(c, e) = [k EXCEPT !.id = e.m]
    BY <1>1 DEF Handled, MessageStarts
  <1>4. e.m \in Nat
    BY DEF Arriving
  <1> QED
    BY <1>2, <1>3, <1>4 DEF PageStates

LEMMA TextEffect ==
    ASSUME NEW c \in PageStates, NEW e \in Arriving, e.type = "assistant_text"
    PROVE  /\ Handled(c, e) \in PageStates
           /\ Handled(c, e).streaming = Append(c.streaming, <<e.m, e.n>>) /\ Handled(c, e).id = c.id
           /\ Handled(c, e).pending = c.pending
           /\ Handled(c, e).messages = c.messages /\ Handled(c, e).tools = c.tools
  <1>1. PICK x \in Deltas : x = <<e.m, e.n>>
    BY DEF Arriving, Deltas
  <1>2. c.streaming \in Seq(Deltas)
    BY DEF PageStates
  <1>3. PICK t \in Seq(Deltas) : t = Append(c.streaming, x)
    BY <1>1, <1>2, AppendProperties
  <1>4. Handled(c, e) = [c EXCEPT !.streaming = t]
    BY <1>1, <1>3 DEF Handled, PageStates
  <1> QED
    BY <1>1, <1>3, <1>4 DEF PageStates

LEMMA EndEffect ==
    ASSUME NEW c \in PageStates, NEW e \in Arriving, e.type = "assistant_message_end"
    PROVE  /\ Handled(c, e) \in PageStates
           /\ Handled(c, e).tools = c.tools
           /\ Anything(c) =>
                 /\ Handled(c, e).streaming = <<>> /\ Handled(c, e).id = 0 /\ Handled(c, e).pending = <<>>
                 /\ Handled(c, e).messages = Append(c.messages, Card(e.m, c))
           /\ ~Anything(c) => Handled(c, e) = c
  <1>1. e.m \in Nat
    BY DEF Arriving
  <1>2. Handled(c, e) = MessageEnds(c, e)
    BY DEF Handled
  <1>3. CASE Anything(c)
    <2>1. Handled(c, e) = [Cleared(c) EXCEPT !.messages = Append(@, [Blocks(c) EXCEPT !.id = e.m])]
      BY <1>2, <1>3 DEF MessageEnds
    <2>2. Handled(c, e) = [Cleared(c) EXCEPT !.messages = Append(@, Card(e.m, c))]
      BY <1>1, <2>1, CardIs
    <2> QED
      BY <1>1, <1>3, <2>2, OneMoreCard
  <1>4. CASE ~Anything(c)
    BY <1>2, <1>4 DEF MessageEnds
  <1> QED
    BY <1>3, <1>4

LEMMA ErrorEffect ==
    ASSUME NEW c \in PageStates, NEW e \in Arriving, e.type = "error"
    PROVE  /\ Handled(c, e) \in PageStates
           /\ Handled(c, e).tools = c.tools
           /\ Handled(c, e).streaming = <<>> /\ Handled(c, e).id = 0 /\ Handled(c, e).pending = <<>>
           /\ Anything(c) => Handled(c, e).messages = Append(c.messages, Card(c.id, c))
           /\ ~Anything(c) => Handled(c, e).messages = c.messages
  <1>1. c.id \in Nat /\ Blocks(c) = Card(c.id, c)
    BY CardIs DEF PageStates
  <1>2. Handled(c, e) = ErrorArrives(c)
    BY DEF Handled
  <1>3. CASE Anything(c)
    <2>1. Handled(c, e) = [Cleared(c) EXCEPT !.messages = Append(@, Card(c.id, c))]
      BY <1>1, <1>2, <1>3 DEF ErrorArrives
    <2> QED
      BY <1>1, <1>3, <2>1, OneMoreCard
  <1>4. CASE ~Anything(c)
    <2>1. Handled(c, e) = Cleared(c)
      BY <1>2, <1>4 DEF ErrorArrives
    <2> QED
      BY <1>4, <2>1, ClearedIs
  <1> QED
    BY <1>3, <1>4

LEMMA AskEffect ==
    ASSUME NEW c \in PageStates, NEW e \in Arriving, e.type = "permission_request"
    PROVE  Handled(c, e) \in PageStates /\ Alike(Handled(c, e), c)
  <1>1. Handled(c, e) = [c EXCEPT !.queue = @ \cup {<<e.m, e.n>>}]
    BY DEF Handled
  <1>2. c.queue \cup {<<e.m, e.n>>} \in SUBSET (Nat \X Nat)
    BY DEF Arriving, PageStates
  <1> QED
    BY <1>1, <1>2 DEF PageStates, Alike

\* A tool starts, or gives its result: one more block.
LEMMA BlockEffect ==
    ASSUME NEW c \in PageStates, NEW e \in Arriving, e.type \in {"tool_use_start", "tool_result"}
    PROVE  /\ Handled(c, e) \in PageStates
           /\ Handled(c, e).streaming = c.streaming /\ Handled(c, e).id = c.id
           /\ Handled(c, e).messages = c.messages
           /\ Handled(c, e).tools = [c.tools EXCEPT ![<<e.m, e.n>>] =
                 [status |-> IF e.type = "tool_result" THEN "completed" ELSE "running", buffer |-> 0]]
           /\ Handled(c, e).pending = Append(c.pending,
                 [type |-> IF e.type = "tool_result" THEN "tool_result" ELSE "tool_use",
                  use |-> <<e.m, e.n>>, input |-> 0])
  <1>1. e.m \in Nat /\ e.n \in Nat /\ <<e.m, e.n>> \in Ids
    BY DEF Arriving, ToolEvents
  <1>2. PICK x \in CallBlocks : x = [type |-> IF e.type = "tool_result" THEN "tool_result" ELSE "tool_use",
                                     use |-> <<e.m, e.n>>, input |-> 0]
    <2>1. PICK t \in {"tool_use", "tool_result"} : t = IF e.type = "tool_result" THEN "tool_result" ELSE "tool_use"
      OBVIOUS
    <2>2. PICK u \in Nat \X Nat : u = <<e.m, e.n>>
      BY <1>1
    <2>3. [type |-> t, use |-> u, input |-> 0] \in CallBlocks
      BY DEF CallBlocks
    <2> QED
      BY <2>1, <2>2, <2>3
  <1>3. PICK y \in ToolCards : y = [status |-> IF e.type = "tool_result" THEN "completed" ELSE "running",
                                    buffer |-> 0]
    <2>1. PICK t \in {"running", "completed"} : t = IF e.type = "tool_result" THEN "completed" ELSE "running"
      OBVIOUS
    <2>2. [status |-> t, buffer |-> 0] \in ToolCards
      BY DEF ToolCards
    <2> QED
      BY <2>1, <2>2
  <1>4. c.pending \in Seq(CallBlocks) /\ c.tools \in [Ids -> ToolCards]
    BY DEF PageStates
  <1>5. PICK ps \in Seq(CallBlocks) : ps = Append(c.pending, x)
    BY <1>4, AppendProperties
  <1>6. PICK ts \in [Ids -> ToolCards] : ts = [c.tools EXCEPT ![<<e.m, e.n>>] = y]
    BY <1>1, <1>4
  <1>7. Handled(c, e) = [c EXCEPT !.tools = ts, !.pending = ps]
    <2>1. CASE e.type = "tool_use_start"
      <3>1. Handled(c, e) = ToolStarts(c, e)
        BY <2>1 DEF Handled
      <3>2. x = [type |-> "tool_use", use |-> <<e.m, e.n>>, input |-> 0] /\ y = [status |-> "running", buffer |-> 0]
        BY <1>2, <1>3, <2>1
      <3> QED
        BY <1>5, <1>6, <3>1, <3>2 DEF ToolStarts, PageStates
    <2>2. CASE e.type = "tool_result"
      <3>1. Handled(c, e) = ResultArrives(c, e)
        BY <2>2 DEF Handled
      <3>2. x = [type |-> "tool_result", use |-> <<e.m, e.n>>, input |-> 0] /\ y = [status |-> "completed", buffer |-> 0]
        BY <1>2, <1>3, <2>2
      <3> QED
        BY <1>5, <1>6, <3>1, <3>2 DEF ResultArrives, PageStates
    <2> QED
      BY <2>1, <2>2
  <1>8. Handled(c, e) \in PageStates
    BY <1>7 DEF PageStates
  <1> QED
    BY <1>2, <1>3, <1>5, <1>6, <1>7, <1>8 DEF PageStates

\* The blocks of call u with another input.
WithInput(blocks, u, input) ==
    [i \in 1..Len(blocks) |-> IF blocks[i].type = "tool_use" /\ blocks[i].use = u
                              THEN [blocks[i] EXCEPT !.input = input] ELSE blocks[i]]

LEMMA WithInputIs ==
    ASSUME NEW blocks \in Seq(CallBlocks), NEW u, NEW input \in Nat
    PROVE  /\ WithInput(blocks, u, input) \in Seq(CallBlocks)
           /\ Len(WithInput(blocks, u, input)) = Len(blocks)
           /\ \A i \in 1..Len(blocks) :
                 LET b == WithInput(blocks, u, input)[i] IN
                 /\ b.type = blocks[i].type /\ b.use = blocks[i].use
                 /\ (blocks[i].type = "tool_use" /\ blocks[i].use = u) => b.input = input
                 /\ ~(blocks[i].type = "tool_use" /\ blocks[i].use = u) => b = blocks[i]
  <1>1. PICK w : w = WithInput(blocks, u, input)
    OBVIOUS
  <1>2. Len(blocks) \in Nat /\ \A i \in 1..Len(blocks) : blocks[i] \in CallBlocks
    OBVIOUS
  <1>3. ASSUME NEW i \in 1..Len(blocks)
        PROVE  /\ w[i] \in CallBlocks /\ w[i].type = blocks[i].type /\ w[i].use = blocks[i].use
               /\ (blocks[i].type = "tool_use" /\ blocks[i].use = u) => w[i].input = input
               /\ ~(blocks[i].type = "tool_use" /\ blocks[i].use = u) => w[i] = blocks[i]
    <2>1. PICK b \in CallBlocks : b = blocks[i]
      BY <1>2
    <2>2. w[i] = IF b.type = "tool_use" /\ b.use = u THEN [b EXCEPT !.input = input] ELSE b
      BY <1>1, <2>1 DEF WithInput
    <2> QED
      BY <2>1, <2>2 DEF CallBlocks
  <1>4. w = [i \in 1..Len(blocks) |-> w[i]]
    BY <1>1 DEF WithInput
  <1>5. w \in Seq(CallBlocks) /\ Len(w) = Len(blocks)
    BY <1>2, <1>3, <1>4, SeqDef
  <1> QED
    BY <1>1, <1>3, <1>5

LEMMA InputEffect ==
    ASSUME NEW c \in PageStates, NEW e \in Arriving, e.type = "input_json_delta"
    PROVE  /\ Handled(c, e) \in PageStates
           /\ Handled(c, e).streaming = c.streaming /\ Handled(c, e).id = c.id
           /\ Handled(c, e).messages = c.messages
           /\ c.tools[<<e.m, e.n>>].buffer \in Nat
           /\ Handled(c, e).tools = [c.tools EXCEPT ![<<e.m, e.n>>] =
                 [status |-> "running", buffer |-> c.tools[<<e.m, e.n>>].buffer + 1]]
           /\ Handled(c, e).pending = WithInput(c.pending, <<e.m, e.n>>,
                 IF c.tools[<<e.m, e.n>>].buffer + 1 = Pieces THEN Pieces ELSE 0)
  <1>1. e.m \in Nat /\ e.n \in Nat /\ <<e.m, e.n>> \in Ids
    BY DEF Arriving, ToolEvents
  <1>2. PICK u \in Ids : u = <<e.m, e.n>>
    BY <1>1
  <1>3. c.pending \in Seq(CallBlocks) /\ c.tools \in [Ids -> ToolCards]
    BY DEF PageStates
  <1>4. PICK n \in Nat : n = c.tools[u].buffer
    BY <1>2, <1>3 DEF ToolCards
  <1>5. PICK input \in Nat : input = IF n + 1 = Pieces THEN Pieces ELSE 0
    BY DEF Pieces
  <1>6. PICK ps \in Seq(CallBlocks) : ps = WithInput(c.pending, u, input)
    BY <1>3, <1>5, WithInputIs
  <1>7. PICK y \in ToolCards : y = [status |-> "running", buffer |-> n + 1]
    <2>1. n + 1 \in Nat
      BY <1>4
    <2>2. [status |-> "running", buffer |-> n + 1] \in ToolCards
      BY <2>1 DEF ToolCards
    <2> QED
      BY <2>2
  <1>8. PICK ts \in [Ids -> ToolCards] : ts = [c.tools EXCEPT ![u] = y]
    BY <1>2, <1>3, <1>7
  <1>9. Handled(c, e) = [c EXCEPT !.tools = ts, !.pending = ps]
    <2>1. Handled(c, e) = InputArrives(c, e)
      BY DEF Handled
    <2>2. ps = [i \in 1..Len(c.pending) |-> IF c.pending[i].type = "tool_use" /\ c.pending[i].use = u
                              THEN [c.pending[i] EXCEPT !.input = IF n + 1 = Pieces THEN Pieces ELSE 0] ELSE c.pending[i]]
      BY <1>5, <1>6 DEF WithInput
    <2> QED
      BY <1>2, <1>4, <1>7, <1>8, <2>1, <2>2 DEF InputArrives, PageStates
  <1>10. Handled(c, e) \in PageStates
    BY <1>9 DEF PageStates
  <1> QED
    BY <1>2, <1>4, <1>5, <1>6, <1>7, <1>8, <1>9, <1>10 DEF PageStates

\* Every event leads to a state of the page, and to such that are alike from such that are.
LEMMA HandledIs ==
    ASSUME NEW c \in PageStates, NEW e \in Arriving
    PROVE  /\ Handled(c, e) \in PageStates
           /\ \A a \in PageStates : Alike(a, c) => Alike(Handled(a, e), Handled(c, e))
  <1> SUFFICES ASSUME NEW a \in PageStates, Alike(a, c)
               PROVE  Handled(c, e) \in PageStates /\ Alike(Handled(a, e), Handled(c, e))
    <2>1. Alike(c, c)
      BY DEF Alike
    <2> QED
      BY <2>1
  <1>1. e.type \in EventTypes
    BY DEF Arriving
  <1>2. /\ a.streaming = c.streaming /\ a.id = c.id /\ a.pending = c.pending
        /\ a.messages = c.messages /\ a.tools = c.tools
    BY DEF Alike
  <1>3. (Anything(a) <=> Anything(c)) /\ Card(e.m, a) = Card(e.m, c) /\ Card(c.id, a) = Card(c.id, c)
    BY <1>2 DEF Anything, Card
  <1>4. CASE e.type = "assistant_message_start"
    <2>1. \A k \in {a, c} : /\ Handled(k, e) \in PageStates
                           /\ Handled(k, e).streaming = <<>> /\ Handled(k, e).id = e.m
                           /\ Handled(k, e).pending = <<>> /\ Handled(k, e).messages = k.messages
                           /\ Handled(k, e).tools = k.tools
      BY <1>4, StartEffect
    <2> QED
      BY <1>2, <2>1 DEF Alike
  <1>5. CASE e.type = "assistant_text"
    <2>1. \A k \in {a, c} : /\ Handled(k, e) \in PageStates
                           /\ Handled(k, e).streaming = Append(k.streaming, <<e.m, e.n>>)
                           /\ Handled(k, e).id = k.id
                           /\ Handled(k, e).pending = k.pending /\ Handled(k, e).messages = k.messages
                           /\ Handled(k, e).tools = k.tools
      BY <1>5, TextEffect
    <2> QED
      BY <1>2, <2>1 DEF Alike
  <1>6. CASE e.type = "assistant_message_end"
    <2>1. CASE Anything(c)
      <3>1. \A k \in {a, c} : /\ Handled(k, e) \in PageStates
                             /\ Handled(k, e).streaming = <<>> /\ Handled(k, e).id = 0
                             /\ Handled(k, e).pending = <<>>
                             /\ Handled(k, e).messages = Append(k.messages, Card(e.m, k))
                             /\ Handled(k, e).tools = k.tools
        BY <1>3, <1>6, <2>1, EndEffect
      <3> QED
        BY <1>2, <1>3, <3>1 DEF Alike
    <2>2. CASE ~Anything(c)
      <3>1. Handled(a, e) = a /\ Handled(c, e) = c
        BY <1>3, <1>6, <2>2, EndEffect
      <3> QED
        BY <3>1
    <2> QED
      BY <2>1, <2>2
  <1>7. CASE e.type = "error"
    <2>1. CASE Anything(c)
      <3>1. \A k \in {a, c} : /\ Handled(k, e) \in PageStates
                             /\ Handled(k, e).streaming = <<>> /\ Handled(k, e).id = 0
                             /\ Handled(k, e).pending = <<>>
                             /\ Handled(k, e).messages = Append(k.messages, Card(k.id, k))
                             /\ Handled(k, e).tools = k.tools
        BY <1>3, <1>7, <2>1, ErrorEffect
      <3>2. Card(a.id, a) = Card(c.id, c)
        BY <1>2, <1>3
      <3> QED
        BY <1>2, <3>1, <3>2 DEF Alike
    <2>2. CASE ~Anything(c)
      BY <1>2, <1>3, <1>7, <2>2, ErrorEffect DEF Alike
    <2> QED
      BY <2>1, <2>2
  <1>8. CASE e.type = "permission_request"
    BY <1>2, <1>8, AskEffect DEF Alike
  <1>9. CASE e.type \in {"tool_use_start", "tool_result"}
    <2> DEFINE x == [type |-> IF e.type = "tool_result" THEN "tool_result" ELSE "tool_use",
                     use |-> <<e.m, e.n>>, input |-> 0]
               y == [status |-> IF e.type = "tool_result" THEN "completed" ELSE "running", buffer |-> 0]
    <2>1. \A k \in {a, c} : /\ Handled(k, e) \in PageStates
                           /\ Handled(k, e).streaming = k.streaming /\ Handled(k, e).id = k.id
                           /\ Handled(k, e).pending = Append(k.pending, x)
                           /\ Handled(k, e).messages = k.messages
                           /\ Handled(k, e).tools = [k.tools EXCEPT ![<<e.m, e.n>>] = y]
      BY <1>9, BlockEffect
    <2> HIDE DEF x, y
    <2> QED
      BY <1>2, <2>1 DEF Alike
  <1>10. CASE e.type = "input_json_delta"
    <2> DEFINE T(ts) == [ts EXCEPT ![<<e.m, e.n>>] = [status |-> "running", buffer |-> ts[<<e.m, e.n>>].buffer + 1]]
               B(ts, bs) == WithInput(bs, <<e.m, e.n>>, IF ts[<<e.m, e.n>>].buffer + 1 = Pieces THEN Pieces ELSE 0)
    <2>1. \A k \in {a, c} : /\ Handled(k, e) \in PageStates
                           /\ Handled(k, e).streaming = k.streaming /\ Handled(k, e).id = k.id
                           /\ Handled(k, e).messages = k.messages
                           /\ Handled(k, e).tools = T(k.tools)
                           /\ Handled(k, e).pending = B(k.tools, k.pending)
      BY <1>10, InputEffect
    <2> HIDE DEF T, B
    <2> QED
      BY <1>2, <2>1 DEF Alike
  <1> QED
    BY <1>1, <1>4, <1>5, <1>6, <1>7, <1>8, <1>9, <1>10 DEF EventTypes, ToolEvents

-----------------------------------------------------------------------------
(* What an event does to what is shown. *)

SameTexts(c, d) ==
    \A m \in Nat : TextPlaces(d, m) = TextPlaces(c, m)
                   /\ \A p \in TextPlaces(c, m) : TextAt(d, p) = TextAt(c, p)
SameBlocks(c, d, u) ==
    UsePlaces(d, u) = UsePlaces(c, u) /\ \A p \in UsePlaces(c, u) : BlockAt(d, p) = BlockAt(c, p)

LEMMA TextsStay ==
    ASSUME NEW c \in PageStates, NEW d \in PageStates, Bottom(c) <= Bottom(d),
           \A i \in 1..Bottom(c) : OnPage(d)[i].texts = OnPage(c)[i].texts,
           \A i \in 1..Bottom(d) : i > Bottom(c) => OnPage(d)[i].texts = <<>>
    PROVE  SameTexts(c, d)
  <1> SUFFICES ASSUME NEW m \in Nat
               PROVE  TextPlaces(d, m) = TextPlaces(c, m)
                      /\ \A p \in TextPlaces(c, m) : TextAt(d, p) = TextAt(c, p)
    BY DEF SameTexts
  <1>1. Bottom(c) \in Nat /\ Bottom(d) \in Nat
    BY ShownIs
  <1>2. ASSUME NEW p \in TextPlaces(c, m)
        PROVE  p \in TextPlaces(d, m) /\ TextAt(d, p) = TextAt(c, p)
    <2>1. /\ p[1] \in 1..Bottom(c) /\ p[2] \in 1..Len(OnPage(c)[p[1]].texts) /\ p = <<p[1], p[2]>>
          /\ OnPage(c)[p[1]].texts[p[2]][1] = m
      BY TextPlace
    <2>2. p[1] \in 1..Bottom(d) /\ OnPage(d)[p[1]].texts = OnPage(c)[p[1]].texts
      BY <1>1, <2>1
    <2>3. <<p[1], p[2]>> \in TextPlaces(d, m)
      BY <2>1, <2>2, TextPlace
    <2> QED
      BY <2>1, <2>2, <2>3 DEF TextAt
  <1>3. ASSUME NEW p \in TextPlaces(d, m)
        PROVE  p \in TextPlaces(c, m)
    <2>1. /\ p[1] \in 1..Bottom(d) /\ p[2] \in 1..Len(OnPage(d)[p[1]].texts) /\ p = <<p[1], p[2]>>
          /\ OnPage(d)[p[1]].texts[p[2]][1] = m
      BY TextPlace
    <2>2. p[1] <= Bottom(c)
      <3>1. SUFFICES ASSUME p[1] > Bottom(c) PROVE FALSE
        BY <1>1, <2>1
      <3>2. OnPage(d)[p[1]].texts = <<>>
        BY <2>1, <3>1
      <3> QED
        BY <2>1, <3>2
    <2>3. p[1] \in 1..Bottom(c) /\ OnPage(d)[p[1]].texts = OnPage(c)[p[1]].texts
      BY <1>1, <2>1, <2>2
    <2>4. <<p[1], p[2]>> \in TextPlaces(c, m)
      BY <2>1, <2>3, TextPlace
    <2> QED
      BY <2>1, <2>4
  <1> QED
    BY <1>2, <1>3

LEMMA UsesStay ==
    ASSUME NEW c \in PageStates, NEW d \in PageStates, Bottom(c) <= Bottom(d),
           \A i \in 1..Bottom(c) :
              /\ Len(OnPage(d)[i].blocks) = Len(OnPage(c)[i].blocks)
              /\ \A k \in 1..Len(OnPage(c)[i].blocks) :
                    /\ OnPage(d)[i].blocks[k].type = OnPage(c)[i].blocks[k].type
                    /\ OnPage(d)[i].blocks[k].use = OnPage(c)[i].blocks[k].use,
           \A i \in 1..Bottom(d) : i > Bottom(c) => OnPage(d)[i].blocks = <<>>,
           NEW u
    PROVE  UsePlaces(d, u) = UsePlaces(c, u)
  <1>1. Bottom(c) \in Nat /\ Bottom(d) \in Nat
    BY ShownIs
  <1>2. ASSUME NEW p \in UsePlaces(c, u)
        PROVE  p \in UsePlaces(d, u)
    <2>1. /\ p[1] \in 1..Bottom(c) /\ p[2] \in 1..Len(OnPage(c)[p[1]].blocks) /\ p = <<p[1], p[2]>>
          /\ OnPage(c)[p[1]].blocks[p[2]].type = "tool_use" /\ OnPage(c)[p[1]].blocks[p[2]].use = u
      BY UsePlace
    <2>2. p[1] \in 1..Bottom(d)
      BY <1>1, <2>1
    <2>4. /\ Len(OnPage(d)[p[1]].blocks) = Len(OnPage(c)[p[1]].blocks)
          /\ OnPage(d)[p[1]].blocks[p[2]].type = "tool_use" /\ OnPage(d)[p[1]].blocks[p[2]].use = u
      BY <2>1
    <2>3. <<p[1], p[2]>> \in UsePlaces(d, u)
      BY <2>1, <2>2, <2>4, UsePlace
    <2> QED
      BY <2>1, <2>3
  <1>3. ASSUME NEW p \in UsePlaces(d, u)
        PROVE  p \in UsePlaces(c, u)
    <2>1. /\ p[1] \in 1..Bottom(d) /\ p[2] \in 1..Len(OnPage(d)[p[1]].blocks) /\ p = <<p[1], p[2]>>
          /\ OnPage(d)[p[1]].blocks[p[2]].type = "tool_use" /\ OnPage(d)[p[1]].blocks[p[2]].use = u
      BY UsePlace
    <2>2. p[1] <= Bottom(c)
      <3>1. SUFFICES ASSUME p[1] > Bottom(c) PROVE FALSE
        BY <1>1, <2>1
      <3>2. OnPage(d)[p[1]].blocks = <<>>
        BY <2>1, <3>1
      <3> QED
        BY <2>1, <3>2
    <2>3. /\ p[1] \in 1..Bottom(c) /\ Len(OnPage(d)[p[1]].blocks) = Len(OnPage(c)[p[1]].blocks)
          /\ OnPage(c)[p[1]].blocks[p[2]].type = "tool_use" /\ OnPage(c)[p[1]].blocks[p[2]].use = u
      BY <1>1, <2>1, <2>2, SMTT(30)
    <2>4. <<p[1], p[2]>> \in UsePlaces(c, u)
      BY <2>1, <2>3, UsePlace
    <2> QED
      BY <2>1, <2>4
  <1> QED
    BY <1>2, <1>3

\* What streams becomes a message as it stands.
LEMMA Flushed ==
    ASSUME NEW c \in PageStates, NEW d \in PageStates, d.streaming = <<>>, d.pending = <<>>,
           \/ \E id \in Nat : d.messages = Append(c.messages, Card(id, c))
           \/ ~Anything(c) /\ d.messages = c.messages
    PROVE  /\ SameTexts(c, d) /\ \A u : SameBlocks(c, d, u)
           /\ \A m : \A p \in TextPlaces(d, m) : p[1] # Bottom(d)
           /\ \A u : \A p \in UsePlaces(d, u) : p[1] # Bottom(d)
  <1>1. /\ Bottom(c) \in Nat /\ Bottom(d) \in Nat /\ Bottom(c) > 0 /\ Bottom(d) > 0
        /\ \A i \in 1..Len(c.messages) : OnPage(c)[i] = c.messages[i]
        /\ \A i \in 1..Len(d.messages) : OnPage(d)[i] = d.messages[i]
        /\ OnPage(c)[Bottom(c)].texts = c.streaming /\ OnPage(c)[Bottom(c)].blocks = c.pending
        /\ OnPage(d)[Bottom(d)].texts = <<>> /\ OnPage(d)[Bottom(d)].blocks = <<>>
    BY ShownIs
  <1>2. c.messages \in Seq(Cards) /\ Len(c.messages) \in Nat
    BY DEF PageStates
  <1>3. /\ Bottom(c) <= Bottom(d)
        /\ \A i \in 1..Bottom(c) : OnPage(d)[i].texts = OnPage(c)[i].texts /\ OnPage(d)[i].blocks = OnPage(c)[i].blocks
        /\ \A i \in 1..Bottom(d) : i > Bottom(c) => OnPage(d)[i].texts = <<>> /\ OnPage(d)[i].blocks = <<>>
    <2>1. CASE ~Anything(c) /\ d.messages = c.messages
      <3>1. c.streaming = <<>> /\ c.pending = <<>> /\ Bottom(d) = Bottom(c)
        BY <2>1 DEF Anything, Bottom
      <3> QED
        BY <1>1, <1>2, <2>1, <3>1 DEF Bottom
    <2>2. ASSUME NEW id \in Nat, d.messages = Append(c.messages, Card(id, c))
          PROVE  /\ Bottom(c) <= Bottom(d)
                 /\ \A i \in 1..Bottom(c) : OnPage(d)[i].texts = OnPage(c)[i].texts /\ OnPage(d)[i].blocks = OnPage(c)[i].blocks
                 /\ \A i \in 1..Bottom(d) : i > Bottom(c) => OnPage(d)[i].texts = <<>> /\ OnPage(d)[i].blocks = <<>>
      <3>1. PICK x \in Cards : x = Card(id, c)
        BY CardIs
      <3>2. x.texts = c.streaming /\ x.blocks = c.pending
        BY <3>1, CardIs
      <3>3. /\ Len(d.messages) = Len(c.messages) + 1
            /\ \A i \in 1..Len(c.messages) : d.messages[i] = c.messages[i]
            /\ d.messages[Len(c.messages) + 1] = x
        BY <1>2, <2>2, <3>1, AppendProperties
      <3>4. Bottom(d) = Bottom(c) + 1 /\ Bottom(c) = Len(c.messages) + 1
        BY <1>2, <3>3 DEF Bottom
      <3>5. \A i \in 1..Len(c.messages) : OnPage(d)[i] = OnPage(c)[i]
        BY <1>1, <1>2, <3>3
      <3>6. OnPage(d)[Bottom(c)] = x
        BY <1>1, <1>2, <3>3, <3>4
      <3>7. \A i \in 1..Bottom(c) : i \in 1..Len(c.messages) \/ i = Bottom(c)
        BY <1>2, <3>4
      <3>8. \A i \in 1..Bottom(c) : OnPage(d)[i].texts = OnPage(c)[i].texts /\ OnPage(d)[i].blocks = OnPage(c)[i].blocks
        BY <1>1, <3>2, <3>5, <3>6, <3>7
      <3>9. \A i \in 1..Bottom(d) : i > Bottom(c) => i = Bottom(d)
        BY <1>2, <3>4
      <3>10. Bottom(c) <= Bottom(d)
        BY <1>2, <3>4
      <3> QED
        BY <1>1, <3>8, <3>9, <3>10
    <2> QED
      BY <2>1, <2>2
  <1>4. SameTexts(c, d)
    BY <1>3, TextsStay
  <1>5. \A u : UsePlaces(d, u) = UsePlaces(c, u)
    BY <1>3, UsesStay
  <1>6. ASSUME NEW u, NEW p \in UsePlaces(c, u)
        PROVE  BlockAt(d, p) = BlockAt(c, p)
    <2>1. p[1] \in 1..Bottom(c)
      BY UsePlace
    <2> QED
      BY <1>3, <2>1 DEF BlockAt
  <1>7. ASSUME NEW m, NEW p \in TextPlaces(d, m)
        PROVE  p[1] # Bottom(d)
    <2>1. p[2] \in 1..Len(OnPage(d)[p[1]].texts)
      BY TextPlace
    <2> QED
      BY <1>1, <2>1
  <1>8. ASSUME NEW u, NEW p \in UsePlaces(d, u)
        PROVE  p[1] # Bottom(d)
    <2>1. p[2] \in 1..Len(OnPage(d)[p[1]].blocks)
      BY UsePlace
    <2> QED
      BY <1>1, <2>1
  <1> QED
    BY <1>4, <1>5, <1>6, <1>7, <1>8 DEF SameBlocks

\* What streams is dropped.
LEMMA Dropped ==
    ASSUME NEW c \in PageStates, NEW d \in PageStates, d.streaming = <<>>, d.pending = <<>>,
           d.messages = c.messages, NEW m, NEW u
    PROVE  /\ Bottom(d) = Bottom(c)
           /\ TextPlaces(d, m) = {p \in TextPlaces(c, m) : p[1] # Bottom(c)}
           /\ \A p \in TextPlaces(d, m) : TextAt(d, p) = TextAt(c, p)
           /\ UsePlaces(d, u) = {p \in UsePlaces(c, u) : p[1] # Bottom(c)}
           /\ \A p \in UsePlaces(d, u) : BlockAt(d, p) = BlockAt(c, p)
  <1>1. /\ Bottom(c) \in Nat /\ Bottom(d) = Bottom(c)
        /\ \A i \in 1..Bottom(c) : i # Bottom(c) => OnPage(d)[i] = OnPage(c)[i]
        /\ OnPage(d)[Bottom(c)].texts = <<>> /\ OnPage(d)[Bottom(c)].blocks = <<>>
    <2>1. Bottom(d) = Bottom(c) /\ Bottom(c) \in Nat
      BY ShownIs DEF Bottom
    <2>2. ASSUME NEW i \in 1..Bottom(c), i # Bottom(c)
          PROVE  i \in 1..Len(c.messages)
      <3>1. Len(c.messages) \in Nat
        BY DEF PageStates
      <3> QED
        BY <2>2, <3>1 DEF Bottom
    <2> QED
      BY <2>1, <2>2, ShownIs
  <1>2. ASSUME NEW p \in TextPlaces(d, m)
        PROVE  p \in TextPlaces(c, m) /\ p[1] # Bottom(c) /\ TextAt(d, p) = TextAt(c, p)
    <2>1. /\ p[1] \in 1..Bottom(d) /\ p[2] \in 1..Len(OnPage(d)[p[1]].texts) /\ p = <<p[1], p[2]>>
          /\ OnPage(d)[p[1]].texts[p[2]][1] = m
      BY TextPlace
    <2>2. p[1] # Bottom(c)
      BY <1>1, <2>1
    <2>3. <<p[1], p[2]>> \in TextPlaces(c, m)
      BY <1>1, <2>1, <2>2, TextPlace
    <2> QED
      BY <1>1, <2>1, <2>2, <2>3 DEF TextAt
  <1>3. ASSUME NEW p \in TextPlaces(c, m), p[1] # Bottom(c)
        PROVE  p \in TextPlaces(d, m)
    <2>1. /\ p[1] \in 1..Bottom(c) /\ p[2] \in 1..Len(OnPage(c)[p[1]].texts) /\ p = <<p[1], p[2]>>
          /\ OnPage(c)[p[1]].texts[p[2]][1] = m
      BY TextPlace
    <2>2. <<p[1], p[2]>> \in TextPlaces(d, m)
      BY <1>1, <1>3, <2>1, TextPlace
    <2> QED
      BY <2>1, <2>2
  <1>4. ASSUME NEW p \in UsePlaces(d, u)
        PROVE  p \in UsePlaces(c, u) /\ p[1] # Bottom(c) /\ BlockAt(d, p) = BlockAt(c, p)
    <2>1. /\ p[1] \in 1..Bottom(d) /\ p[2] \in 1..Len(OnPage(d)[p[1]].blocks) /\ p = <<p[1], p[2]>>
          /\ OnPage(d)[p[1]].blocks[p[2]].type = "tool_use" /\ OnPage(d)[p[1]].blocks[p[2]].use = u
      BY UsePlace
    <2>2. p[1] # Bottom(c)
      BY <1>1, <2>1
    <2>3. <<p[1], p[2]>> \in UsePlaces(c, u)
      BY <1>1, <2>1, <2>2, UsePlace
    <2> QED
      BY <1>1, <2>1, <2>2, <2>3 DEF BlockAt
  <1>5. ASSUME NEW p \in UsePlaces(c, u), p[1] # Bottom(c)
        PROVE  p \in UsePlaces(d, u)
    <2>1. /\ p[1] \in 1..Bottom(c) /\ p[2] \in 1..Len(OnPage(c)[p[1]].blocks) /\ p = <<p[1], p[2]>>
          /\ OnPage(c)[p[1]].blocks[p[2]].type = "tool_use" /\ OnPage(c)[p[1]].blocks[p[2]].use = u
      BY UsePlace
    <2>2. <<p[1], p[2]>> \in UsePlaces(d, u)
      BY <1>1, <1>5, <2>1, UsePlace
    <2> QED
      BY <2>1, <2>2
  <1> QED
    BY <1>1, <1>2, <1>3, <1>4, <1>5

\* The shape of what is shown when the messages stay.
LEMMA AboveBottom ==
    ASSUME NEW c \in PageStates, NEW d \in PageStates, d.messages = c.messages
    PROVE  /\ Bottom(d) = Bottom(c) /\ Bottom(c) \in Nat
           /\ \A i \in 1..Bottom(c) : i # Bottom(c) => OnPage(d)[i] = OnPage(c)[i]
           /\ OnPage(c)[Bottom(c)].texts = c.streaming /\ OnPage(c)[Bottom(c)].blocks = c.pending
           /\ OnPage(d)[Bottom(c)].texts = d.streaming /\ OnPage(d)[Bottom(c)].blocks = d.pending
  <1>1. Bottom(d) = Bottom(c) /\ Bottom(c) \in Nat
    BY ShownIs DEF Bottom
  <1>2. ASSUME NEW i \in 1..Bottom(c), i # Bottom(c)
        PROVE  i \in 1..Len(c.messages)
    <2>1. Len(c.messages) \in Nat
      BY DEF PageStates
    <2> QED
      BY <1>2, <2>1 DEF Bottom
  <1> QED
    BY <1>1, <1>2, ShownIs

LEMMA SameStreaming ==
    ASSUME NEW c \in PageStates, NEW d \in PageStates, d.messages = c.messages, d.streaming = c.streaming
    PROVE  SameTexts(c, d)
  <1>1. /\ Bottom(d) = Bottom(c) /\ Bottom(c) \in Nat
        /\ \A i \in 1..Bottom(c) : OnPage(d)[i].texts = OnPage(c)[i].texts
    BY AboveBottom
  <1> QED
    BY <1>1, TextsStay

LEMMA SamePending ==
    ASSUME NEW c \in PageStates, NEW d \in PageStates, d.messages = c.messages, d.pending = c.pending
    PROVE  \A u : SameBlocks(c, d, u)
  <1>1. /\ Bottom(d) = Bottom(c) /\ Bottom(c) \in Nat
        /\ \A i \in 1..Bottom(c) : OnPage(d)[i].blocks = OnPage(c)[i].blocks
    BY AboveBottom
  <1>2. \A u : UsePlaces(d, u) = UsePlaces(c, u)
    BY <1>1, UsesStay
  <1>3. ASSUME NEW u, NEW p \in UsePlaces(c, u)
        PROVE  BlockAt(d, p) = BlockAt(c, p)
    <2>1. p[1] \in 1..Bottom(c)
      BY UsePlace
    <2> QED
      BY <1>1, <2>1 DEF BlockAt
  <1> QED
    BY <1>2, <1>3 DEF SameBlocks

\* One more delta.
DeltaShown(c, d, x, new) ==
    /\ d.messages = c.messages /\ d.streaming = Append(c.streaming, x)
    /\ new = <<Bottom(c), Len(c.streaming) + 1>>
TextAdded(c, d, m, x, new) ==
    /\ TextPlaces(d, m) = TextPlaces(c, m) \cup {new} /\ TextAt(d, new) = x
    /\ \A p \in TextPlaces(c, m) : TextAt(d, p) = TextAt(c, p) /\ Above(p, new) /\ ~Above(new, p) /\ p # new
SameText(c, d, m) == TextPlaces(d, m) = TextPlaces(c, m) /\ \A p \in TextPlaces(c, m) : TextAt(d, p) = TextAt(c, p)

LEMMA TextGrows ==
    ASSUME NEW c \in PageStates, NEW d \in PageStates, NEW x \in Deltas, NEW new,
           DeltaShown(c, d, x, new), NEW m
    PROVE  (x[1] = m => TextAdded(c, d, m, x, new)) /\ (x[1] # m => SameText(c, d, m))
  <1> USE DEF DeltaShown
  <1>1. /\ Bottom(d) = Bottom(c) /\ Bottom(c) \in Nat /\ Bottom(c) > 0
        /\ \A i \in 1..Bottom(c) : i # Bottom(c) => OnPage(d)[i] = OnPage(c)[i]
        /\ OnPage(c)[Bottom(c)].texts = c.streaming /\ OnPage(d)[Bottom(c)].texts = d.streaming
    BY AboveBottom, ShownIs
  <1>2. c.streaming \in Seq(Deltas) /\ Len(c.streaming) \in Nat
    BY DEF PageStates
  <1>3. /\ Len(d.streaming) = Len(c.streaming) + 1 /\ d.streaming[Len(c.streaming) + 1] = x
        /\ \A k \in 1..Len(c.streaming) : d.streaming[k] = c.streaming[k]
    BY <1>2, AppendProperties
  <1>4. TextAt(d, new) = x
    BY <1>1, <1>3 DEF TextAt
  <1>5. ASSUME NEW p \in TextPlaces(c, m)
        PROVE  /\ p \in TextPlaces(d, m) /\ TextAt(d, p) = TextAt(c, p)
               /\ Above(p, new) /\ ~Above(new, p) /\ p # new
    <2>1. /\ p[1] \in 1..Bottom(c) /\ p[2] \in 1..Len(OnPage(c)[p[1]].texts) /\ p = <<p[1], p[2]>>
          /\ OnPage(c)[p[1]].texts[p[2]][1] = m /\ p[1] \in Nat /\ p[2] \in Nat
      BY TextPlace
    <2>2. p[2] \in 1..Len(OnPage(d)[p[1]].texts) /\ OnPage(d)[p[1]].texts[p[2]] = OnPage(c)[p[1]].texts[p[2]]
      <3>1. CASE p[1] = Bottom(c)
        BY <1>1, <1>2, <1>3, <2>1, <3>1
      <3>2. CASE p[1] # Bottom(c)
        BY <1>1, <2>1, <3>2
      <3> QED
        BY <3>1, <3>2
    <2>3. <<p[1], p[2]>> \in TextPlaces(d, m)
      BY <1>1, <2>1, <2>2, TextPlace
    <2>4. p[1] < Bottom(c) \/ (p[1] = Bottom(c) /\ p[2] <= Len(c.streaming))
      BY <1>1, <1>2, <2>1
    <2>5. new[1] = Bottom(c) /\ new[2] = Len(c.streaming) + 1
      OBVIOUS
    <2>6. Above(p, new) /\ ~Above(new, p) /\ p # new
      BY <1>1, <1>2, <2>1, <2>4, <2>5 DEF Above
    <2> QED
      BY <2>1, <2>2, <2>3, <2>6 DEF TextAt
  <1>6. ASSUME x[1] = m
        PROVE  new \in TextPlaces(d, m)
    BY <1>1, <1>2, <1>3, <1>6, TextPlace
  <1>7. ASSUME NEW p \in TextPlaces(d, m), p \notin TextPlaces(c, m)
        PROVE  p = new /\ x[1] = m
    <2>1. /\ p[1] \in 1..Bottom(d) /\ p[2] \in 1..Len(OnPage(d)[p[1]].texts) /\ p = <<p[1], p[2]>>
          /\ OnPage(d)[p[1]].texts[p[2]][1] = m
      BY TextPlace
    <2>2. p[1] = Bottom(c)
      <3>1. SUFFICES ASSUME p[1] # Bottom(c) PROVE FALSE
        OBVIOUS
      <3>2. <<p[1], p[2]>> \in TextPlaces(c, m)
        BY <1>1, <2>1, <3>1, TextPlace
      <3> QED
        BY <1>7, <2>1, <3>2
    <2>3. p[2] = Len(c.streaming) + 1
      <3>1. SUFFICES ASSUME p[2] \in 1..Len(c.streaming) PROVE FALSE
        BY <1>1, <1>2, <1>3, <2>1, <2>2
      <3>2. c.streaming[p[2]] = d.streaming[p[2]] /\ Bottom(c) \in 1..Bottom(c)
        BY <1>1, <1>3, <3>1
      <3>3. PICK k \in 1..Len(c.streaming) : k = p[2]
        BY <3>1
      <3>4. <<Bottom(c), k>> \in TextPlaces(c, m)
        <4>1. OnPage(c)[Bottom(c)].texts[k][1] = m
          BY <1>1, <2>1, <2>2, <3>2, <3>3
        <4>2. k \in 1..Len(OnPage(c)[Bottom(c)].texts)
          BY <1>1
        <4> QED
          BY <3>2, <4>1, <4>2, TextPlace
      <3> QED
        BY <1>7, <2>1, <2>2, <3>3, <3>4
    <2> QED
      BY <1>1, <1>3, <2>1, <2>2, <2>3
  <1> QED
    BY <1>4, <1>5, <1>6, <1>7 DEF TextAdded, SameText

\* One more block.
BlockShown(c, d, x, new) ==
    /\ d.messages = c.messages /\ d.pending = Append(c.pending, x)
    /\ new = <<Bottom(c), Len(c.pending) + 1>>
UseAdded(c, d, u, x, new) == UsePlaces(d, u) = UsePlaces(c, u) \cup {new} /\ BlockAt(d, new) = x

LEMMA BlocksGrow ==
    ASSUME NEW c \in PageStates, NEW d \in PageStates, NEW x \in CallBlocks, NEW new,
           BlockShown(c, d, x, new), NEW u
    PROVE  /\ (x.type = "tool_use" /\ x.use = u) => UseAdded(c, d, u, x, new)
           /\ ~(x.type = "tool_use" /\ x.use = u) => SameBlocks(c, d, u)
  <1> USE DEF BlockShown
  <1>1. /\ Bottom(d) = Bottom(c) /\ Bottom(c) \in Nat /\ Bottom(c) > 0
        /\ \A i \in 1..Bottom(c) : i # Bottom(c) => OnPage(d)[i] = OnPage(c)[i]
        /\ OnPage(c)[Bottom(c)].blocks = c.pending /\ OnPage(d)[Bottom(c)].blocks = d.pending
    BY AboveBottom, ShownIs
  <1>2. c.pending \in Seq(CallBlocks) /\ Len(c.pending) \in Nat
    BY DEF PageStates
  <1>3. /\ Len(d.pending) = Len(c.pending) + 1 /\ d.pending[Len(c.pending) + 1] = x
        /\ \A k \in 1..Len(c.pending) : d.pending[k] = c.pending[k]
    BY <1>2, AppendProperties
  <1>4. BlockAt(d, new) = x
    BY <1>1, <1>3 DEF BlockAt
  <1>5. ASSUME NEW p \in UsePlaces(c, u)
        PROVE  p \in UsePlaces(d, u) /\ BlockAt(d, p) = BlockAt(c, p)
    <2>1. /\ p[1] \in 1..Bottom(c) /\ p[2] \in 1..Len(OnPage(c)[p[1]].blocks) /\ p = <<p[1], p[2]>>
          /\ OnPage(c)[p[1]].blocks[p[2]].type = "tool_use" /\ OnPage(c)[p[1]].blocks[p[2]].use = u
      BY UsePlace
    <2>2. p[2] \in 1..Len(OnPage(d)[p[1]].blocks) /\ OnPage(d)[p[1]].blocks[p[2]] = OnPage(c)[p[1]].blocks[p[2]]
      <3>1. CASE p[1] = Bottom(c)
        BY <1>1, <1>2, <1>3, <2>1, <3>1
      <3>2. CASE p[1] # Bottom(c)
        BY <1>1, <2>1, <3>2
      <3> QED
        BY <3>1, <3>2
    <2>3. <<p[1], p[2]>> \in UsePlaces(d, u)
      BY <1>1, <2>1, <2>2, UsePlace, SMTT(30)
    <2> QED
      BY <2>1, <2>2, <2>3 DEF BlockAt
  <1>6. ASSUME x.type = "tool_use", x.use = u
        PROVE  new \in UsePlaces(d, u)
    <2>1. Bottom(c) \in 1..Bottom(d) /\ Len(c.pending) + 1 \in 1..Len(OnPage(d)[Bottom(c)].blocks)
      BY <1>1, <1>2, <1>3
    <2>2. OnPage(d)[Bottom(c)].blocks[Len(c.pending) + 1] = x
      BY <1>1, <1>3
    <2> QED
      BY <1>6, <2>1, <2>2, UsePlace
  <1>7. ASSUME NEW p \in UsePlaces(d, u), p \notin UsePlaces(c, u)
        PROVE  p = new /\ x.type = "tool_use" /\ x.use = u
    <2>1. /\ p[1] \in 1..Bottom(d) /\ p[2] \in 1..Len(OnPage(d)[p[1]].blocks) /\ p = <<p[1], p[2]>>
          /\ OnPage(d)[p[1]].blocks[p[2]].type = "tool_use" /\ OnPage(d)[p[1]].blocks[p[2]].use = u
      BY UsePlace
    <2>2. p[1] = Bottom(c)
      <3>1. SUFFICES ASSUME p[1] # Bottom(c) PROVE FALSE
        OBVIOUS
      <3>2. <<p[1], p[2]>> \in UsePlaces(c, u)
        BY <1>1, <2>1, <3>1, UsePlace
      <3> QED
        BY <1>7, <2>1, <3>2
    <2>3. p[2] = Len(c.pending) + 1
      <3>1. SUFFICES ASSUME p[2] \in 1..Len(c.pending) PROVE FALSE
        BY <1>1, <1>2, <1>3, <2>1, <2>2
      <3>2. c.pending[p[2]] = d.pending[p[2]] /\ Bottom(c) \in 1..Bottom(c)
        BY <1>1, <1>3, <3>1
      <3>3. PICK k \in 1..Len(c.pending) : k = p[2]
        BY <3>1
      <3>5. OnPage(c)[Bottom(c)].blocks[k].type = "tool_use" /\ OnPage(c)[Bottom(c)].blocks[k].use = u
        BY <1>1, <2>1, <2>2, <3>2, <3>3
      <3>6. k \in 1..Len(OnPage(c)[Bottom(c)].blocks)
        BY <1>1
      <3>4. <<Bottom(c), k>> \in UsePlaces(c, u)
        BY <3>2, <3>5, <3>6, UsePlace
      <3> QED
        BY <1>7, <2>1, <2>2, <3>3, <3>4
    <2> QED
      BY <1>1, <1>3, <2>1, <2>2, <2>3
  <1> QED
    BY <1>4, <1>5, <1>6, <1>7 DEF SameBlocks, UseAdded

\* The input of a call.
InputShown(c, d, v, input) == d.messages = c.messages /\ d.pending = WithInput(c.pending, v, input)
InputSet(c, d, v, input) ==
    UsePlaces(d, v) = UsePlaces(c, v) /\ \A p \in UsePlaces(c, v) : p[1] = Bottom(c) => BlockAt(d, p).input = input

LEMMA InputGrows ==
    ASSUME NEW c \in PageStates, NEW d \in PageStates, NEW v, NEW input \in Nat,
           InputShown(c, d, v, input), NEW u
    PROVE  (u # v => SameBlocks(c, d, u)) /\ (u = v => InputSet(c, d, v, input))
  <1> USE DEF InputShown
  <1>1. /\ Bottom(d) = Bottom(c) /\ Bottom(c) \in Nat /\ Bottom(c) > 0
        /\ \A i \in 1..Bottom(c) : i # Bottom(c) => OnPage(d)[i] = OnPage(c)[i]
        /\ OnPage(c)[Bottom(c)].blocks = c.pending /\ OnPage(d)[Bottom(c)].blocks = d.pending
    BY AboveBottom, ShownIs
  <1>2. c.pending \in Seq(CallBlocks)
    BY DEF PageStates
  <1>3. /\ Len(d.pending) = Len(c.pending)
        /\ \A k \in 1..Len(c.pending) :
              /\ d.pending[k].type = c.pending[k].type /\ d.pending[k].use = c.pending[k].use
              /\ (c.pending[k].type = "tool_use" /\ c.pending[k].use = v) => d.pending[k].input = input
              /\ ~(c.pending[k].type = "tool_use" /\ c.pending[k].use = v) => d.pending[k] = c.pending[k]
    BY <1>2, WithInputIs
  <1>4. UsePlaces(d, u) = UsePlaces(c, u)
    <2>1. ASSUME NEW i \in 1..Bottom(c)
          PROVE  /\ Len(OnPage(d)[i].blocks) = Len(OnPage(c)[i].blocks)
                 /\ \A k \in 1..Len(OnPage(c)[i].blocks) :
                       /\ OnPage(d)[i].blocks[k].type = OnPage(c)[i].blocks[k].type
                       /\ OnPage(d)[i].blocks[k].use = OnPage(c)[i].blocks[k].use
      <3>1. CASE i = Bottom(c)
        BY <1>1, <1>3, <3>1
      <3>2. CASE i # Bottom(c)
        BY <1>1, <3>2
      <3> QED
        BY <3>1, <3>2
    <2>2. Bottom(c) <= Bottom(d) /\ \A i \in 1..Bottom(d) : ~(i > Bottom(c))
      BY <1>1
    <2> QED
      BY <2>1, <2>2, UsesStay
  <1>5. ASSUME NEW p \in UsePlaces(c, u)
        PROVE  /\ u # v => BlockAt(d, p) = BlockAt(c, p)
               /\ u = v /\ p[1] = Bottom(c) => BlockAt(d, p).input = input
    <2>1. /\ p[1] \in 1..Bottom(c) /\ p[2] \in 1..Len(OnPage(c)[p[1]].blocks)
          /\ OnPage(c)[p[1]].blocks[p[2]].type = "tool_use" /\ OnPage(c)[p[1]].blocks[p[2]].use = u
      BY UsePlace
    <2>2. CASE p[1] = Bottom(c)
      BY <1>1, <1>3, <2>1, <2>2 DEF BlockAt
    <2>3. CASE p[1] # Bottom(c)
      BY <1>1, <2>1, <2>3 DEF BlockAt
    <2> QED
      BY <2>2, <2>3
  <1> QED
    BY <1>4, <1>5 DEF SameBlocks, InputSet

-----------------------------------------------------------------------------
(* What the events on their way will make of the page. *)

\* Nothing of message m streams.
Nothing(c, m) ==
    /\ \A p \in TextPlaces(c, m) : p[1] # Bottom(c)
    /\ \A n \in Nat : \A p \in UsePlaces(c, <<m, n>>) : p[1] # Bottom(c)

\* The text of message m is shown up to delta k, once and in order.
TextsShown(c, m, k) ==
    /\ \A j \in 1..k : \E p \in TextPlaces(c, m) : TextAt(c, p) = <<m, j>>
    /\ \A p, q \in TextPlaces(c, m) : Above(p, q) => TextAt(c, p)[2] < TextAt(c, q)[2]
    /\ \A p \in TextPlaces(c, m) : TextAt(c, p)[2] \in 1..k

\* A call is shown once.
UseShown(c, u, p) == UsePlaces(c, u) = {p}

\* A recorded message is shown, and none of it streams any more.
Settled(c, r, b) ==
    /\ TextsShown(c, r.m, r.texts)
    /\ \A n \in 1..r.uses : \E p : UseShown(c, <<r.m, n>>, p) /\ (~b => BlockAt(c, p).input = Pieces)
    /\ Nothing(c, r.m)

\* A call of the message that streams, with so many parts of its input.
CallGrows(c, u, p, part, b) ==
    /\ UseShown(c, u, p)
    /\ ~b => /\ p[1] = Bottom(c) /\ BlockAt(c, p).input = (IF part = Pieces THEN Pieces ELSE 0)
             /\ c.tools[u].buffer = part

\* The message that streams, up to delta k and with these parts of its calls; b says that an
\* error came into the middle of it.
Growing(c, m, k, prts, b) ==
    /\ TextsShown(c, m, k)
    /\ \A n \in 1..Len(prts) : \E p : CallGrows(c, <<m, n>>, p, prts[n], b)
    /\ \A n \in Nat : n > Len(prts) => UsePlaces(c, <<m, n>>) = {}

Empty(c, m) == TextPlaces(c, m) = {} /\ \A n \in Nat : UsePlaces(c, <<m, n>>) = {}
Unseen(c, m) == \A k \in Nat : k > m => Empty(c, k)

Records == [m : 1..MaxMessages, texts : Nat, uses : 0..MaxUses]
LoopOK ==
    /\ loop \in [phase : {"idle", "streaming", "tools", "asking", "again"}, m : 0..MaxMessages, texts : Nat,
                 parts : Seq(Nat), done : Nat]
    /\ Len(loop.parts) <= MaxUses
    /\ loop.phase \in {"streaming", "tools", "asking"} => loop.m >= 1
    /\ loop.phase \in {"tools", "asking"} => loop.done < Len(loop.parts)
    /\ loop.phase = "streaming" => loop.done = 0
RecordedOK ==
    /\ recorded \in Seq(Records)
    /\ \A i \in 1..Len(recorded) :
          recorded[i].m <= loop.m /\ (loop.phase = "streaming" => recorded[i].m < loop.m)

\* The end of message m is still to come after the first i events on their way.
EndComes(m, i) == \E k \in 1..Len(onTheWay) : k > i /\ onTheWay[k] = Event("assistant_message_end", m, 0)

\* The page as the events on their way will make it, one after another.
Ahead(h) ==
    /\ h \in [0..Len(onTheWay) -> PageStates]
    /\ Alike(h[0], chat)
    /\ \A i \in 1..Len(onTheWay) : h[i] = Handled(h[i - 1], onTheWay[i])
SettledAhead(h) ==
    \A j \in 1..Len(recorded), i \in 0..Len(onTheWay) :
        (recorded[j].m \notin lost /\ ~EndComes(recorded[j].m, i))
            => Settled(h[i], recorded[j], recorded[j].m \in broken)
GrowingAhead(h) ==
    loop.phase = "streaming" =>
        Growing(h[Len(onTheWay)], loop.m, loop.texts, loop.parts, loop.m \in broken)
UnseenAhead(h) == \A i \in 0..Len(onTheWay) : Unseen(h[i], loop.m)

PageTypes == LoopOK /\ RecordedOK /\ chat \in PageStates /\ onTheWay \in Seq(Arriving)
PageInv == PageTypes /\ \E h : Ahead(h) /\ SettledAhead(h) /\ GrowingAhead(h) /\ UnseenAhead(h)

\* Nothing changed for message m.
Untouched(c, d, m) ==
    /\ TextPlaces(d, m) = TextPlaces(c, m) /\ \A p \in TextPlaces(c, m) : TextAt(d, p) = TextAt(c, p)
    /\ \A n \in Nat : SameBlocks(c, d, <<m, n>>)

LEMMA TextsUntouched ==
    ASSUME NEW c, NEW d, NEW m, NEW k, TextsShown(c, m, k), TextPlaces(d, m) = TextPlaces(c, m),
           \A p \in TextPlaces(c, m) : TextAt(d, p) = TextAt(c, p)
    PROVE  TextsShown(d, m, k)
  BY DEF TextsShown

LEMMA UseUntouched ==
    ASSUME NEW c, NEW d, NEW u, SameBlocks(c, d, u), NEW p, UseShown(c, u, p)
    PROVE  UseShown(d, u, p) /\ BlockAt(d, p) = BlockAt(c, p)
  BY DEF SameBlocks, UseShown

LEMMA SettledStays ==
    ASSUME NEW c, NEW d, NEW r, r.m \in Nat, r.uses \in Nat, NEW b,
           Untouched(c, d, r.m), Nothing(d, r.m), Settled(c, r, b)
    PROVE  Settled(d, r, b)
  <1>1. TextsShown(d, r.m, r.texts)
    BY TextsUntouched DEF Untouched, Settled
  <1>2. ASSUME NEW n \in 1..r.uses
        PROVE  \E p : UseShown(d, <<r.m, n>>, p) /\ (~b => BlockAt(d, p).input = Pieces)
    <2>1. PICK p : UseShown(c, <<r.m, n>>, p) /\ (~b => BlockAt(c, p).input = Pieces)
      BY DEF Settled
    <2>2. n \in Nat
      OBVIOUS
    <2>3. SameBlocks(c, d, <<r.m, n>>)
      BY <2>2 DEF Untouched
    <2> QED
      BY <2>1, <2>3, UseUntouched
  <1> QED
    BY <1>1, <1>2 DEF Settled

\* A message ends, or an error comes: what streams becomes a message.
LEMMA Finished ==
    ASSUME NEW c \in PageStates, NEW e \in Arriving, e.type \in {"assistant_message_end", "error"}
    PROVE  /\ \A m \in Nat : Untouched(c, Handled(c, e), m) /\ Nothing(Handled(c, e), m)
           /\ Handled(c, e).tools = c.tools
  <1>1. PICK d \in PageStates : d = Handled(c, e)
    BY HandledIs
  <1>2. d.tools = c.tools
    BY <1>1, EndEffect, ErrorEffect
  <1>3. c.id \in Nat /\ e.m \in Nat
    BY DEF PageStates, Arriving
  <1>4. /\ d.streaming = <<>> /\ d.pending = <<>>
        /\ \/ \E id \in Nat : d.messages = Append(c.messages, Card(id, c))
           \/ ~Anything(c) /\ d.messages = c.messages
    <2>1. CASE Anything(c)
      BY <1>1, <1>3, <2>1, EndEffect, ErrorEffect
    <2>2. CASE ~Anything(c) /\ e.type = "assistant_message_end"
      BY <1>1, <2>2, EndEffect DEF Anything
    <2>3. CASE ~Anything(c) /\ e.type = "error"
      BY <1>1, <2>3, ErrorEffect
    <2> QED
      BY <2>1, <2>2, <2>3
  <1>5. /\ SameTexts(c, d) /\ \A u : SameBlocks(c, d, u)
        /\ \A m : \A p \in TextPlaces(d, m) : p[1] # Bottom(d)
        /\ \A u : \A p \in UsePlaces(d, u) : p[1] # Bottom(d)
    BY <1>4, Flushed
  <1>6. \A m \in Nat : Untouched(c, d, m)
    BY <1>5 DEF Untouched, SameTexts
  <1>7. \A m \in Nat : Nothing(d, m)
    BY <1>5 DEF Nothing
  <1> QED
    BY <1>1, <1>2, <1>6, <1>7

\* A message of which nothing streams is untouched by events that are not about its text and
\* its calls.
LEMMA Elsewhere ==
    ASSUME NEW c \in PageStates, NEW e \in Arriving, NEW m \in Nat, Nothing(c, m),
           e.type \in {"assistant_text", "tool_use_start", "input_json_delta"} => e.m # m
    PROVE  Untouched(c, Handled(c, e), m) /\ Nothing(Handled(c, e), m)
  <1>1. PICK d \in PageStates : d = Handled(c, e)
    BY HandledIs
  <1>2. SUFFICES Untouched(c, d, m) /\ Nothing(d, m)
    BY <1>1
  <1>3. e.type \in EventTypes /\ e.m \in Nat /\ e.n \in Nat
    BY DEF Arriving
  <1>4. ASSUME d.messages = c.messages, Untouched(c, d, m)
        PROVE  Nothing(d, m)
    <2>1. Bottom(d) = Bottom(c)
      BY <1>4 DEF Bottom
    <2> QED
      BY <1>4, <2>1 DEF Nothing, Untouched, SameBlocks
  <1>5. CASE e.type = "assistant_message_start"
    <2>1. d.streaming = <<>> /\ d.pending = <<>> /\ d.messages = c.messages
      BY <1>1, <1>5, StartEffect
    <2>2. /\ TextPlaces(d, m) = {p \in TextPlaces(c, m) : p[1] # Bottom(c)}
          /\ \A p \in TextPlaces(d, m) : TextAt(d, p) = TextAt(c, p)
      BY <2>1, Dropped
    <2>3. TextPlaces(d, m) = TextPlaces(c, m)
      BY <2>2 DEF Nothing
    <2>4. ASSUME NEW n \in Nat
          PROVE  SameBlocks(c, d, <<m, n>>)
      <3>1. /\ UsePlaces(d, <<m, n>>) = {p \in UsePlaces(c, <<m, n>>) : p[1] # Bottom(c)}
            /\ \A p \in UsePlaces(d, <<m, n>>) : BlockAt(d, p) = BlockAt(c, p)
        BY <2>1, Dropped
      <3>2. UsePlaces(d, <<m, n>>) = UsePlaces(c, <<m, n>>)
        BY <3>1 DEF Nothing
      <3> QED
        BY <3>1, <3>2 DEF SameBlocks
    <2>5. Untouched(c, d, m)
      BY <2>2, <2>3, <2>4 DEF Untouched
    <2> QED
      BY <1>4, <2>1, <2>5
  <1>6. CASE e.type = "assistant_text"
    <2>1. PICK x \in Deltas : x = <<e.m, e.n>>
      BY <1>3 DEF Deltas
    <2>2. d.streaming = Append(c.streaming, x) /\ d.pending = c.pending /\ d.messages = c.messages
      BY <1>1, <1>6, <2>1, TextEffect
    <2>3. x[1] # m
      BY <1>6, <2>1
    <2>4. /\ TextPlaces(d, m) = TextPlaces(c, m)
          /\ \A p \in TextPlaces(c, m) : TextAt(d, p) = TextAt(c, p)
      <3>1. PICK new : new = <<Bottom(c), Len(c.streaming) + 1>>
        OBVIOUS
      <3>2. DeltaShown(c, d, x, new)
        BY <2>2, <3>1 DEF DeltaShown
      <3>3. SameText(c, d, m)
        BY <2>1, <2>3, <3>2, TextGrows
      <3> QED
        BY <3>3 DEF SameText
    <2>5. \A u : SameBlocks(c, d, u)
      BY <2>2, SamePending
    <2>6. Untouched(c, d, m)
      BY <2>4, <2>5 DEF Untouched
    <2> QED
      BY <1>4, <2>2, <2>6
  <1>7. CASE e.type \in {"assistant_message_end", "error"}
    BY <1>1, <1>7, Finished
  <1>8. CASE e.type = "permission_request"
    <2>1. d.streaming = c.streaming /\ d.pending = c.pending /\ d.messages = c.messages
      BY <1>1, <1>8, AskEffect DEF Alike
    <2>2. SameTexts(c, d) /\ \A u : SameBlocks(c, d, u)
      BY <2>1, SameStreaming, SamePending
    <2>3. Untouched(c, d, m)
      BY <2>2 DEF Untouched, SameTexts
    <2> QED
      BY <1>4, <2>1, <2>3
  <1>9. CASE e.type \in {"tool_use_start", "tool_result"}
    <2>1. PICK y \in CallBlocks :
             y = [type |-> IF e.type = "tool_result" THEN "tool_result" ELSE "tool_use", use |-> <<e.m, e.n>>, input |-> 0]
      <3>1. PICK t \in {"tool_use", "tool_result"} : t = IF e.type = "tool_result" THEN "tool_result" ELSE "tool_use"
        OBVIOUS
      <3>2. PICK u \in Nat \X Nat : u = <<e.m, e.n>>
        BY <1>3
      <3>3. [type |-> t, use |-> u, input |-> 0] \in CallBlocks
        BY DEF CallBlocks
      <3> QED
        BY <3>1, <3>2, <3>3
    <2>2. /\ d.streaming = c.streaming /\ d.messages = c.messages /\ d.pending = Append(c.pending, y)
      BY <1>1, <1>9, <2>1, BlockEffect
    <2>7. y \in CallBlocks
      BY <2>1
    <2>3. \A n \in Nat : ~(y.type = "tool_use" /\ y.use = <<m, n>>)
      BY <1>9, <2>1
    <2>4. SameTexts(c, d)
      BY <2>2, SameStreaming
    <2>5. ASSUME NEW n \in Nat
          PROVE  SameBlocks(c, d, <<m, n>>)
      <3>1. PICK new : new = <<Bottom(c), Len(c.pending) + 1>>
        OBVIOUS
      <3>2. PICK u : u = <<m, n>>
        OBVIOUS
      <3>3. ~(y.type = "tool_use" /\ y.use = u)
        BY <2>3, <3>2
      <3>4. d.messages = c.messages /\ d.pending = Append(c.pending, y)
        BY <2>2
      <3>5. SameBlocks(c, d, u)
        BY <2>7, <3>1, <3>3, <3>4, BlocksGrow DEF BlockShown
      <3> QED
        BY <3>2, <3>5
    <2>6. Untouched(c, d, m)
      BY <2>4, <2>5 DEF Untouched, SameTexts
    <2> QED
      BY <1>4, <2>2, <2>6
  <1>10. CASE e.type = "input_json_delta"
    <2>1. PICK input \in Nat : input = IF c.tools[<<e.m, e.n>>].buffer + 1 = Pieces THEN Pieces ELSE 0
      BY DEF Pieces
    <2>2. /\ d.streaming = c.streaming /\ d.messages = c.messages
          /\ d.pending = WithInput(c.pending, <<e.m, e.n>>, input)
      BY <1>1, <1>10, <2>1, InputEffect
    <2>3. SameTexts(c, d)
      BY <2>2, SameStreaming
    <2>4. ASSUME NEW n \in Nat
          PROVE  SameBlocks(c, d, <<m, n>>)
      <3>1. <<m, n>> # <<e.m, e.n>>
        BY <1>10
      <3> QED
        <4>1. PICK v : v = <<e.m, e.n>>
          OBVIOUS
        <4>2. PICK u : u = <<m, n>>
          OBVIOUS
        <4>3. InputShown(c, d, v, input)
          BY <2>2, <4>1 DEF InputShown
        <4>4. SameBlocks(c, d, u)
          BY <3>1, <4>1, <4>2, <4>3, InputGrows
        <4> QED
          BY <4>2, <4>4
    <2>5. Untouched(c, d, m)
      BY <2>3, <2>4 DEF Untouched, SameTexts
    <2> QED
      BY <1>4, <2>2, <2>5
  <1> QED
    BY <1>3, <1>5, <1>6, <1>7, <1>8, <1>9, <1>10 DEF EventTypes, ToolEvents

LEMMA EmptyStays ==
    ASSUME NEW c \in PageStates, NEW e \in Arriving, NEW m \in Nat, Empty(c, m), 
           e.type \in {"assistant_text", "tool_use_start", "input_json_delta"} => e.m # m
    PROVE  Empty(Handled(c, e), m)
  <1>1. Nothing(c, m)
    BY DEF Empty, Nothing
  <1>2. Untouched(c, Handled(c, e), m)
    BY <1>1, Elsewhere
  <1> QED
    BY <1>2 DEF Empty, Untouched, SameBlocks

LEMMA UnseenStays ==
    ASSUME NEW c \in PageStates, NEW e \in Arriving, NEW m \in Nat, Unseen(c, m), e.m <= m
    PROVE  Unseen(Handled(c, e), m)
  <1>1. ASSUME NEW k \in Nat, k > m
        PROVE  Empty(Handled(c, e), k)
    <2>1. Empty(c, k) /\ e.m # k
      <3>1. e.m \in Nat
        BY DEF Arriving
      <3> QED
        BY <1>1, <3>1 DEF Unseen
    <2> QED
      BY <2>1, EmptyStays
  <1> QED
    BY <1>1 DEF Unseen

-----------------------------------------------------------------------------
(* The message that streams. *)

LEMMA StartGrows ==
    ASSUME NEW c \in PageStates, NEW e \in Arriving, e.type = "assistant_message_start",
           NEW m \in Nat, Empty(c, m), NEW b
    PROVE  Growing(Handled(c, e), m, 0, <<>>, b)
  <1>1. PICK d : d = Handled(c, e)
    OBVIOUS
  <1>2. Empty(d, m)
    BY <1>1, EmptyStays
  <1> QED
    BY <1>1, <1>2 DEF Empty, Growing, TextsShown

LEMMA TextIsShown ==
    ASSUME NEW c \in PageStates, NEW e \in Arriving, e.type = "assistant_text",
           NEW m \in Nat, NEW k \in Nat, NEW prts \in Seq(Nat), NEW b, Growing(c, m, k, prts, b),
           e.m = m, e.n = k + 1
    PROVE  Growing(Handled(c, e), m, k + 1, prts, b)
  <1>1. PICK d \in PageStates : d = Handled(c, e)
    BY HandledIs
  <1>2. PICK x \in Deltas : x = <<m, k + 1>>
    <2>1. k + 1 \in Nat
      OBVIOUS
    <2> QED
      BY <2>1 DEF Deltas
  <1>3. /\ d.streaming = Append(c.streaming, x) /\ d.pending = c.pending
        /\ d.messages = c.messages /\ d.tools = c.tools
    BY <1>1, <1>2, TextEffect
  <1>4. PICK new : new = <<Bottom(c), Len(c.streaming) + 1>>
    OBVIOUS
  <1>5. x[1] = m /\ x[2] = k + 1
    BY <1>2
  <1>6. /\ TextPlaces(d, m) = TextPlaces(c, m) \cup {new} /\ TextAt(d, new) = x
        /\ \A p \in TextPlaces(c, m) :
              TextAt(d, p) = TextAt(c, p) /\ Above(p, new) /\ ~Above(new, p) /\ p # new
    <2>1. x \in Deltas
      BY <1>2
    <2>2. DeltaShown(c, d, x, new)
      BY <1>3, <1>4 DEF DeltaShown
    <2>3. TextAdded(c, d, m, x, new)
      BY <1>5, <2>1, <2>2, TextGrows
    <2> QED
      BY <2>3 DEF TextAdded
  <1>7. TextsShown(d, m, k + 1)
    <2>1. TextsShown(c, m, k)
      BY DEF Growing
    <2>2. ASSUME NEW j \in 1..k + 1
          PROVE  \E p \in TextPlaces(d, m) : TextAt(d, p) = <<m, j>>
      <3>1. CASE j = k + 1
        BY <1>2, <1>6, <3>1
      <3>2. CASE j \in 1..k
        BY <1>6, <2>1, <3>2 DEF TextsShown
      <3> QED
        BY <3>1, <3>2
    <2>3. ASSUME NEW p \in TextPlaces(c, m)
          PROVE  TextAt(c, p)[2] \in 1..k /\ TextAt(c, p)[2] < k + 1
      BY <2>1 DEF TextsShown
    <2>4. ASSUME NEW p \in TextPlaces(d, m), NEW q \in TextPlaces(d, m), Above(p, q)
          PROVE  TextAt(d, p)[2] < TextAt(d, q)[2]
      <3>1. CASE p \in TextPlaces(c, m) /\ q \in TextPlaces(c, m)
        BY <1>6, <2>1, <2>4, <3>1 DEF TextsShown
      <3>2. CASE p \in TextPlaces(c, m) /\ q = new
        BY <1>5, <1>6, <2>3, <3>2
      <3>3. CASE p = new
        <4>1. q = new
          BY <1>6, <2>4, <3>3
        <4>2. Bottom(c) \in Nat /\ Len(c.streaming) \in Nat /\ new[1] = Bottom(c) /\ new[2] = Len(c.streaming) + 1
          <5>1. c.streaming \in Seq(Deltas)
            BY DEF PageStates
          <5> QED
            BY <1>4, <5>1, ShownIs
        <4> QED
          BY <2>4, <3>3, <4>1, <4>2 DEF Above
      <3> QED
        BY <1>6, <3>1, <3>2, <3>3
    <2>5. ASSUME NEW p \in TextPlaces(d, m)
          PROVE  TextAt(d, p)[2] \in 1..k + 1
      <3>1. CASE p \in TextPlaces(c, m)
        BY <1>6, <2>3, <3>1
      <3>2. CASE p = new
        BY <1>5, <1>6, <3>2
      <3> QED
        BY <1>6, <3>1, <3>2
    <2> QED
      BY <2>2, <2>4, <2>5 DEF TextsShown
  <1>8. \A u : SameBlocks(c, d, u)
    BY <1>3, SamePending
  <1>9. Bottom(d) = Bottom(c)
    BY <1>3 DEF Bottom
  <1>10. ASSUME NEW n \in 1..Len(prts)
         PROVE  \E p : CallGrows(d, <<m, n>>, p, prts[n], b)
    <2>1. PICK p : CallGrows(c, <<m, n>>, p, prts[n], b)
      BY DEF Growing
    <2>2. UseShown(d, <<m, n>>, p) /\ BlockAt(d, p) = BlockAt(c, p)
      BY <1>8, <2>1, UseUntouched DEF CallGrows
    <2>3. CallGrows(d, <<m, n>>, p, prts[n], b)
      BY <1>3, <1>9, <2>1, <2>2 DEF CallGrows
    <2> QED
      BY <2>3
  <1>11. \A n \in Nat : n > Len(prts) => UsePlaces(d, <<m, n>>) = {}
    BY <1>8 DEF Growing, SameBlocks
  <1>12. Growing(d, m, k + 1, prts, b)
    BY <1>7, <1>10, <1>11 DEF Growing
  <1> QED
    BY <1>1, <1>12

LEMMA CallIsShown ==
    ASSUME NEW c \in PageStates, NEW e \in Arriving, e.type = "tool_use_start",
           NEW m \in Nat, NEW k \in Nat, NEW prts \in Seq(Nat), NEW b, Growing(c, m, k, prts, b),
           e.m = m, e.n = Len(prts) + 1
    PROVE  Growing(Handled(c, e), m, k, Append(prts, 0), b)
  <1>1. PICK d \in PageStates : d = Handled(c, e)
    BY HandledIs
  <1>2. PICK l \in Nat : l = Len(prts)
    OBVIOUS
  <1>3. PICK v : v = <<m, l + 1>>
    OBVIOUS
  <1>4. v \in Ids /\ v \in Nat \X Nat
    BY <1>2, <1>3 DEF Arriving, ToolEvents
  <1>5. PICK x \in CallBlocks : x = [type |-> "tool_use", use |-> v, input |-> 0]
    <2>1. [type |-> "tool_use", use |-> v, input |-> 0] \in CallBlocks
      BY <1>4 DEF CallBlocks
    <2> QED
      BY <2>1
  <1>6. x \in CallBlocks /\ x.type = "tool_use" /\ x.use = v /\ x.input = 0
    BY <1>5
  <1>7. /\ d.streaming = c.streaming /\ d.messages = c.messages /\ d.pending = Append(c.pending, x)
        /\ d.tools = [c.tools EXCEPT ![v] = [status |-> "running", buffer |-> 0]]
    <2>1. e.type # "tool_result" /\ <<e.m, e.n>> = v
      BY <1>2, <1>3
    <2> QED
      BY <1>1, <1>5, <2>1, BlockEffect
  <1>8. PICK new : new = <<Bottom(c), Len(c.pending) + 1>>
    OBVIOUS
  <1>9. d.messages = c.messages /\ d.pending = Append(c.pending, x) /\ Bottom(d) = Bottom(c)
    BY <1>7 DEF Bottom
  <1>10. ASSUME NEW u, u # v
         PROVE  SameBlocks(c, d, u)
    <2>1. ~(x.type = "tool_use" /\ x.use = u)
      BY <1>6, <1>10
    <2> QED
      BY <1>6, <1>8, <1>9, <2>1, BlocksGrow DEF BlockShown
  <1>11. UsePlaces(d, v) = UsePlaces(c, v) \cup {new} /\ BlockAt(d, new) = x
    <2>1. x \in CallBlocks /\ x.type = "tool_use" /\ x.use = v
      BY <1>6
    <2>2. BlockShown(c, d, x, new)
      BY <1>8, <1>9 DEF BlockShown
    <2>3. UseAdded(c, d, v, x, new)
      BY <2>1, <2>2, BlocksGrow
    <2> QED
      BY <2>3 DEF UseAdded
  <1>12. \A u \in Ids : u # v => d.tools[u] = c.tools[u]
    BY <1>7 DEF PageStates
  <1>13. d.tools[v].buffer = 0
    <2>1. c.tools \in [Ids -> ToolCards]
      BY DEF PageStates
    <2> QED
      BY <1>4, <1>7, <2>1
  <1>14. UsePlaces(c, v) = {}
    BY <1>2, <1>3, SMTT(30) DEF Growing
  <1>15. TextsShown(d, m, k)
    <2>1. SameTexts(c, d)
      BY <1>7, SameStreaming
    <2> QED
      BY <2>1, TextsUntouched DEF Growing, SameTexts
  <1>16. PICK longer \in Seq(Nat) : longer = Append(prts, 0)
    BY AppendProperties
  <1>17. /\ Len(longer) = l + 1 /\ longer[l + 1] = 0
         /\ \A n \in 1..l : longer[n] = prts[n]
    BY <1>2, <1>16, AppendProperties
  <1>18. ASSUME NEW n \in 1..Len(longer)
         PROVE  \E p : CallGrows(d, <<m, n>>, p, longer[n], b)
    <2>1. CASE n = l + 1
      <3>1. <<m, n>> = v /\ longer[n] = 0
        BY <1>3, <1>17, <2>1
      <3>2. UseShown(d, v, new)
        BY <1>11, <1>14 DEF UseShown
      <3>3. new[1] = Bottom(d)
        BY <1>8, <1>9
      <3>4. BlockAt(d, new).input = 0 /\ 0 # Pieces
        BY <1>6, <1>11 DEF Pieces
      <3>5. CallGrows(d, <<m, n>>, new, longer[n], b)
        BY <1>13, <3>1, <3>2, <3>3, <3>4 DEF CallGrows
      <3> QED
        BY <3>5
    <2>2. CASE n \in 1..l
      <3>1. PICK p : CallGrows(c, <<m, n>>, p, prts[n], b)
        BY <1>2, <2>2 DEF Growing
      <3>2. <<m, n>> # v /\ <<m, n>> \in Ids
        <4>1. m \in 1..MaxMessages /\ l + 1 \in 1..MaxUses
          BY <1>3, <1>4 DEF Ids
        <4>2. n \in 1..MaxUses
          BY <2>2, <4>1, PageAssumption
        <4>3. <<m, n>> # v
          BY <1>3, <2>2
        <4> QED
          BY <4>1, <4>2, <4>3 DEF Ids
      <3>3. UseShown(d, <<m, n>>, p) /\ BlockAt(d, p) = BlockAt(c, p)
        BY <1>10, <3>1, <3>2, UseUntouched DEF CallGrows
      <3>4. d.tools[<<m, n>>] = c.tools[<<m, n>>]
        BY <1>12, <3>2
      <3>5. longer[n] = prts[n] /\ Bottom(d) = Bottom(c)
        BY <1>9, <1>17, <2>2
      <3>6. CallGrows(d, <<m, n>>, p, longer[n], b)
        BY <3>1, <3>3, <3>4, <3>5 DEF CallGrows
      <3> QED
        BY <3>6
    <2>3. n = l + 1 \/ n \in 1..l
      BY <1>2, <1>17
    <2> QED
      BY <2>1, <2>2, <2>3
  <1>19. ASSUME NEW n \in Nat, n > Len(longer)
         PROVE  UsePlaces(d, <<m, n>>) = {}
    <2>1. <<m, n>> # v /\ n > Len(prts)
      BY <1>2, <1>3, <1>17, <1>19
    <2> QED
      BY <1>10, <2>1 DEF Growing, SameBlocks
  <1>20. Growing(d, m, k, longer, b)
    BY <1>15, <1>18, <1>19 DEF Growing
  <1> QED
    BY <1>1, <1>16, <1>20

LEMMA InputIsShown ==
    ASSUME NEW c \in PageStates, NEW e \in Arriving, e.type = "input_json_delta",
           NEW m \in Nat, NEW k \in Nat, NEW prts \in Seq(Nat), NEW b, Growing(c, m, k, prts, b),
           NEW o \in 1..Len(prts), Len(prts) <= MaxUses, e.m = m, e.n = o
    PROVE  Growing(Handled(c, e), m, k, [prts EXCEPT ![o] = @ + 1], b)
  <1>1. PICK d \in PageStates : d = Handled(c, e)
    BY HandledIs
  <1>2. PICK v : v = <<m, o>>
    OBVIOUS
  <1>3. v \in Ids
    BY <1>2 DEF Arriving, ToolEvents
  <1>4. c.tools[v].buffer \in Nat
    BY <1>2, InputEffect
  <1>5. PICK input \in Nat : input = IF c.tools[v].buffer + 1 = Pieces THEN Pieces ELSE 0
    BY DEF Pieces
  <1>6. /\ d.streaming = c.streaming /\ d.messages = c.messages
        /\ d.pending = WithInput(c.pending, v, input)
        /\ d.tools = [c.tools EXCEPT ![v] = [status |-> "running", buffer |-> c.tools[v].buffer + 1]]
    BY <1>1, <1>2, <1>5, InputEffect
  <1>7. Bottom(d) = Bottom(c)
    BY <1>6 DEF Bottom
  <1>8. /\ \A u : u # v => SameBlocks(c, d, u)
        /\ \A u : UsePlaces(d, u) = UsePlaces(c, u)
        /\ \A p \in UsePlaces(c, v) : p[1] = Bottom(c) => BlockAt(d, p).input = input
    <2>1. InputShown(c, d, v, input)
      BY <1>6 DEF InputShown
    <2>2. ASSUME NEW u, u # v
          PROVE  SameBlocks(c, d, u)
      BY <2>1, <2>2, InputGrows
    <2>3. InputSet(c, d, v, input)
      BY <2>1, InputGrows
    <2>4. ASSUME NEW u
          PROVE  UsePlaces(d, u) = UsePlaces(c, u)
      BY <2>2, <2>3 DEF SameBlocks, InputSet
    <2> QED
      BY <2>2, <2>3, <2>4 DEF InputSet
  <1>9. c.tools \in [Ids -> ToolCards]
    BY DEF PageStates
  <1>10. d.tools[v].buffer = c.tools[v].buffer + 1 /\ \A u \in Ids : u # v => d.tools[u] = c.tools[u]
    BY <1>3, <1>6, <1>9
  <1>11. TextsShown(d, m, k)
    <2>1. SameTexts(c, d)
      BY <1>6, SameStreaming
    <2> QED
      BY <2>1, TextsUntouched DEF Growing, SameTexts
  <1>12. PICK more : more = [prts EXCEPT ![o] = @ + 1]
    OBVIOUS
  <1>13. /\ Len(more) = Len(prts) /\ more[o] = prts[o] + 1
         /\ \A n \in 1..Len(prts) : n # o => more[n] = prts[n]
    BY <1>12
  <1>14. ASSUME NEW n \in 1..Len(more)
         PROVE  \E p : CallGrows(d, <<m, n>>, p, more[n], b)
    <2>1. PICK p : CallGrows(c, <<m, n>>, p, prts[n], b)
      BY <1>13 DEF Growing
    <2>2. CASE n = o
      <3>1. <<m, n>> = v
        BY <1>2, <2>2
      <3>2. UseShown(d, v, p) /\ p \in UsePlaces(c, v)
        BY <1>8, <2>1, <3>1 DEF UseShown, CallGrows
      <3>3. ASSUME ~b
            PROVE  /\ p[1] = Bottom(d) /\ BlockAt(d, p).input = (IF more[n] = Pieces THEN Pieces ELSE 0)
                   /\ d.tools[v].buffer = more[n]
        <4>1. p[1] = Bottom(c) /\ c.tools[v].buffer = prts[o]
          BY <2>1, <2>2, <3>1, <3>3 DEF CallGrows
        <4>2. BlockAt(d, p).input = input
          BY <1>8, <3>2, <4>1
        <4> QED
          BY <1>5, <1>7, <1>10, <1>13, <2>2, <4>1, <4>2
      <3>4. CallGrows(d, <<m, n>>, p, more[n], b)
        BY <3>1, <3>2, <3>3 DEF CallGrows
      <3> QED
        BY <3>4
    <2>3. CASE n # o
      <3>1. <<m, n>> # v /\ <<m, n>> \in Ids
        <4>1. m \in 1..MaxMessages
          BY <1>2, <1>3 DEF Ids
        <4>2. n \in 1..MaxUses
          <5>1. Len(prts) \in Nat /\ n \in 1..Len(prts)
            BY <1>13
          <5> QED
            BY <5>1, PageAssumption
        <4>3. <<m, n>> # v
          BY <1>2, <2>3
        <4> QED
          BY <4>1, <4>2, <4>3 DEF Ids
      <3>2. UseShown(d, <<m, n>>, p) /\ BlockAt(d, p) = BlockAt(c, p)
        BY <1>8, <2>1, <3>1, UseUntouched DEF CallGrows
      <3>3. d.tools[<<m, n>>] = c.tools[<<m, n>>] /\ more[n] = prts[n]
        BY <1>10, <1>13, <2>3, <3>1
      <3>4. CallGrows(d, <<m, n>>, p, more[n], b)
        BY <1>7, <2>1, <3>2, <3>3 DEF CallGrows
      <3> QED
        BY <3>4
    <2> QED
      BY <2>2, <2>3
  <1>15. \A n \in Nat : n > Len(more) => UsePlaces(d, <<m, n>>) = {}
    BY <1>8, <1>13 DEF Growing
  <1>16. Growing(d, m, k, more, b)
    BY <1>11, <1>14, <1>15 DEF Growing
  <1> QED
    BY <1>1, <1>12, <1>16

\* An error in the middle of the message.
LEMMA ErrorInTheMiddle ==
    ASSUME NEW c \in PageStates, NEW e \in Arriving, e.type = "error",
           NEW m \in Nat, NEW k \in Nat, NEW prts \in Seq(Nat), NEW b, Growing(c, m, k, prts, b),
           NEW a, a
    PROVE  Growing(Handled(c, e), m, k, prts, a)
  <1>1. PICK d : d = Handled(c, e)
    OBVIOUS
  <1>2. Untouched(c, d, m)
    BY <1>1, Finished
  <1>3. TextsShown(d, m, k)
    BY <1>2, TextsUntouched DEF Growing, Untouched
  <1>4. ASSUME NEW n \in 1..Len(prts)
        PROVE  \E p : CallGrows(d, <<m, n>>, p, prts[n], a)
    <2>1. PICK p : UseShown(c, <<m, n>>, p)
      BY DEF Growing, CallGrows
    <2>2. SameBlocks(c, d, <<m, n>>)
      BY <1>2 DEF Untouched
    <2>3. CallGrows(d, <<m, n>>, p, prts[n], a)
      BY <2>1, <2>2, UseUntouched DEF CallGrows
    <2> QED
      BY <2>3
  <1>5. \A n \in Nat : n > Len(prts) => UsePlaces(d, <<m, n>>) = {}
    BY <1>2 DEF Growing, Untouched, SameBlocks
  <1>6. Growing(d, m, k, prts, a)
    BY <1>3, <1>4, <1>5 DEF Growing
  <1> QED
    BY <1>1, <1>6

LEMMA EndSettles ==
    ASSUME NEW c \in PageStates, NEW e \in Arriving, e.type = "assistant_message_end",
           NEW m \in Nat, NEW k \in Nat, NEW prts \in Seq(Nat), NEW b, Growing(c, m, k, prts, b),
           \A n \in 1..Len(prts) : prts[n] = Pieces,
           NEW r, r.m = m, r.texts = k, r.uses = Len(prts)
    PROVE  Settled(Handled(c, e), r, b)
  <1>1. PICK d : d = Handled(c, e)
    OBVIOUS
  <1>2. Untouched(c, d, m) /\ Nothing(d, m)
    BY <1>1, Finished
  <1>3. TextsShown(d, m, k)
    BY <1>2, TextsUntouched DEF Growing, Untouched
  <1>4. ASSUME NEW n \in 1..Len(prts)
        PROVE  \E p : UseShown(d, <<m, n>>, p) /\ (~b => BlockAt(d, p).input = Pieces)
    <2>1. PICK p : CallGrows(c, <<m, n>>, p, prts[n], b)
      BY DEF Growing
    <2>3. UseShown(c, <<m, n>>, p) /\ (~b => BlockAt(c, p).input = Pieces)
      BY <2>1 DEF CallGrows
    <2>2. SameBlocks(c, d, <<m, n>>)
      BY <1>2 DEF Untouched
    <2> QED
      BY <2>2, <2>3, UseUntouched
  <1>5. Settled(d, r, b)
    BY <1>2, <1>3, <1>4 DEF Settled
  <1> QED
    BY <1>1, <1>5

-----------------------------------------------------------------------------
(* The steps of the page and its loop. *)

LEMMA EventIs ==
    ASSUME NEW t \in EventTypes, NEW m \in Nat, NEW n \in Nat, t \in ToolEvents => <<m, n>> \in Ids
    PROVE  Event(t, m, n) \in Arriving /\ Event(t, m, n).type = t /\ Event(t, m, n).m = m /\ Event(t, m, n).n = n
  BY DEF Event, Arriving

LEMMA PlainEventIs ==
    ASSUME NEW t \in {"assistant_message_start", "assistant_text", "assistant_message_end",
                      "permission_request", "error"}, NEW m \in Nat, NEW n \in Nat
    PROVE  Event(t, m, n) \in Arriving /\ Event(t, m, n).type = t /\ Event(t, m, n).m = m /\ Event(t, m, n).n = n
  <1>1. t \in EventTypes /\ t \notin ToolEvents
    BY DEF EventTypes, ToolEvents
  <1> QED
    BY <1>1 DEF Event, Arriving

\* What is known of the page as the events on their way will make it.
Known(h) == PageTypes /\ Ahead(h) /\ SettledAhead(h) /\ GrowingAhead(h) /\ UnseenAhead(h)

LEMMA AheadIs ==
    ASSUME NEW h, Known(h)
    PROVE  /\ Len(onTheWay) \in Nat /\ Len(recorded) \in Nat /\ loop.m \in Nat
           /\ \A i \in 0..Len(onTheWay) : h[i] \in PageStates
           /\ \A k \in 1..Len(onTheWay) : onTheWay[k] \in Arriving
           /\ \A j \in 1..Len(recorded) :
                 recorded[j] \in Records /\ recorded[j].m \in Nat /\ recorded[j].uses \in Nat
  <1>1. /\ onTheWay \in Seq(Arriving) /\ recorded \in Seq(Records) /\ loop.m \in 0..MaxMessages
        /\ h \in [0..Len(onTheWay) -> PageStates]
    BY DEF Known, PageTypes, RecordedOK, LoopOK, Ahead
  <1>2. \A r \in Records : r.m \in Nat /\ r.uses \in Nat
    BY DEF Records
  <1> QED
    BY <1>1, <1>2, PageAssumption

\* One more event on its way.
Longer(h, e) ==
    [i \in 0..Len(onTheWay) + 1 |-> IF i <= Len(onTheWay) THEN h[i] ELSE Handled(h[Len(onTheWay)], e)]

LEMMA AheadGrows ==
    ASSUME NEW h, Known(h), NEW e \in Arriving, onTheWay' = onTheWay \o <<e>>, chat' = chat,
           NEW g, g = Longer(h, e)
    PROVE  /\ onTheWay' \in Seq(Arriving) /\ Len(onTheWay') = Len(onTheWay) + 1
           /\ \A k \in 1..Len(onTheWay) : onTheWay'[k] = onTheWay[k]
           /\ onTheWay'[Len(onTheWay) + 1] = e
           /\ Ahead(g)'
           /\ \A i \in 0..Len(onTheWay) : g[i] = h[i]
           /\ g[Len(onTheWay) + 1] = Handled(h[Len(onTheWay)], e)
  <1>1. onTheWay \in Seq(Arriving) /\ <<e>> \in Seq(Arriving) /\ Len(<<e>>) = 1 /\ <<e>>[1] = e
    BY DEF Known, PageTypes
  <1>2. /\ onTheWay' \in Seq(Arriving) /\ Len(onTheWay') = Len(onTheWay) + 1
        /\ \A k \in 1..Len(onTheWay) : onTheWay'[k] = onTheWay[k]
        /\ onTheWay'[Len(onTheWay) + 1] = e
    BY <1>1, ConcatProperties
  <1>3. PICK l \in Nat : l = Len(onTheWay)
    BY AheadIs
  <1>4. PICK c \in PageStates : c = h[l]
    BY <1>3, AheadIs
  <1>5. PICK d \in PageStates : d = Handled(c, e)
    BY HandledIs
  <1>6. g = [i \in 0..l + 1 |-> IF i <= l THEN h[i] ELSE d]
    BY <1>3, <1>4, <1>5 DEF Longer
  <1>7. (\A i \in 0..l : g[i] = h[i]) /\ g[l + 1] = d
    BY <1>6
  <1>8. g \in [0..l + 1 -> PageStates]
    <2>1. \A i \in 0..l : h[i] \in PageStates
      BY <1>3, AheadIs
    <2>2. \A i \in 0..l + 1 : g[i] \in PageStates
      BY <1>5, <1>6, <2>1
    <2> QED
      BY <1>6, <2>2
  <1>9. \A i \in 1..l + 1 : g[i] = Handled(g[i - 1], onTheWay'[i])
    <2>1. ASSUME NEW i \in 1..l
          PROVE  g[i] = Handled(g[i - 1], onTheWay'[i])
      <3>1. h[i] = Handled(h[i - 1], onTheWay[i])
        BY <1>3 DEF Known, Ahead
      <3>2. g[i] = h[i] /\ g[i - 1] = h[i - 1] /\ onTheWay'[i] = onTheWay[i]
        BY <1>2, <1>3, <1>7
      <3> QED
        BY <3>1, <3>2
    <2>2. g[l + 1] = Handled(g[l], onTheWay'[l + 1])
      BY <1>2, <1>3, <1>4, <1>5, <1>7
    <2>3. ASSUME NEW i \in 1..l + 1
          PROVE  g[i] = Handled(g[i - 1], onTheWay'[i])
      <3>1. CASE i \in 1..l
        BY <2>1, <3>1
      <3>2. CASE i = l + 1
        <4>1. i - 1 = l
          BY <3>2
        <4>2. PICK b : b = g[l]
          OBVIOUS
        <4>3. g[i - 1] = b
          BY <4>1, <4>2
        <4>4. PICK x : x = onTheWay'[l + 1]
          OBVIOUS
        <4>5. onTheWay'[i] = x
          BY <3>2, <4>4
        <4>6. g[i] = Handled(b, x)
          BY <2>2, <3>2, <4>2, <4>4
        <4> QED
          BY <4>3, <4>5, <4>6
      <3>3. i \in 1..l \/ i = l + 1
        OBVIOUS
      <3> QED
        BY <3>1, <3>2, <3>3
    <2> QED
      BY <2>3
  <1>10. Alike(g[0], chat')
    <2>1. Alike(h[0], chat)
      BY DEF Known, Ahead
    <2> QED
      BY <1>7, <2>1
  <1>11. Ahead(g)'
    BY <1>2, <1>3, <1>8, <1>9, <1>10 DEF Ahead
  <1> QED
    BY <1>2, <1>3, <1>4, <1>5, <1>7, <1>11

\* A message that was recorded before is not touched by one more event.
LEMMA SettledGrows ==
    ASSUME NEW h, Known(h), NEW e \in Arriving, onTheWay' = onTheWay \o <<e>>, chat' = chat,
           NEW g, g = Longer(h, e), NEW j \in 1..Len(recorded), NEW r, r = recorded[j],
           e.type \in {"assistant_text", "tool_use_start", "input_json_delta"} => e.m # r.m,
           NEW i \in 0..Len(onTheWay'), r.m \notin lost, ~EndComes(r.m, i)'
    PROVE  Settled(g[i], r, r.m \in broken)
  <1>1. PICK l \in Nat : l = Len(onTheWay)
    BY AheadIs
  <1>2. /\ Len(onTheWay') = l + 1 /\ \A k \in 1..l : onTheWay'[k] = onTheWay[k]
        /\ \A k \in 0..l : g[k] = h[k]
        /\ g[l + 1] = Handled(h[l], e)
    BY <1>1, AheadGrows
  <1>3. ASSUME NEW k \in 0..l, ~EndComes(r.m, k)
        PROVE  Settled(h[k], r, r.m \in broken)
    BY <1>1, <1>3 DEF Known, SettledAhead
  <1>4. CASE i \in 0..l
    <2>1. ~EndComes(r.m, i)
      <3>1. ASSUME NEW k \in 1..l, k > i
            PROVE  onTheWay[k] # Event("assistant_message_end", r.m, 0)
        <4>1. k \in 1..Len(onTheWay')
          BY <1>2
        <4>2. onTheWay'[k] # Event("assistant_message_end", r.m, 0)
          BY <3>1, <4>1 DEF EndComes
        <4> QED
          BY <1>2, <4>2
      <3> QED
        BY <1>1, <3>1 DEF EndComes
    <2> QED
      BY <1>2, <1>3, <1>4, <2>1
  <1>5. CASE i = l + 1
    <2>1. ~EndComes(r.m, l)
      BY <1>1 DEF EndComes
    <2>2. PICK c \in PageStates : c = h[l]
      BY <1>1, AheadIs
    <2>3. Settled(c, r, r.m \in broken)
      BY <1>3, <2>1, <2>2
    <2>4. r.m \in Nat /\ r.uses \in Nat
      BY AheadIs
    <2>5. Untouched(c, Handled(c, e), r.m) /\ Nothing(Handled(c, e), r.m)
      BY <2>3, <2>4, Elsewhere DEF Settled
    <2>6. Settled(Handled(c, e), r, r.m \in broken)
      BY <2>3, <2>4, <2>5, SettledStays
    <2> QED
      BY <1>2, <1>5, <2>2, <2>6
  <1>6. i \in 0..l \/ i = l + 1
    BY <1>2
  <1> QED
    BY <1>4, <1>5, <1>6

LEMMA UnseenGrows ==
    ASSUME NEW c, NEW m \in Nat, NEW n \in Nat, m <= n, Unseen(c, m)
    PROVE  Unseen(c, n)
  BY DEF Unseen

Sent(e) == onTheWay' = onTheWay \o <<e>> /\ chat' = chat /\ lost' = lost
OldRecordsStay(e) ==
    /\ Len(recorded') >= Len(recorded)
    /\ \A j \in 1..Len(recorded) :
          /\ recorded'[j] = recorded[j] /\ (recorded[j].m \in broken' <=> recorded[j].m \in broken)
          /\ e.type \in {"assistant_text", "tool_use_start", "input_json_delta"} => e.m # recorded[j].m
NewRecordsEnd(c, e) ==
    \A j \in 1..Len(recorded') : j > Len(recorded) =>
        /\ e = Event("assistant_message_end", recorded'[j].m, 0)
        /\ Settled(Handled(c, e), recorded'[j], recorded'[j].m \in broken')
GrowsOn(c, e) ==
    loop'.phase = "streaming" =>
        Growing(Handled(c, e), loop'.m, loop'.texts, loop'.parts, loop'.m \in broken')

LEMMA SendKeeps ==
    ASSUME NEW h, Known(h), NEW e \in Arriving, Sent(e), LoopOK', RecordedOK', loop'.m >= loop.m, e.m <= loop'.m,
           NEW c, c = h[Len(onTheWay)], OldRecordsStay(e), NewRecordsEnd(c, e), GrowsOn(c, e)
    PROVE  PageInv'
  <1> USE DEF Sent, OldRecordsStay, NewRecordsEnd, GrowsOn
  <1>1. PICK g : g = Longer(h, e)
    OBVIOUS
  <1>2. PICK l \in Nat : l = Len(onTheWay)
    BY AheadIs
  <1>3. /\ onTheWay' \in Seq(Arriving) /\ Len(onTheWay') = l + 1 /\ onTheWay'[l + 1] = e
        /\ Ahead(g)'
        /\ \A i \in 0..l : g[i] = h[i]
        /\ g[l + 1] = Handled(h[l], e)
    BY <1>1, <1>2, AheadGrows
  <1>4. PageTypes'
    <2>1. chat \in PageStates
      BY DEF Known, PageTypes
    <2> QED
      BY <1>3, <2>1 DEF PageTypes
  <1>5. SettledAhead(g)'
    <2>1. ASSUME NEW j \in 1..Len(recorded'), NEW i \in 0..Len(onTheWay'), NEW r, r = recorded'[j],
                 r.m \notin lost, ~EndComes(r.m, i)'
          PROVE  Settled(g[i], r, r.m \in broken')
      <3>1. CASE j \in 1..Len(recorded)
        <4>1. r = recorded[j] /\ (r.m \in broken' <=> r.m \in broken)
          BY <2>1, <3>1
        <4>2. e.type \in {"assistant_text", "tool_use_start", "input_json_delta"} => e.m # r.m
          BY <3>1, <4>1
        <4>3. Settled(g[i], r, r.m \in broken)
          BY <1>1, <2>1, <3>1, <4>1, <4>2, SettledGrows
        <4> QED
          BY <4>1, <4>3 DEF Settled
      <3>2. CASE j > Len(recorded)
        <4>1. /\ e = Event("assistant_message_end", r.m, 0)
              /\ Settled(Handled(h[l], e), r, r.m \in broken')
          BY <1>2, <2>1, <3>2
        <4>2. i = l + 1
          <5>1. SUFFICES ASSUME i # l + 1 PROVE FALSE
            OBVIOUS
          <5>2. l + 1 \in 1..Len(onTheWay') /\ l + 1 > i
            BY <1>3, <5>1
          <5>3. onTheWay'[l + 1] = Event("assistant_message_end", r.m, 0)
            BY <1>3, <4>1
          <5>4. EndComes(r.m, i)'
            BY <5>2, <5>3 DEF EndComes
          <5> QED
            BY <2>1, <5>4
        <4> QED
          BY <1>3, <4>1, <4>2
      <3>3. j \in 1..Len(recorded) \/ j > Len(recorded)
        <4>1. Len(recorded) \in Nat
          BY AheadIs
        <4> QED
          BY <4>1
      <3> QED
        BY <3>1, <3>2, <3>3
    <2>2. ASSUME NEW j \in 1..Len(recorded'), NEW i \in 0..Len(onTheWay')
          PROVE  (recorded[j].m \notin lost /\ ~EndComes(recorded[j].m, i))'
                     => Settled(g[i], recorded[j], recorded[j].m \in broken)'
      <3>1. PICK r : r = recorded'[j]
        OBVIOUS
      <3>2. EndComes(r.m, i)' <=> EndComes(recorded[j].m, i)'
        BY <3>1 DEF EndComes
      <3> QED
        BY <2>1, <3>1, <3>2
    <2> QED
      BY <2>2 DEF SettledAhead
  <1>6. GrowingAhead(g)'
    BY <1>2, <1>3 DEF GrowingAhead
  <1>7. UnseenAhead(g)'
    <2>1. loop.m \in Nat /\ loop'.m \in Nat
      BY AheadIs, PageAssumption DEF LoopOK
    <2>2. ASSUME NEW i \in 0..l
          PROVE  Unseen(h[i], loop'.m)
      <3>1. Unseen(h[i], loop.m)
        BY <1>2 DEF Known, UnseenAhead
      <3> QED
        BY <2>1, <3>1, UnseenGrows
    <2>3. Unseen(Handled(h[l], e), loop'.m)
      <3>1. h[l] \in PageStates /\ Unseen(h[l], loop'.m)
        BY <1>2, <2>2, AheadIs
      <3> QED
        BY <2>1, <3>1, UnseenStays
    <2>4. \A i \in 0..l + 1 : i \in 0..l \/ i = l + 1
      OBVIOUS
    <2> QED
      BY <1>3, <2>2, <2>3, <2>4 DEF UnseenAhead
  <1> QED
    BY <1>3, <1>4, <1>5, <1>6, <1>7 DEF PageInv

\* Nothing is sent and nothing arrives.
LEMMA RestKeeps ==
    ASSUME NEW h, Known(h), onTheWay' = onTheWay, recorded' = recorded, lost' = lost, broken' = broken,
           LoopOK', loop'.m = loop.m, loop'.phase = "streaming" => loop' = loop,
           chat' \in PageStates, Alike(chat, chat')
    PROVE  PageInv'
  <1>1. PageTypes'
    BY DEF Known, PageTypes, RecordedOK
  <1>2. Ahead(h)'
    <2>1. Alike(h[0], chat')
      BY DEF Known, Ahead, Alike
    <2> QED
      BY <2>1 DEF Known, Ahead
  <1>3. SettledAhead(h)'
    BY DEF Known, SettledAhead, EndComes
  <1>4. GrowingAhead(h)'
    BY DEF Known, GrowingAhead
  <1>5. UnseenAhead(h)'
    BY DEF Known, UnseenAhead
  <1> QED
    BY <1>1, <1>2, <1>3, <1>4, <1>5 DEF PageInv

LEMMA HandleServerEventKeeps ==
    ASSUME NEW h, Known(h), HandleServerEvent
    PROVE  PageInv'
  <1>1. PICK l \in Nat : l = Len(onTheWay)
    BY AheadIs
  <1>2. onTheWay \in Seq(Arriving) /\ onTheWay # <<>> /\ l > 0
    BY <1>1 DEF Known, PageTypes, HandleServerEvent
  <1>3. /\ onTheWay' \in Seq(Arriving) /\ Len(onTheWay') = l - 1
        /\ \A k \in 1..l - 1 : onTheWay'[k] = onTheWay[k + 1]
    BY <1>1, <1>2, HeadTailProperties DEF HandleServerEvent
  <1>4. PICK e \in Arriving : e = onTheWay[1]
    BY <1>1, <1>2, AheadIs
  <1>5. chat' = Handled(chat, e) /\ chat \in PageStates
    BY <1>2, <1>4 DEF HandleServerEvent, Known, PageTypes
  <1>6. PICK g : g = [i \in 0..l - 1 |-> h[i + 1]]
    OBVIOUS
  <1>7. g \in [0..l - 1 -> PageStates] /\ \A i \in 0..l - 1 : g[i] = h[i + 1]
    <2>1. \A i \in 0..l - 1 : h[i + 1] \in PageStates
      BY <1>1, AheadIs
    <2> QED
      BY <1>6, <2>1
  <1>8. PageTypes'
    <2>1. chat' \in PageStates
      BY <1>5, HandledIs
    <2>2. LoopOK' /\ RecordedOK'
      BY DEF HandleServerEvent, Known, PageTypes, LoopOK, RecordedOK
    <2> QED
      BY <1>3, <2>1, <2>2 DEF PageTypes
  <1>9. Ahead(g)'
    <2>1. Alike(g[0], chat')
      <3>1. PICK a \in PageStates : a = h[0]
        BY <1>1, AheadIs
      <3>2. Alike(a, chat) /\ h[1] = Handled(a, e)
        BY <1>1, <1>2, <1>4, <3>1 DEF Known, Ahead
      <3>3. g[0] = h[1]
        BY <1>2, <1>7
      <3> QED
        BY <1>5, <3>2, <3>3, HandledIs
    <2>2. ASSUME NEW i \in 1..l - 1
          PROVE  g[i] = Handled(g[i - 1], onTheWay'[i])
      <3>1. g[i] = h[i + 1] /\ g[i - 1] = h[i - 1 + 1] /\ i - 1 + 1 = i /\ onTheWay'[i] = onTheWay[i + 1]
        BY <1>3, <1>7
      <3>2. i + 1 \in 1..l /\ i + 1 - 1 = i
        OBVIOUS
      <3>3. h[i + 1] = Handled(h[i], onTheWay[i + 1])
        BY <1>1, <3>2 DEF Known, Ahead
      <3> QED
        BY <3>1, <3>3
    <2> QED
      BY <1>3, <1>7, <2>1, <2>2 DEF Ahead
  <1>10. SettledAhead(g)'
    <2>1. recorded' = recorded /\ lost' = lost /\ broken' = broken
      BY DEF HandleServerEvent
    <2>2. ASSUME NEW j \in 1..Len(recorded), NEW i \in 0..l - 1,
                 recorded[j].m \notin lost, ~EndComes(recorded[j].m, i)'
          PROVE  Settled(g[i], recorded[j], recorded[j].m \in broken)
      <3>1. ~EndComes(recorded[j].m, i + 1)
        <4>1. ASSUME NEW k \in 1..l, k > i + 1
              PROVE  onTheWay[k] # Event("assistant_message_end", recorded[j].m, 0)
          <5>1. k - 1 \in 1..l - 1 /\ k - 1 > i /\ k - 1 + 1 = k
            BY <4>1
          <5>2. onTheWay'[k - 1] # Event("assistant_message_end", recorded[j].m, 0)
            BY <1>3, <2>1, <2>2, <5>1 DEF EndComes
          <5> QED
            BY <1>3, <5>1, <5>2
        <4> QED
          BY <1>1, <4>1 DEF EndComes
      <3>2. i + 1 \in 0..Len(onTheWay)
        BY <1>1
      <3>3. Settled(h[i + 1], recorded[j], recorded[j].m \in broken)
        BY <2>2, <3>1, <3>2 DEF Known, SettledAhead
      <3> QED
        BY <1>7, <3>3
    <2> QED
      BY <1>3, <2>1, <2>2 DEF SettledAhead
  <1>11. GrowingAhead(g)'
    <2>1. loop' = loop /\ broken' = broken
      BY DEF HandleServerEvent
    <2>2. g[l - 1] = h[l]
      BY <1>2, <1>7
    <2> QED
      BY <1>1, <1>3, <2>1, <2>2 DEF Known, GrowingAhead
  <1>12. UnseenAhead(g)'
    <2>1. loop' = loop
      BY DEF HandleServerEvent
    <2>2. ASSUME NEW i \in 0..l - 1
          PROVE  Unseen(g[i], loop.m)
      <3>1. i + 1 \in 0..Len(onTheWay)
        BY <1>1
      <3> QED
        BY <1>7, <3>1 DEF Known, UnseenAhead
    <2> QED
      BY <1>3, <2>1, <2>2 DEF UnseenAhead
  <1> QED
    BY <1>8, <1>9, <1>10, <1>11, <1>12 DEF PageInv

LEMMA ConnectionBreaksKeeps ==
    ASSUME NEW h, Known(h), ConnectionBreaks
    PROVE  PageInv'
  <1>1. PICK l \in Nat : l = Len(onTheWay)
    BY AheadIs
  <1>2. /\ onTheWay' = <<>> /\ loop' = IdleLoop(loop.m)
        /\ lost' = lost \cup {onTheWay[k].m : k \in 1..Len(onTheWay)}
        /\ recorded' = recorded /\ chat' = chat /\ broken' = broken
    BY DEF ConnectionBreaks
  <1>3. onTheWay' \in Seq(Arriving) /\ Len(onTheWay') = 0
    <2>1. <<>> \in Seq(Arriving)
      OBVIOUS
    <2> QED
      BY <1>2, <2>1
  <1>4. LoopOK' /\ loop'.m = loop.m /\ loop'.phase = "idle"
    <2>1. loop.m \in 0..MaxMessages
      BY DEF Known, PageTypes, LoopOK
    <2>2. <<>> \in Seq(Nat) /\ Len(<<>>) = 0
      OBVIOUS
    <2> QED
      BY <1>2, <2>1, <2>2, PageAssumption DEF LoopOK, IdleLoop
  <1>5. PageTypes'
    <2>1. RecordedOK'
      BY <1>2, <1>4 DEF Known, PageTypes, RecordedOK
    <2> QED
      BY <1>2, <1>3, <1>4, <2>1 DEF Known, PageTypes
  <1>6. PICK g : g = [i \in 0..0 |-> h[0]]
    OBVIOUS
  <1>7. g \in [0..0 -> PageStates] /\ g[0] = h[0] /\ \A i \in 0..0 : i = 0
    <2>1. h[0] \in PageStates
      BY <1>1, AheadIs
    <2> QED
      BY <1>6, <2>1
  <1>8. Ahead(g)'
    <2>1. Alike(g[0], chat')
      BY <1>2, <1>7 DEF Known, Ahead
    <2> QED
      BY <1>3, <1>7, <2>1 DEF Ahead
  <1>9. SettledAhead(g)'
    <2>1. ASSUME NEW j \in 1..Len(recorded), recorded[j].m \notin lost'
          PROVE  Settled(h[0], recorded[j], recorded[j].m \in broken)
      <3>1. recorded[j].m \notin lost /\ \A k \in 1..Len(onTheWay) : onTheWay[k].m # recorded[j].m
        BY <1>2, <2>1
      <3>2. ~EndComes(recorded[j].m, 0)
        <4>1. recorded[j].m \in Nat
          BY AheadIs
        <4>2. Event("assistant_message_end", recorded[j].m, 0).m = recorded[j].m
          BY <4>1 DEF Event
        <4> QED
          BY <3>1, <4>2 DEF EndComes
      <3>3. 0 \in 0..Len(onTheWay)
        BY <1>1
      <3> QED
        BY <3>1, <3>2, <3>3 DEF Known, SettledAhead
    <2> QED
      BY <1>2, <1>3, <1>7, <2>1 DEF SettledAhead
  <1>10. GrowingAhead(g)'
    BY <1>4 DEF GrowingAhead
  <1>11. UnseenAhead(g)'
    <2>1. Unseen(h[0], loop.m)
      BY <1>1 DEF Known, UnseenAhead
    <2> QED
      BY <1>3, <1>4, <1>7, <2>1 DEF UnseenAhead
  <1> QED
    BY <1>5, <1>8, <1>9, <1>10, <1>11 DEF PageInv

LEMMA PageInvShows == PageInv => ShowsWhatWasRecorded
  <1> SUFFICES ASSUME PageInv PROVE ShowsWhatWasRecorded
    OBVIOUS
  <1>1. PICK h : Known(h)
    BY DEF PageInv, Known
  <1>2. PICK c : c = h[0] /\ Alike(c, chat)
    BY <1>1 DEF Known, Ahead
  <1>3. OnPage(c) = OnPage(chat)
    BY <1>2 DEF Alike, OnPage, Blocks
  <1>4. /\ \A m : TextPlaces(c, m) = TextPlaces(chat, m)
        /\ \A u : UsePlaces(c, u) = UsePlaces(chat, u)
        /\ \A p : TextAt(c, p) = TextAt(chat, p) /\ BlockAt(c, p) = BlockAt(chat, p)
    BY <1>3 DEF TextPlaces, UsePlaces, TextAt, BlockAt
  <1>5. ASSUME NEW i \in 1..Len(recorded), NEW r, r = recorded[i], r.m \notin lost,
               Event("assistant_message_end", r.m, 0) \notin {onTheWay[k] : k \in 1..Len(onTheWay)}
        PROVE  /\ \A k \in 1..r.texts : \E p \in TextPlaces(chat, r.m) : TextAt(chat, p) = <<r.m, k>>
               /\ \A p, q \in TextPlaces(chat, r.m) : Above(p, q) => TextAt(chat, p)[2] < TextAt(chat, q)[2]
               /\ \A p \in TextPlaces(chat, r.m) : TextAt(chat, p)[2] \in 1..r.texts
               /\ \A n \in 1..r.uses : \E p \in UsePlaces(chat, <<r.m, n>>) :
                     /\ UsePlaces(chat, <<r.m, n>>) = {p}
                     /\ r.m \notin broken => BlockAt(chat, p).input = Pieces
    <2>1. Settled(c, r, r.m \in broken)
      <3>1. ~EndComes(r.m, 0)
        BY <1>5 DEF EndComes
      <3>2. 0 \in 0..Len(onTheWay)
        BY <1>1, AheadIs
      <3> QED
        BY <1>1, <1>2, <1>5, <3>1, <3>2 DEF Known, SettledAhead
    <2>2. TextsShown(c, r.m, r.texts)
      BY <2>1 DEF Settled
    <2>3. ASSUME NEW n \in 1..r.uses
          PROVE  \E p \in UsePlaces(chat, <<r.m, n>>) :
                    /\ UsePlaces(chat, <<r.m, n>>) = {p}
                    /\ r.m \notin broken => BlockAt(chat, p).input = Pieces
      <3>1. PICK p : UseShown(c, <<r.m, n>>, p) /\ (r.m \notin broken => BlockAt(c, p).input = Pieces)
        BY <2>1 DEF Settled
      <3> QED
        BY <1>4, <3>1 DEF UseShown
    <2> QED
      BY <1>4, <2>2, <2>3 DEF TextsShown
  <1> QED
    BY <1>5 DEF ShowsWhatWasRecorded

\* A place in the loop.
LEMMA LoopIs ==
    ASSUME LoopOK
    PROVE  /\ loop.m \in Nat /\ loop.m <= MaxMessages /\ loop.texts \in Nat /\ loop.done \in Nat
           /\ loop.parts \in Seq(Nat) /\ Len(loop.parts) \in Nat /\ Len(loop.parts) <= MaxUses
           /\ loop = [phase |-> loop.phase, m |-> loop.m, texts |-> loop.texts, parts |-> loop.parts,
                      done |-> loop.done]
  BY PageAssumption DEF LoopOK

LEMMA OldRecords ==
    ASSUME NEW h, Known(h)
    PROVE  \A j \in 1..Len(recorded) :
              recorded[j].m <= loop.m /\ (loop.phase = "streaming" => recorded[j].m < loop.m /\ recorded[j].m # loop.m)
  <1>1. loop.m \in Nat /\ \A j \in 1..Len(recorded) : recorded[j].m \in Nat
    BY AheadIs
  <1> QED
    BY <1>1 DEF Known, PageTypes, RecordedOK

LEMMA StartMessageKeeps ==
    ASSUME NEW h, Known(h), StartMessage
    PROVE  PageInv'
  <1>1. LoopOK /\ RecordedOK
    BY DEF Known, PageTypes
  <1>2. /\ loop' = [phase |-> "streaming", m |-> loop.m + 1, texts |-> 0, parts |-> <<>>, done |-> 0]
        /\ recorded' = recorded /\ chat' = chat /\ lost' = lost /\ broken' = broken
    BY DEF StartMessage, IdleLoop
  <1>3. loop.m \in Nat /\ loop.m < MaxMessages
    BY <1>1, LoopIs DEF StartMessage
  <1>4. PICK e \in Arriving : /\ e = Event("assistant_message_start", loop.m + 1, 0)
                              /\ e.type = "assistant_message_start" /\ e.m = loop.m + 1
    <2>1. PICK m \in Nat : m = loop.m + 1
      BY <1>3
    <2>2. LET e == Event("assistant_message_start", m, 0) IN
          e \in Arriving /\ e.type = "assistant_message_start" /\ e.m = m
      BY PlainEventIs
    <2> QED
      BY <2>1, <2>2
  <1>5. onTheWay' = onTheWay \o <<e>>
    BY <1>4 DEF StartMessage, Send
  <1>6. /\ LoopOK' /\ loop'.m = loop.m + 1 /\ loop'.texts = 0 /\ loop'.parts = <<>> /\ loop'.phase = "streaming"
    <2>1. <<>> \in Seq(Nat) /\ Len(<<>>) = 0
      OBVIOUS
    <2>2. loop.m + 1 \in 0..MaxMessages
      BY <1>3, PageAssumption
    <2> QED
      BY <1>2, <1>3, <2>1, <2>2, PageAssumption DEF LoopOK
  <1>7. RecordedOK'
    <2>1. \A j \in 1..Len(recorded) : recorded[j].m < loop.m + 1 /\ recorded[j].m <= loop.m + 1
      BY <1>3, AheadIs, OldRecords
    <2>2. recorded \in Seq(Records)
      BY <1>1 DEF RecordedOK
    <2> QED
      BY <1>2, <1>6, <2>1, <2>2 DEF RecordedOK
  <1>8. PICK c \in PageStates : c = h[Len(onTheWay)]
    BY AheadIs
  <1>9. PICK m \in Nat : m = loop.m + 1
    BY <1>3
  <1>10. Growing(Handled(c, e), m, 0, <<>>, m \in broken)
    <2>1. Unseen(c, loop.m)
      BY <1>8, AheadIs DEF Known, UnseenAhead
    <2>2. Empty(c, m)
      BY <1>3, <1>9, <2>1 DEF Unseen
    <2> QED
      BY <1>4, <2>2, StartGrows
  <1>11. Sent(e) /\ OldRecordsStay(e) /\ NewRecordsEnd(c, e)
    <2>1. Len(recorded) \in Nat
      BY AheadIs
    <2> QED
      BY <1>2, <1>4, <1>5, <2>1 DEF Sent, OldRecordsStay, NewRecordsEnd
  <1>12. GrowsOn(c, e)
    BY <1>2, <1>6, <1>9, <1>10 DEF GrowsOn
  <1>13. loop'.m >= loop.m /\ e.m <= loop'.m
    BY <1>3, <1>4, <1>6
  <1> QED
    BY <1>6, <1>7, <1>8, <1>11, <1>12, <1>13, SendKeeps

LEMMA TextKeeps ==
    ASSUME NEW h, Known(h), Text
    PROVE  PageInv'
  <1>1. LoopOK /\ RecordedOK /\ loop.phase = "streaming"
    BY DEF Known, PageTypes, Text
  <1>2. /\ loop' = [loop EXCEPT !.texts = @ + 1]
        /\ recorded' = recorded /\ chat' = chat /\ lost' = lost /\ broken' = broken
    BY DEF Text
  <1>3. PICK m \in Nat, k \in Nat, prts \in Seq(Nat) : m = loop.m /\ k = loop.texts /\ prts = loop.parts
    BY <1>1, LoopIs
  <1>4. PICK e \in Arriving : /\ e = Event("assistant_text", m, k + 1)
                              /\ e.type = "assistant_text" /\ e.m = m /\ e.n = k + 1
    <2>1. PICK n \in Nat : n = k + 1
      OBVIOUS
    <2>2. /\ Event("assistant_text", m, n) \in Arriving /\ Event("assistant_text", m, n).type = "assistant_text"
          /\ Event("assistant_text", m, n).m = m /\ Event("assistant_text", m, n).n = n
      BY PlainEventIs
    <2> QED
      BY <2>1, <2>2
  <1>5. onTheWay' = onTheWay \o <<e>>
    BY <1>3, <1>4 DEF Text, Send
  <1>6. LoopOK' /\ loop'.m = m /\ loop'.texts = k + 1 /\ loop'.parts = prts /\ loop'.phase = "streaming"
    BY <1>1, <1>2, <1>3 DEF LoopOK
  <1>7. RecordedOK'
    BY <1>1, <1>2, <1>3, <1>6 DEF RecordedOK
  <1>8. PICK c \in PageStates : c = h[Len(onTheWay)]
    BY AheadIs
  <1>9. Growing(Handled(c, e), m, k + 1, prts, m \in broken)
    <2>1. Growing(c, m, k, prts, m \in broken)
      BY <1>1, <1>3, <1>8 DEF Known, GrowingAhead
    <2> QED
      BY <1>4, <2>1, TextIsShown
  <1>10. Len(recorded) \in Nat /\ \A j \in 1..Len(recorded) : recorded[j].m # m
    BY <1>1, <1>3, AheadIs, OldRecords
  <1>11. Sent(e) /\ OldRecordsStay(e) /\ NewRecordsEnd(c, e)
    BY <1>2, <1>4, <1>5, <1>10 DEF Sent, OldRecordsStay, NewRecordsEnd
  <1>12. GrowsOn(c, e)
    BY <1>2, <1>6, <1>9 DEF GrowsOn
  <1>13. loop'.m >= loop.m /\ e.m <= loop'.m
    BY <1>3, <1>4, <1>6
  <1> QED
    BY <1>6, <1>7, <1>8, <1>11, <1>12, <1>13, SendKeeps

LEMMA ToolUseStartKeeps ==
    ASSUME NEW h, Known(h), ToolUseStart
    PROVE  PageInv'
  <1>1. LoopOK /\ RecordedOK /\ loop.phase = "streaming" /\ loop.m >= 1
    BY DEF Known, PageTypes, ToolUseStart, LoopOK
  <1>2. /\ loop' = [loop EXCEPT !.parts = Append(@, 0)] /\ Len(loop.parts) < MaxUses
        /\ recorded' = recorded /\ chat' = chat /\ lost' = lost /\ broken' = broken
    BY DEF ToolUseStart
  <1>3. PICK m \in Nat, k \in Nat, prts \in Seq(Nat) : m = loop.m /\ k = loop.texts /\ prts = loop.parts
    BY <1>1, LoopIs
  <1>4. PICK l \in Nat : l = Len(prts)
    OBVIOUS
  <1>5. l < MaxUses /\ m \in 1..MaxMessages
    BY <1>1, <1>2, <1>3, <1>4, LoopIs
  <1>6. PICK e \in Arriving : /\ e = Event("tool_use_start", m, l + 1)
                              /\ e.type = "tool_use_start" /\ e.m = m /\ e.n = l + 1
    <2>1. l + 1 \in Nat /\ "tool_use_start" \in EventTypes
      BY DEF EventTypes, ToolEvents
    <2>2. <<m, l + 1>> \in Ids
      BY <1>5, PageAssumption DEF Ids
    <2> QED
      BY <2>1, <2>2, EventIs
  <1>7. onTheWay' = onTheWay \o <<e>>
    BY <1>3, <1>4, <1>6 DEF ToolUseStart, Send
  <1>8. PICK more \in Seq(Nat) : more = Append(prts, 0) /\ Len(more) = l + 1
    BY <1>4, AppendProperties
  <1>9. LoopOK' /\ loop'.m = m /\ loop'.texts = k /\ loop'.parts = more /\ loop'.phase = "streaming"
    <2>1. loop' = [loop EXCEPT !.parts = more]
      BY <1>1, <1>2, <1>3, <1>8 DEF LoopOK
    <2>2. Len(more) <= MaxUses
      BY <1>5, <1>8, PageAssumption
    <2> QED
      BY <1>1, <1>3, <1>8, <2>1, <2>2 DEF LoopOK
  <1>10. RecordedOK'
    BY <1>1, <1>2, <1>3, <1>9 DEF RecordedOK
  <1>11. PICK c \in PageStates : c = h[Len(onTheWay)]
    BY AheadIs
  <1>12. Growing(Handled(c, e), m, k, more, m \in broken)
    <2>1. Growing(c, m, k, prts, m \in broken)
      BY <1>1, <1>3, <1>11 DEF Known, GrowingAhead
    <2> QED
      BY <1>4, <1>6, <1>8, <2>1, CallIsShown
  <1>13. Len(recorded) \in Nat /\ \A j \in 1..Len(recorded) : recorded[j].m # m
    BY <1>1, <1>3, AheadIs, OldRecords
  <1>14. Sent(e) /\ OldRecordsStay(e) /\ NewRecordsEnd(c, e)
    BY <1>2, <1>6, <1>7, <1>13 DEF Sent, OldRecordsStay, NewRecordsEnd
  <1>15. GrowsOn(c, e)
    BY <1>2, <1>9, <1>12 DEF GrowsOn
  <1>16. loop'.m >= loop.m /\ e.m <= loop'.m
    BY <1>3, <1>6, <1>9
  <1> QED
    BY <1>9, <1>10, <1>11, <1>14, <1>15, <1>16, SendKeeps

LEMMA InputDeltaKeeps ==
    ASSUME NEW h, Known(h), InputDelta
    PROVE  PageInv'
  <1>1. PICK o \in 1..Len(loop.parts) :
           /\ loop.phase = "streaming" /\ loop' = [loop EXCEPT !.parts[o] = @ + 1]
           /\ Send(<<Event("input_json_delta", loop.m, o)>>)
           /\ recorded' = recorded /\ chat' = chat /\ lost' = lost /\ broken' = broken
    BY DEF InputDelta
  <1>2. LoopOK /\ RecordedOK /\ loop.phase = "streaming" /\ loop.m >= 1
    BY <1>1 DEF Known, PageTypes, LoopOK
  <1>3. PICK m \in Nat, k \in Nat, prts \in Seq(Nat) : m = loop.m /\ k = loop.texts /\ prts = loop.parts
    BY <1>2, LoopIs
  <1>4. Len(prts) \in Nat /\ o \in 1..Len(prts) /\ Len(prts) <= MaxUses /\ m \in 1..MaxMessages
    BY <1>1, <1>2, <1>3, LoopIs
  <1>5. o \in Nat /\ o \in 1..MaxUses
    BY <1>4, PageAssumption
  <1>6. PICK e \in Arriving : /\ e = Event("input_json_delta", m, o)
                              /\ e.type = "input_json_delta" /\ e.m = m /\ e.n = o
    <2>1. "input_json_delta" \in EventTypes
      BY DEF EventTypes, ToolEvents
    <2>2. <<m, o>> \in Ids
      BY <1>4, <1>5 DEF Ids
    <2> QED
      BY <1>5, <2>1, <2>2, EventIs
  <1>7. onTheWay' = onTheWay \o <<e>>
    BY <1>1, <1>3, <1>6 DEF Send
  <1>8. PICK more \in Seq(Nat) : more = [prts EXCEPT ![o] = @ + 1] /\ Len(more) = Len(prts)
    <2>1. PICK x \in Nat : x = prts[o] + 1
      BY <1>4
    <2>2. [prts EXCEPT ![o] = x] \in Seq(Nat) /\ Len([prts EXCEPT ![o] = x]) = Len(prts)
      BY <1>4, ExceptSeq
    <2> QED
      BY <2>1, <2>2
  <1>9. LoopOK' /\ loop'.m = m /\ loop'.texts = k /\ loop'.parts = more /\ loop'.phase = "streaming"
    <2>1. loop' = [loop EXCEPT !.parts = more]
      BY <1>1, <1>2, <1>3, <1>8 DEF LoopOK
    <2> QED
      BY <1>2, <1>3, <1>4, <1>8, <2>1 DEF LoopOK
  <1>10. RecordedOK'
    BY <1>1, <1>2, <1>3, <1>9 DEF RecordedOK
  <1>11. PICK c \in PageStates : c = h[Len(onTheWay)]
    BY AheadIs
  <1>12. Growing(Handled(c, e), m, k, more, m \in broken)
    <2>1. Growing(c, m, k, prts, m \in broken)
      BY <1>2, <1>3, <1>11 DEF Known, GrowingAhead
    <2> QED
      BY <1>4, <1>6, <1>8, <2>1, InputIsShown
  <1>13. Len(recorded) \in Nat /\ \A j \in 1..Len(recorded) : recorded[j].m # m
    BY <1>2, <1>3, AheadIs, OldRecords
  <1>14. Sent(e) /\ OldRecordsStay(e) /\ NewRecordsEnd(c, e)
    BY <1>1, <1>6, <1>7, <1>13 DEF Sent, OldRecordsStay, NewRecordsEnd
  <1>15. GrowsOn(c, e)
    BY <1>1, <1>9, <1>12 DEF GrowsOn
  <1>16. loop'.m >= loop.m /\ e.m <= loop'.m
    BY <1>3, <1>6, <1>9
  <1> QED
    BY <1>9, <1>10, <1>11, <1>14, <1>15, <1>16, SendKeeps

LEMMA MessageEndKeeps ==
    ASSUME NEW h, Known(h), MessageEnd
    PROVE  PageInv'
  <1>1. LoopOK /\ RecordedOK /\ loop.phase = "streaming" /\ loop.m >= 1 /\ loop.done = 0
    BY DEF Known, PageTypes, MessageEnd, LoopOK
  <1>2. /\ \A n \in 1..Len(loop.parts) : loop.parts[n] = Pieces
        /\ Send(<<Event("assistant_message_end", loop.m, 0)>>)
        /\ chat' = chat /\ lost' = lost /\ broken' = broken
    BY DEF MessageEnd
  <1>3. PICK m \in Nat, k \in Nat, prts \in Seq(Nat) : m = loop.m /\ k = loop.texts /\ prts = loop.parts
    BY <1>1, LoopIs
  <1>4. PICK l \in Nat : l = Len(prts)
    OBVIOUS
  <1>5. l <= MaxUses /\ m \in 1..MaxMessages
    BY <1>1, <1>3, <1>4, LoopIs
  <1>6. PICK e \in Arriving : /\ e = Event("assistant_message_end", m, 0)
                              /\ e.type = "assistant_message_end" /\ e.m = m
    BY PlainEventIs
  <1>7. onTheWay' = onTheWay \o <<e>>
    BY <1>2, <1>3, <1>6 DEF Send
  <1>8. LoopOK' /\ loop'.m = m /\ loop'.phase # "streaming"
    <2>1. CASE prts # <<>>
      <3>1. loop' = [loop EXCEPT !.phase = "tools"]
        BY <1>3, <2>1 DEF MessageEnd
      <3>2. 0 < Len(loop.parts)
        BY <1>3, <1>4, <2>1, EmptySeq
      <3> QED
        BY <1>1, <1>3, <3>1, <3>2 DEF LoopOK
    <2>2. CASE prts = <<>>
      <3>1. PICK ph \in {"again", "idle"} : loop' = [loop EXCEPT !.phase = ph]
        BY <1>3, <2>2 DEF MessageEnd
      <3> QED
        BY <1>1, <1>3, <3>1 DEF LoopOK
    <2> QED
      BY <2>1, <2>2
  <1>9. PICK c \in PageStates : c = h[Len(onTheWay)]
    BY AheadIs
  <1>10. Growing(c, m, k, prts, m \in broken)
    BY <1>1, <1>3, <1>9 DEF Known, GrowingAhead
  <1>11. PICK r \in Records : r = [m |-> m, texts |-> k, uses |-> l]
    <2>1. l \in 0..MaxUses
      BY <1>5, PageAssumption
    <2>2. [m |-> m, texts |-> k, uses |-> l] \in Records
      BY <1>5, <2>1 DEF Records
    <2> QED
      BY <2>2
  <1>12. r \in Records /\ r.m = m /\ r.texts = k /\ r.uses = l
    BY <1>11
  <1>13. Settled(Handled(c, e), r, m \in broken)
    BY <1>2, <1>3, <1>4, <1>6, <1>10, <1>12, EndSettles
  <1>14. PICK s \in Seq(Records), z \in Nat : s = recorded /\ z = Len(s)
    BY <1>1, AheadIs DEF RecordedOK
  <1>15. recorded' = s \/ recorded' = Append(s, r)
    BY <1>3, <1>4, <1>11, <1>14 DEF MessageEnd
  <1>16. /\ recorded' \in Seq(Records) /\ Len(recorded') \in {z, z + 1}
         /\ \A j \in 1..z : recorded'[j] = s[j]
         /\ Len(recorded') = z + 1 => recorded'[z + 1] = r
    <2>1. CASE recorded' = s
      BY <1>14, <2>1
    <2>2. CASE recorded' = Append(s, r)
      <3>1. Append(s, r) \in Seq(Records) /\ Len(Append(s, r)) = z + 1 /\ Append(s, r)[z + 1] = r
            /\ \A j \in 1..z : Append(s, r)[j] = s[j]
        BY <1>12, <1>14, AppendProperties
      <3> QED
        BY <2>2, <3>1
    <2> QED
      BY <1>15, <2>1, <2>2
  <1>17. \A j \in 1..Len(recorded') : j \in 1..z \/ (j = z + 1 /\ Len(recorded') = z + 1)
    BY <1>16
  <1>18. RecordedOK'
    <2>1. \A j \in 1..z : recorded[j].m <= m
      BY <1>3, <1>14, OldRecords
    <2>2. \A j \in 1..Len(recorded') : recorded'[j].m <= m
      BY <1>12, <1>14, <1>16, <1>17, <2>1
    <2> QED
      BY <1>8, <1>16, <2>2 DEF RecordedOK
  <1>19. Sent(e) /\ OldRecordsStay(e)
    BY <1>2, <1>6, <1>7, <1>14, <1>16 DEF Sent, OldRecordsStay
  <1>20. NewRecordsEnd(c, e)
    <2>1. ASSUME NEW j \in 1..Len(recorded'), j > Len(recorded)
          PROVE  recorded'[j] = r
      BY <1>14, <1>16, <1>17, <2>1
    <2>2. e = Event("assistant_message_end", r.m, 0) /\ Settled(Handled(c, e), r, r.m \in broken')
      BY <1>2, <1>6, <1>12, <1>13
    <2> QED
      BY <2>1, <2>2 DEF NewRecordsEnd
  <1>21. GrowsOn(c, e)
    BY <1>8 DEF GrowsOn
  <1>22. loop'.m >= loop.m /\ e.m <= loop'.m
    BY <1>3, <1>6, <1>8
  <1> QED
    BY <1>8, <1>9, <1>18, <1>19, <1>20, <1>21, <1>22, SendKeeps

\* An event of a turn whose message is recorded, or an error.
LEMMA OtherEvents ==
    ASSUME NEW h, Known(h), NEW e \in Arriving, onTheWay' = onTheWay \o <<e>>, chat' = chat, lost' = lost,
           recorded' = recorded, LoopOK', loop'.m = loop.m, e.m <= loop.m,
           e.type \in {"permission_request", "tool_result", "error"},
           broken' = broken \/ (loop.phase = "streaming" /\ broken' = broken \cup {loop.m}),
           loop'.phase = "streaming" => loop' = loop /\ loop.phase = "streaming" /\ e.type = "error" /\ loop.m \in broken'
    PROVE  PageInv'
  <1>1. LoopOK /\ RecordedOK /\ loop.m \in Nat
    BY LoopIs DEF Known, PageTypes
  <1>2. RecordedOK'
    BY <1>1 DEF RecordedOK
  <1>3. PICK c \in PageStates : c = h[Len(onTheWay)]
    BY AheadIs
  <1>4. Sent(e) /\ OldRecordsStay(e) /\ NewRecordsEnd(c, e)
    <2>1. \A j \in 1..Len(recorded) : recorded[j].m \in broken' <=> recorded[j].m \in broken
      BY OldRecords
    <2>2. Len(recorded) \in Nat
      BY AheadIs
    <2> QED
      BY <2>1, <2>2 DEF Sent, OldRecordsStay, NewRecordsEnd
  <1>5. GrowsOn(c, e)
    <2>1. SUFFICES ASSUME loop'.phase = "streaming"
                   PROVE  Growing(Handled(c, e), loop'.m, loop'.texts, loop'.parts, loop'.m \in broken')
      BY DEF GrowsOn
    <2>2. PICK m \in Nat, k \in Nat, prts \in Seq(Nat) : m = loop.m /\ k = loop.texts /\ prts = loop.parts
      BY <1>1, LoopIs
    <2>3. Growing(c, m, k, prts, m \in broken)
      BY <1>3, <2>1, <2>2 DEF Known, GrowingAhead
    <2>4. loop' = loop /\ e.type = "error" /\ m \in broken'
      BY <2>1, <2>2
    <2>5. Growing(Handled(c, e), m, k, prts, m \in broken')
      BY <2>3, <2>4, ErrorInTheMiddle
    <2> QED
      BY <2>2, <2>4, <2>5
  <1>6. loop'.m >= loop.m /\ e.m <= loop'.m
    BY <1>1
  <1> QED
    BY <1>2, <1>3, <1>4, <1>5, <1>6, SendKeeps

LEMMA AskKeeps ==
    ASSUME NEW h, Known(h), Ask
    PROVE  PageInv'
  <1>1. LoopOK /\ loop.phase = "tools"
    BY DEF Known, PageTypes, Ask
  <1>2. /\ loop' = [loop EXCEPT !.phase = "asking"]
        /\ recorded' = recorded /\ chat' = chat /\ lost' = lost /\ broken' = broken
    BY DEF Ask
  <1>3. PICK m \in Nat, n \in Nat : m = loop.m /\ n = loop.done + 1
    <2>1. loop.m \in Nat /\ loop.done + 1 \in Nat
      BY <1>1, LoopIs
    <2> QED
      BY <2>1
  <1>4. PICK e \in Arriving : e = Event("permission_request", m, n) /\ e.type = "permission_request" /\ e.m = m
    BY PlainEventIs
  <1>5. onTheWay' = onTheWay \o <<e>>
    BY <1>3, <1>4 DEF Ask, Send
  <1>6. LoopOK' /\ loop'.m = loop.m /\ loop'.phase # "streaming"
    BY <1>1, <1>2 DEF LoopOK
  <1> QED
    BY <1>2, <1>3, <1>4, <1>5, <1>6, OtherEvents

LEMMA ToolResultKeeps ==
    ASSUME NEW h, Known(h), ToolResult
    PROVE  PageInv'
  <1>1. LoopOK /\ loop.phase \in {"tools", "asking"}
    BY DEF Known, PageTypes, ToolResult
  <1>2. /\ loop' = [loop EXCEPT !.done = @ + 1, !.phase = IF loop.done + 1 = Len(loop.parts) THEN "again" ELSE "tools"]
        /\ recorded' = recorded /\ chat' = chat /\ lost' = lost /\ broken' = broken
    BY DEF ToolResult
  <1>3. PICK m \in Nat, n \in Nat : m = loop.m /\ n = loop.done + 1
    <2>1. loop.m \in Nat /\ loop.done + 1 \in Nat
      BY <1>1, LoopIs
    <2> QED
      BY <2>1
  <1>4. m \in 1..MaxMessages /\ n \in 1..Len(loop.parts) /\ n \in 1..MaxUses
    BY <1>1, <1>3, LoopIs, PageAssumption DEF LoopOK
  <1>5. PICK e \in Arriving : e = Event("tool_result", m, n) /\ e.type = "tool_result" /\ e.m = m
    <2>1. <<m, n>> \in Ids /\ "tool_result" \in EventTypes
      BY <1>4 DEF Ids, EventTypes, ToolEvents
    <2> QED
      BY <2>1, EventIs
  <1>6. onTheWay' = onTheWay \o <<e>>
    BY <1>3, <1>5 DEF ToolResult, Send
  <1>7. LoopOK' /\ loop'.m = loop.m /\ loop'.phase # "streaming"
    <2>1. PICK ph \in {"again", "tools"} : ph = IF loop.done + 1 = Len(loop.parts) THEN "again" ELSE "tools"
      OBVIOUS
    <2>2. ph = "tools" => n < Len(loop.parts)
      BY <1>3, <1>4, <2>1
    <2>3. loop' = [loop EXCEPT !.done = n, !.phase = ph]
      BY <1>1, <1>2, <1>3, <2>1 DEF LoopOK
    <2> QED
      BY <1>1, <2>2, <2>3 DEF LoopOK
  <1> QED
    BY <1>2, <1>3, <1>5, <1>6, <1>7, OtherEvents

LEMMA StoppedKeeps ==
    ASSUME NEW h, Known(h), Stopped
    PROVE  PageInv'
  <1>1. /\ loop' = IdleLoop(loop.m)
        /\ recorded' = recorded /\ chat' = chat /\ lost' = lost /\ broken' = broken
        /\ onTheWay' = onTheWay \/ Send(<<Event("error", loop.m, 0)>>)
    BY DEF Stopped
  <1>2. loop.m \in Nat /\ loop.m <= loop.m
    BY AheadIs
  <1>3. LoopOK' /\ loop'.m = loop.m /\ loop'.phase = "idle"
    <2>1. loop.m \in 0..MaxMessages
      BY DEF Known, PageTypes, LoopOK
    <2>2. <<>> \in Seq(Nat) /\ Len(<<>>) = 0
      OBVIOUS
    <2> QED
      BY <1>1, <2>1, <2>2, PageAssumption DEF LoopOK, IdleLoop
  <1>4. CASE onTheWay' = onTheWay
    <2>1. chat' \in PageStates /\ Alike(chat, chat')
      BY <1>1 DEF Known, PageTypes, Alike
    <2> QED
      BY <1>1, <1>3, <1>4, <2>1, RestKeeps
  <1>5. CASE Send(<<Event("error", loop.m, 0)>>)
    <2>1. PICK e \in Arriving : e = Event("error", loop.m, 0) /\ e.type = "error" /\ e.m = loop.m
      BY <1>2, PlainEventIs
    <2>2. onTheWay' = onTheWay \o <<e>>
      BY <1>5, <2>1 DEF Send
    <2> QED
      BY <1>1, <1>2, <1>3, <2>1, <2>2, OtherEvents
  <1> QED
    BY <1>1, <1>4, <1>5

LEMMA StrayErrorKeeps ==
    ASSUME NEW h, Known(h), StrayError
    PROVE  PageInv'
  <1>1. /\ loop' = loop /\ recorded' = recorded /\ chat' = chat /\ lost' = lost
        /\ broken' = IF loop.phase = "streaming" THEN broken \cup {loop.m} ELSE broken
    BY DEF StrayError
  <1>2. loop.m \in Nat
    BY AheadIs
  <1>3. PICK e \in Arriving : e = Event("error", 0, 0) /\ e.type = "error" /\ e.m = 0
    BY PlainEventIs
  <1>4. onTheWay' = onTheWay \o <<e>>
    BY <1>3 DEF StrayError, Send
  <1>5. LoopOK' /\ loop'.m = loop.m /\ e.m <= loop.m
    BY <1>1, <1>2, <1>3 DEF Known, PageTypes, LoopOK
  <1>6. broken' = broken \/ (loop.phase = "streaming" /\ broken' = broken \cup {loop.m})
    BY <1>1
  <1>7. loop'.phase = "streaming" => loop' = loop /\ loop.phase = "streaming" /\ e.type = "error" /\ loop.m \in broken'
    BY <1>1, <1>3
  <1> QED
    BY <1>1, <1>3, <1>4, <1>5, <1>6, <1>7, OtherEvents

LEMMA DecideKeeps ==
    ASSUME NEW h, Known(h), Decide
    PROVE  PageInv'
  <1>1. PICK u \in chat.queue :
           /\ chat' = [chat EXCEPT !.queue = @ \ {u}]
           /\ loop' = IF loop.phase = "asking" /\ u = <<loop.m, loop.done + 1>>
                      THEN [loop EXCEPT !.phase = "tools"] ELSE loop
    BY DEF Decide
  <1>2. recorded' = recorded /\ onTheWay' = onTheWay /\ lost' = lost /\ broken' = broken
    BY DEF Decide
  <1>3. chat' \in PageStates /\ Alike(chat, chat')
    <2>1. chat \in PageStates
      BY DEF Known, PageTypes
    <2>2. chat.queue \ {u} \in SUBSET (Nat \X Nat)
      BY <2>1 DEF PageStates
    <2> QED
      BY <1>1, <2>1, <2>2 DEF PageStates, Alike
  <1>4. LoopOK' /\ loop'.m = loop.m /\ (loop'.phase = "streaming" => loop' = loop)
    <2>1. LoopOK
      BY DEF Known, PageTypes
    <2>2. CASE loop.phase = "asking" /\ loop' = [loop EXCEPT !.phase = "tools"]
      BY <2>1, <2>2 DEF LoopOK
    <2>3. CASE loop' = loop
      BY <2>1, <2>3 DEF LoopOK
    <2> QED
      BY <1>1, <2>2, <2>3
  <1> QED
    BY <1>2, <1>3, <1>4, RestKeeps

LEMMA PageInitInv == PageInit => PageInv
  <1> SUFFICES ASSUME PageInit PROVE PageInv
    OBVIOUS
  <1>1. PICK es \in Seq(Arriving), rs \in Seq(Records), ps \in Seq(Nat) : es = <<>> /\ rs = <<>> /\ ps = <<>>
    <2>1. <<>> \in Seq(Arriving) /\ <<>> \in Seq(Records) /\ <<>> \in Seq(Nat)
      OBVIOUS
    <2> QED
      BY <2>1
  <1>2. onTheWay = es /\ recorded = rs /\ Len(onTheWay) = 0 /\ Len(recorded) = 0
    BY <1>1 DEF PageInit
  <1>3. LoopOK /\ loop.phase = "idle"
    <2>1. loop = [phase |-> "idle", m |-> 0, texts |-> 0, parts |-> ps, done |-> 0] /\ Len(ps) = 0
      BY <1>1 DEF PageInit, IdleLoop
    <2>2. 0 \in 0..MaxMessages
      BY PageAssumption
    <2> QED
      BY <2>1, <2>2, PageAssumption DEF LoopOK
  <1>4. chat \in PageStates /\ chat.messages = <<>> /\ chat.streaming = <<>> /\ chat.pending = <<>>
    <2>1. PICK ds \in Seq(Deltas), bs \in Seq(CallBlocks), cs \in Seq(Cards) : ds = <<>> /\ bs = <<>> /\ cs = <<>>
      <3>1. <<>> \in Seq(Deltas) /\ <<>> \in Seq(CallBlocks) /\ <<>> \in Seq(Cards)
        OBVIOUS
      <3> QED
        BY <3>1
    <2>2. PICK ts \in [Ids -> ToolCards] : ts = [u \in Ids |-> NoTool]
      <3>1. NoTool \in ToolCards
        BY DEF NoTool, ToolCards
      <3> QED
        BY <3>1
    <2>3. chat = [streaming |-> ds, id |-> 0, pending |-> bs, messages |-> cs, tools |-> ts, queue |-> {}]
      BY <2>1, <2>2 DEF PageInit
    <2> QED
      BY <2>1, <2>3 DEF PageStates
  <1>5. \A m \in Nat : Empty(chat, m)
    <2>1. /\ Bottom(chat) = 1 /\ Len(OnPage(chat)[1].texts) = 0 /\ Len(OnPage(chat)[1].blocks) = 0
      BY <1>4, ShownIs DEF Bottom
    <2>2. ASSUME NEW m, NEW p \in TextPlaces(chat, m) PROVE FALSE
      BY <1>4, <2>1, TextPlace
    <2>3. ASSUME NEW u, NEW p \in UsePlaces(chat, u) PROVE FALSE
      BY <1>4, <2>1, UsePlace
    <2> QED
      BY <2>2, <2>3 DEF Empty
  <1>6. PICK h : h = [i \in 0..0 |-> chat]
    OBVIOUS
  <1>7. h \in [0..0 -> PageStates] /\ h[0] = chat /\ \A i \in 0..0 : i = 0
    BY <1>4, <1>6
  <1>8. Ahead(h)
    <2>1. Alike(h[0], chat)
      BY <1>7 DEF Alike
    <2> QED
      BY <1>2, <1>7, <2>1 DEF Ahead
  <1>9. SettledAhead(h) /\ GrowingAhead(h)
    BY <1>2, <1>3 DEF SettledAhead, GrowingAhead
  <1>10. UnseenAhead(h)
    BY <1>2, <1>5, <1>7 DEF UnseenAhead, Unseen
  <1>11. PageTypes
    BY <1>1, <1>2, <1>3, <1>4 DEF PageTypes, RecordedOK
  <1> QED
    BY <1>8, <1>9, <1>10, <1>11 DEF PageInv

LEMMA PageStep == PageInv /\ [PageNext]_pageVars => PageInv'
  <1> SUFFICES ASSUME PageInv, [PageNext]_pageVars PROVE PageInv'
    OBVIOUS
  <1>1. PICK h : Known(h)
    BY DEF PageInv, Known
  <1>2. CASE UNCHANGED pageVars
    <2>1. /\ onTheWay' = onTheWay /\ recorded' = recorded /\ lost' = lost /\ broken' = broken
          /\ loop' = loop /\ chat' = chat
      BY <1>2 DEF pageVars
    <2>2. LoopOK' /\ chat' \in PageStates /\ Alike(chat, chat')
      BY <1>1, <2>1 DEF Known, PageTypes, LoopOK, Alike
    <2> QED
      BY <1>1, <2>1, <2>2, RestKeeps
  <1>3. CASE PageNext
    BY <1>1, <1>3, StartMessageKeeps, TextKeeps, ToolUseStartKeeps, InputDeltaKeeps, MessageEndKeeps,
       AskKeeps, ToolResultKeeps, StoppedKeeps, StrayErrorKeeps, ConnectionBreaksKeeps,
       HandleServerEventKeeps, DecideKeeps DEF PageNext
  <1> QED
    BY <1>2, <1>3

\* The page shows every recorded message that arrived, its text once and in order and each of
\* its calls once, for every number of messages, deltas, calls and errors, however many events
\* are on their way and whatever is lost with a connection.
THEOREM RecordedIsShown == PageSpec => []ShowsWhatWasRecorded
  <1>1. PageSpec => []PageInv
    BY PageInitInv, PageStep, PTL DEF PageSpec
  <1> QED
    BY <1>1, PageInvShows, PTL

-----------------------------------------------------------------------------
(* Skills: choices have a reason. *)

\* An order of a finite set leaves none of it out.
LEMMA OrdersAreWhole ==
    ASSUME NEW S, IsFiniteSet(S), NEW order \in SetToSeqs(S)
    PROVE  /\ Len(order) = Cardinality(S) /\ Len(order) \in Nat
           /\ \A k \in 1..Len(order) : order[k] \in S
           /\ \A j \in S : \E k \in 1..Len(order) : order[k] = j
<1> DEFINE D == 1..Cardinality(S)
<1>1. Cardinality(S) \in Nat
  BY FS_CardinalityType
<1>2. order \in [D -> S] /\ \A k, l \in D : k # l => order[k] # order[l]
  BY DEF SetToSeqs
<1>3. Len(order) = Cardinality(S)
  BY <1>1, <1>2, SeqDef
<1>4. order \in Injection(D, S)
  BY <1>2 DEF Injection, IsInjective
<1>5. Cardinality(D) = Cardinality(S) /\ IsFiniteSet(D)
  BY <1>1, FS_Interval
<1>6. order \in Surjection(D, S)
  BY <1>4, <1>5, FS_Injection
<1> QED
  BY <1>1, <1>2, <1>3, <1>6 DEF Surjection

\* The words there are in a skill.
SkillWords ==
    {"autopilot"} \cup {"security"} \cup {"ship-it"} \cup {"ship"} \cup {"it"} \cup {"task"} \cup {"run"}
        \cup {"release"} \cup {"specialized"} \cup {"workflow"} \cup {"skill"}
SkillRecords ==
    [name : SkillNames, dir : {"local", "extra"}, trigger : SUBSET SkillWords, description : SUBSET SkillWords]

LEMMA ParsedIsRecord ==
    ASSUME NEW name \in SkillNames, NEW form, NEW dir \in {"local", "extra"}
    PROVE  Parsed(name, form, dir) \in SkillRecords
<1>1. TriggerOf(name, form) \in SUBSET SkillWords /\ DescriptionOf(form) \in SUBSET SkillWords
  BY DEF TriggerOf, DescriptionOf, SkillWords, SkillNames
<1>2. PICK t, d : t = TriggerOf(name, form) /\ d = DescriptionOf(form)
  OBVIOUS
<1>3. [name |-> name, dir |-> dir, trigger |-> t, description |-> d] \in SkillRecords
  BY <1>1, <1>2 DEF SkillRecords
<1> QED
  BY <1>2, <1>3 DEF Parsed

LEMMA SkillWordsAreFinite == IsFiniteSet(SkillWords)
<1>1. IsFiniteSet({"autopilot"} \cup {"security"} \cup {"ship-it"})
  <2>1. IsFiniteSet({"autopilot"} \cup {"security"})
    BY FS_Singleton, FS_AddElement
  <2> QED
    BY <2>1, FS_AddElement
<1>2. \A S, e : IsFiniteSet(S) => IsFiniteSet(S \cup {e})
  BY FS_AddElement
<1>3. PICK A : A = {"autopilot"} \cup {"security"} \cup {"ship-it"}
  OBVIOUS
<1>4. IsFiniteSet(A \cup {"ship"} \cup {"it"} \cup {"task"} \cup {"run"})
  BY <1>1, <1>2, <1>3
<1>5. PICK B : B = A \cup {"ship"} \cup {"it"} \cup {"task"} \cup {"run"}
  OBVIOUS
<1>6. IsFiniteSet(B \cup {"release"} \cup {"specialized"} \cup {"workflow"} \cup {"skill"})
  BY <1>2, <1>4, <1>5
<1> QED
  BY <1>3, <1>5, <1>6 DEF SkillWords

LEMMA NamesAreFinite ==
    ASSUME NEW T \in SUBSET SkillNames
    PROVE  IsFiniteSet(T) /\ Cardinality(T) \in Nat
<1>1. IsFiniteSet({"autopilot"} \cup {"security"})
  BY FS_Singleton, FS_AddElement
<1>2. {"autopilot"} \cup {"security"} = SkillNames
  BY DEF SkillNames
<1> QED
  BY <1>1, <1>2, FS_Subset, FS_CardinalityType

LEMMA ListingsAreRecords ==
    ASSUME NEW T \in SUBSET SkillNames, NEW dir \in {"local", "extra"}
    PROVE  Listings(T, dir) \subseteq Seq(SkillRecords)
<1>1. Cardinality(T) \in Nat
  BY NamesAreFinite
<1>2. SUFFICES ASSUME NEW order \in SetToSeqs(T)
               PROVE  [i \in 1..Cardinality(T) |-> Parsed(order[i], disk[dir][order[i]], dir)] \in Seq(SkillRecords)
  BY DEF Listings
<1>3. \A i \in 1..Cardinality(T) : order[i] \in SkillNames
  BY <1>2 DEF SetToSeqs
<1>4. \A i \in 1..Cardinality(T) : Parsed(order[i], disk[dir][order[i]], dir) \in SkillRecords
  BY <1>3, ParsedIsRecord
<1> QED
  BY <1>1, <1>4, SeqDef

LEMMA ReplacedAreRecords ==
    ASSUME NEW first \in Seq(SkillRecords)
    PROVE  Replaced(first) \in Seq(SkillRecords)
<1>1. Len(first) \in Nat /\ \A i \in 1..Len(first) : first[i] \in SkillRecords
  OBVIOUS
<1>2. ASSUME NEW i \in 1..Len(first)
      PROVE  Replaced(first)[i] \in SkillRecords
  <2>1. first[i].name \in SkillNames
    BY <1>1 DEF SkillRecords
  <2>2. Parsed(first[i].name, disk["extra"][first[i].name], "extra") \in SkillRecords
    BY <2>1, ParsedIsRecord
  <2> QED
    BY <1>1, <2>2 DEF Replaced
<1>3. DOMAIN Replaced(first) = 1..Len(first) /\ Replaced(first) = [i \in 1..Len(first) |-> Replaced(first)[i]]
  BY DEF Replaced
<1> QED
  BY <1>1, <1>2, <1>3, SeqDef

LEMMA DiscoveredAreRecords == Discovered \subseteq Seq(SkillRecords)
<1>1. Present("local") \in SUBSET SkillNames /\ NewNames \in SUBSET SkillNames
  BY DEF Present, NewNames
<1>2. CASE Len(paths) = 1
  BY <1>1, <1>2, ListingsAreRecords DEF Discovered
<1>3. CASE Len(paths) # 1
  <2>1. ASSUME NEW d \in Discovered
        PROVE  d \in Seq(SkillRecords)
    <3>1. PICK first \in Listings(Present("local"), "local"), rest \in Listings(NewNames, "extra") :
               d = Replaced(first) \o rest
      BY <1>3, <2>1 DEF Discovered
    <3>2. first \in Seq(SkillRecords) /\ rest \in Seq(SkillRecords)
      BY <1>1, <3>1, ListingsAreRecords
    <3> QED
      BY <3>1, <3>2, ReplacedAreRecords, ConcatProperties
  <2> QED
    BY <2>1
<1> QED
  BY <1>2, <1>3

-----------------------------------------------------------------------------
(* Scores *)

LEMMA OverlapCounts ==
    ASSUME NEW s \in SkillRecords, NEW task
    PROVE  /\ Cardinality(Overlap(s, task)) \in Nat
           /\ Overlap(s, task) = {} => Cardinality(Overlap(s, task)) = 0
           /\ Overlap(s, task) # {} => Cardinality(Overlap(s, task)) >= 1
<1>1. Overlap(s, task) \subseteq PiecesOf({s.name} \cup s.description \cup s.trigger)
  BY DEF Overlap
<1>2. PiecesOf({s.name} \cup s.description \cup s.trigger) \subseteq SkillWords
  <2>1. \A w \in {s.name} \cup s.description \cup s.trigger : w \in SkillWords
    BY DEF SkillRecords, SkillWords, SkillNames
  <2>2. \A w \in SkillWords : WordPieces(w) \subseteq SkillWords
    BY DEF SkillWords, WordPieces
  <2> QED
    BY <2>1, <2>2 DEF PiecesOf
<1>3. IsFiniteSet(Overlap(s, task))
  BY <1>1, <1>2, SkillWordsAreFinite, FS_Subset
<1> QED
  BY <1>3, FS_CardinalityType, FS_EmptySet

LEMMA ScoreIsInt ==
    ASSUME NEW s \in SkillRecords, NEW task, NEW phase, NEW risk
    PROVE  Score(s, task, phase, risk) \in Int
  BY OverlapCounts DEF Score, Keywords

\* A skill the task does not mention has the points of its phase and its risk at most.
LEMMA UnmentionedScoresLow ==
    ASSUME NEW s \in SkillRecords, NEW task, NEW phase, NEW risk, ~Mentioned(s, task)
    PROVE  /\ Score(s, task, phase, risk) <= 25
           /\ HighRisk(risk) /\ s.name \in HighRiskPenalty => ~Confident(s, task, phase, risk)
<1>1. Keywords(s, task) = 0
  BY OverlapCounts DEF Keywords, Mentioned
<1>2. Score(s, task, phase, risk) <= 25
  BY <1>1 DEF Score
<1>3. ASSUME HighRisk(risk), s.name \in HighRiskPenalty PROVE Score(s, task, phase, risk) <= 7
  <2>1. s.name \notin HighRiskBoost
    BY <1>3 DEF HighRiskPenalty, HighRiskBoost
  <2> QED
    BY <1>1, <1>3, <2>1 DEF Score
<1> QED
  BY <1>2, <1>3, ScoreIsInt DEF Confident

LEMMA CalledIsMentioned ==
    ASSUME NEW s \in SkillRecords, NEW task, CalledFor(s, task)
    PROVE  TriggerFound(s, task) /\ Overlap(s, task) # {}
<1>1. PICK w \in task : s.trigger = {w}
  BY DEF CalledFor, Triggered
<1>2. PICK p \in PiecesOf(s.trigger) \ Placeholders : Letters(p) >= 4
  BY DEF CalledFor
<1>3. p \in WordPieces(w)
  BY <1>1, <1>2 DEF PiecesOf
<1>4. p \in Inside(w)
  BY <1>3 DEF Inside, WordPieces
<1>5. TriggerFound(s, task)
  BY <1>1, <1>2, <1>4 DEF TriggerFound, TriggerTokens
<1>6. p \in PiecesOf(task) /\ p \in PiecesOf({s.name} \cup s.description \cup s.trigger)
  BY <1>1, <1>3 DEF PiecesOf
<1> QED
  BY <1>2, <1>5, <1>6 DEF Overlap

\* One the task calls has more, whatever the risk takes from it.
LEMMA CalledScoresHigh ==
    ASSUME NEW s \in SkillRecords, NEW task, NEW phase, NEW risk, CalledFor(s, task)
    PROVE  Score(s, task, phase, risk) >= 28
<1>1. Keywords(s, task) >= 36 /\ Keywords(s, task) \in Nat
  BY CalledIsMentioned, OverlapCounts DEF Keywords
<1> QED
  BY <1>1 DEF Score

-----------------------------------------------------------------------------
(* Choices *)

RegistryOK == registry.skills \in Seq(SkillRecords)
NothingYet == ~registry.read => answer.skills = <<>>
ChoiceInv == RegistryOK /\ NothingYet /\ SkillsSound

\* The first of those with a score has the highest of all.
LEMMA RankedAreBest ==
    ASSUME NEW skills \in Seq(SkillRecords), NEW task, NEW phase, NEW risk,
           NEW order \in Ranked(skills, task, phase, risk)
    PROVE  /\ Len(order) \in Nat /\ \A k \in 1..Len(order) : order[k] \in 1..Len(skills)
           /\ Len(order) >= 1 =>
                 \A j \in 1..Len(skills) :
                    Score(skills[j], task, phase, risk) <= Score(skills[order[1]], task, phase, risk)
<1> DEFINE score == [i \in 1..Len(skills) |-> Score(skills[i], task, phase, risk)]
           S == {i \in 1..Len(skills) : score[i] > 0}
<1>1. /\ order \in SetToSeqs(S)
      /\ \A k, l \in 1..Len(order) : k < l => \/ score[order[k]] > score[order[l]]
                                              \/ score[order[k]] = score[order[l]] /\ order[k] < order[l]
  BY DEF Ranked
<1>2. \A i \in 1..Len(skills) : score[i] \in Int /\ score[i] = Score(skills[i], task, phase, risk)
  <2>1. ASSUME NEW i \in 1..Len(skills) PROVE Score(skills[i], task, phase, risk) \in Int
    BY ScoreIsInt
  <2> QED
    BY <2>1
<1>3. IsFiniteSet(S) /\ S \subseteq 1..Len(skills)
  <2>1. IsFiniteSet(1..Len(skills))
    BY FS_Interval
  <2>2. S \in SUBSET (1..Len(skills))
    OBVIOUS
  <2> HIDE DEF S
  <2> QED
    BY <2>1, <2>2, FS_Subset
<1> HIDE DEF score
<1>s. \A j \in 1..Len(skills) : j \in S <=> score[j] > 0
  OBVIOUS
<1> HIDE DEF S
<1>4. /\ Len(order) \in Nat /\ \A k \in 1..Len(order) : order[k] \in S
      /\ \A j \in S : \E k \in 1..Len(order) : order[k] = j
  BY <1>1, <1>3, OrdersAreWhole
<1>5. ASSUME Len(order) >= 1 PROVE order[1] \in 1..Len(skills) /\ score[order[1]] > 0
  <2>1. 1 \in 1..Len(order)
    BY <1>4, <1>5
  <2>2. order[1] \in S
    BY <1>4, <2>1
  <2> QED
    BY <1>3, <1>s, <2>2
<1>6. ASSUME Len(order) >= 1, NEW j \in 1..Len(skills)
      PROVE  score[j] <= score[order[1]]
  <2>1. CASE j \in S
    <3>1. PICK k \in 1..Len(order) : order[k] = j
      BY <1>4, <2>1
    <3>2. k = 1 \/ score[order[1]] > score[order[k]] \/ score[order[1]] = score[order[k]]
      BY <1>1, <1>4, <1>6, <3>1
    <3> QED
      BY <1>2, <1>5, <1>6, <3>1, <3>2
  <2>2. CASE j \notin S
    BY <1>2, <1>5, <1>6, <1>s, <2>2
  <2> QED
    BY <2>1, <2>2
<1> QED
  BY <1>2, <1>3, <1>4, <1>5, <1>6

\* What a selection answers is sound, whatever was asked.
LEMMA SelectedIsSound ==
    ASSUME RegistryOK', registry'.read, NEW task, NEW phase, NEW risk, NEW limit \in Nat,
           Selected(task, phase, risk, limit)
    PROVE  SkillsSound'
<1>0. PICK skills : skills = registry'.skills
  OBVIOUS
<1>1. PICK order \in Ranked(skills, task, phase, risk), n \in 0..limit :
        /\ n <= Len(order)
        /\ \A k \in 1..n : Confident(skills[order[k]], task, phase, risk)
        /\ answer' = Choice(task, phase, risk, [k \in 1..n |-> skills[order[k]]])
  BY <1>0 DEF Selected
<1>2. skills \in Seq(SkillRecords)
  BY <1>0 DEF RegistryOK
<1>3. /\ answer'.task = task /\ answer'.risk = risk
      /\ Len(answer'.skills) = n /\ \A k \in 1..n : answer'.skills[k] = skills[order[k]]
  BY <1>1 DEF Choice
<1>4. \A k \in 1..n : order[k] \in 1..Len(skills)
  BY <1>1, <1>2, RankedAreBest
<1>5. SUFFICES ASSUME NEW i \in 1..n
      PROVE  /\ (~Mentioned(skills[order[i]], task) /\ i = 1) =>
                   \A j \in 1..Len(skills) : ~CalledFor(skills[j], task)
             /\ (HighRisk(risk) /\ skills[order[i]].name \in HighRiskPenalty) => Mentioned(skills[order[i]], task)
  BY <1>0, <1>3 DEF SkillsSound
<1>6. skills[order[i]] \in SkillRecords /\ Confident(skills[order[i]], task, phase, risk)
  BY <1>1, <1>2, <1>4
<1>7. ASSUME ~Mentioned(skills[order[i]], task), i = 1, NEW j \in 1..Len(skills), CalledFor(skills[j], task)
      PROVE  FALSE
  <2>1. Score(skills[order[i]], task, phase, risk) <= 25
    BY <1>6, <1>7, UnmentionedScoresLow
  <2>2. skills[j] \in SkillRecords
    BY <1>2
  <2>3. Score(skills[j], task, phase, risk) >= 28
    BY <1>7, <2>2, CalledScoresHigh
  <2>4. Len(order) >= 1
    BY <1>1, <1>7
  <2>5. Score(skills[j], task, phase, risk) <= Score(skills[order[i]], task, phase, risk)
    BY <1>1, <1>2, <1>7, <2>4, RankedAreBest
  <2> QED
    BY <1>6, <2>1, <2>2, <2>3, <2>5, ScoreIsInt
<1> QED
  BY <1>6, <1>7, UnmentionedScoresLow

LEMMA ReadIsOK ==
    ASSUME RegistryOK, Reads(registry')
    PROVE  RegistryOK' /\ registry'.read /\ (registry.read => registry' = registry)
<1>1. CASE registry.read
  BY <1>1 DEF Reads, RegistryOK
<1>2. CASE ~registry.read
  <2>1. PICK skills \in Discovered : registry' = [read |-> TRUE, skills |-> skills]
    BY <1>2 DEF Reads
  <2>2. skills \in Seq(SkillRecords)
    BY <2>1, DiscoveredAreRecords
  <2> QED
    BY <1>2, <2>1, <2>2 DEF RegistryOK
<1> QED
  BY <1>1, <1>2

\* A turn is given a skill that it names.
LEMMA TriggeredIsSound ==
    ASSUME RegistryOK', NEW task,
           FirstOf(task, {i \in 1..Len(registry'.skills) : Triggered(registry'.skills[i], task)})
    PROVE  SkillsSound'
<1>0. PICK skills : skills = registry'.skills
  OBVIOUS
<1>1. CASE answer' = Choice(task, "turn", "", <<>>)
  <2>1. answer'.skills = <<>>
    BY <1>1 DEF Choice
  <2> QED
    BY <2>1 DEF SkillsSound
<1>2. ASSUME NEW i \in {i \in 1..Len(skills) : Triggered(skills[i], task)},
             answer' = Choice(task, "turn", "", <<skills[i]>>)
      PROVE  SkillsSound'
  <2>0. skills \in Seq(SkillRecords)
    BY <1>0 DEF RegistryOK
  <2>1. skills[i] \in SkillRecords /\ Triggered(skills[i], task)
    <3>1. i \in 1..Len(skills) /\ Triggered(skills[i], task)
      BY <1>2
    <3> QED
      BY <2>0, <3>1
  <2>2. Mentioned(skills[i], task)
    BY <2>1 DEF Mentioned
  <2>3. answer'.task = task /\ answer'.risk = "" /\ Len(answer'.skills) = 1 /\ answer'.skills[1] = skills[i]
    BY <1>2 DEF Choice
  <2>4. \A k \in 1..Len(answer'.skills) : Mentioned(answer'.skills[k], answer'.task)
    <3>0. PICK e : e = answer'.skills
      OBVIOUS
    <3>1. ASSUME NEW k \in 1..Len(e) PROVE k = 1
      <4>1. Len(e) = 1
        BY <2>3, <3>0
      <4> QED
        BY <4>1
    <3> QED
      BY <2>2, <2>3, <3>0, <3>1
  <2> QED
    BY <2>4 DEF SkillsSound
<1> QED
  BY <1>0, <1>1, <1>2 DEF FirstOf

\* A skill that is executed by its name was chosen by nobody.
LEMMA NamedIsSound ==
    ASSUME RegistryOK', NEW P, FirstOf({}, P)
    PROVE  SkillsSound'
<1>0. PICK e : answer' = Choice({}, "turn", "", e)
  BY DEF FirstOf
<1>1. /\ answer'.task = {} /\ answer'.risk = ""
  BY <1>0 DEF Choice
<1>2. \A j \in 1..Len(registry'.skills) : ~CalledFor(registry'.skills[j], {})
  BY DEF CalledFor, Triggered
<1> QED
  BY <1>1, <1>2 DEF SkillsSound, HighRisk

LEMMA SkillsInitInv == SkillsInit => ChoiceInv
<1> SUFFICES ASSUME SkillsInit PROVE ChoiceInv
  OBVIOUS
<1>1. registry.skills = <<>> /\ answer.skills = <<>>
  BY DEF SkillsInit, NotRead, NoAnswer
<1> QED
  BY <1>1 DEF ChoiceInv, RegistryOK, NothingYet, SkillsSound

LEMMA SkillsStep == ChoiceInv /\ [SkillsNext]_skillVars => ChoiceInv'
<1> SUFFICES ASSUME ChoiceInv, [SkillsNext]_skillVars
             PROVE  ChoiceInv'
  OBVIOUS
<1>1. RegistryOK /\ NothingYet /\ SkillsSound
  BY DEF ChoiceInv
<1>3. ASSUME NEW task, NEW phase, NEW risk, NEW limit \in Nat, Reads(registry'), Selected(task, phase, risk, limit)
      PROVE  ChoiceInv'
  <2>1. RegistryOK' /\ registry'.read
    BY <1>1, <1>3, ReadIsOK
  <2>2. SkillsSound'
    BY <1>3, <2>1, SelectedIsSound
  <2> QED
    BY <2>1, <2>2 DEF ChoiceInv, NothingYet
<1>4. CASE SelectOne
  BY <1>3, <1>4 DEF SelectOne, Select
<1>5. CASE SelectMany
  BY <1>3, <1>5 DEF SelectMany
<1>7. CASE StartTurn
  <2>1. PICK task \in Tasks :
          /\ Reads(registry')
          /\ FirstOf(task, {i \in 1..Len(registry'.skills) : Triggered(registry'.skills[i], task)})
    BY <1>7 DEF StartTurn
  <2>2. RegistryOK' /\ registry'.read
    BY <1>1, <2>1, ReadIsOK
  <2>3. SkillsSound'
    BY <2>1, <2>2, TriggeredIsSound
  <2> QED
    BY <1>7, <2>2, <2>3 DEF StartTurn, ChoiceInv, NothingYet
<1>8. CASE ExecuteSkill
  <2>1. PICK name \in SkillNames :
          /\ Reads(registry')
          /\ FirstOf({}, {i \in 1..Len(registry'.skills) : registry'.skills[i].name = name})
    BY <1>8 DEF ExecuteSkill
  <2>2. RegistryOK' /\ registry'.read
    BY <1>1, <2>1, ReadIsOK
  <2>3. SkillsSound'
    BY <2>1, <2>2, NamedIsSound
  <2> QED
    BY <1>8, <2>2, <2>3 DEF ExecuteSkill, ChoiceInv, NothingYet
<1>9. CASE ListSkills
  <2>1. Reads(registry') /\ answer' = answer
    BY <1>9 DEF ListSkills
  <2>2. RegistryOK' /\ registry'.read /\ (registry.read => registry' = registry)
    BY <1>1, <2>1, ReadIsOK
  <2>3. SkillsSound'
    BY <1>1, <2>1, <2>2 DEF SkillsSound, NothingYet
  <2> QED
    BY <2>1, <2>2, <2>3 DEF ChoiceInv, NothingYet
<1>10. CASE EditSkill
  BY <1>1, <1>10 DEF EditSkill, ChoiceInv, RegistryOK, NothingYet, SkillsSound
<1>11. CASE StartUp
  <2>1. registry' = NotRead /\ answer' = NoAnswer
    BY <1>11 DEF StartUp
  <2>2. ChoiceInv'
    <3>1. registry'.skills = <<>> /\ answer'.skills = <<>>
      BY <2>1 DEF NotRead, NoAnswer
    <3> QED
      BY <3>1 DEF ChoiceInv, RegistryOK, NothingYet, SkillsSound
  <2> QED
    BY <2>2
<1>12. CASE UNCHANGED skillVars
  BY <1>1, <1>12 DEF skillVars, ChoiceInv, RegistryOK, NothingYet, SkillsSound
<1> QED
  BY <1>4, <1>5, <1>7, <1>8, <1>9, <1>10, <1>11, <1>12 DEF SkillsNext

\* Whatever the tasks, phases and risks, and however the files change between the starts: no
\* skill that a task calls by its trigger is passed over for one it does not mention, and no
\* autonomous skill is chosen unmentioned at a high risk (core/skills.py).
THEOREM ChoicesAreSound == SkillsSpec => []SkillsSound
<1>1. ChoiceInv => SkillsSound
  BY DEF ChoiceInv
<1> QED
  BY <1>1, SkillsInitInv, SkillsStep, PTL DEF SkillsSpec

=============================================================================
