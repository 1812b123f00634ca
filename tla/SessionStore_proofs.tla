------------------------- MODULE SessionStore_proofs -------------------------
(***************************************************************************)
(* Proofs about SessionStore: everyone works on the one object of a        *)
(* session, that object is never behind the session's file, and what was   *)
(* written of a session can be loaded again, for any number of sessions,   *)
(* connections, pushed turns, objects, messages and failing writes.        *)
(*                                                                         *)
(* The three properties need each other: a save replaces the file by the   *)
(* writer's object, so nothing is lost because that object is the store's  *)
(* (OneObject) and has what the file has (MemoryIsNewest).  What they need *)
(* besides is below.                                                       *)
(***************************************************************************)
EXTENDS SessionStore, TLAPS

\* The store files an object under the id it was made for.
Filed == \A s \in Sids : mem[s] # NoObj => owner[mem[s]] = s

\* An id that was not given out has neither file nor object.
Fresh ==
    \A s \in Sids \ known :
        /\ mem[s] = NoObj /\ disk[s] = NoFile /\ legacy[s] = "none" /\ saved[s] = {}
        /\ \A c \in Holders : conn[c] # NoObj => owner[conn[c]] # s

\* Without a server there are no objects.
Down == ~ up => /\ \A s \in Sids : mem[s] = NoObj
                /\ \A c \in Holders : conn[c] = NoObj

\* The inductive invariant.
Inv ==
    /\ TypeOK
    /\ Filed
    /\ Fresh
    /\ Down
    /\ OneObject
    /\ MemoryIsNewest
    /\ Durable

-----------------------------------------------------------------------------
\* Files of the two readable kinds are files, and the content of a session is one.
LEMMA FileTypes ==
    /\ NoFile \in File /\ TornFile \in File
    /\ \A ms \in SUBSET Msgs, b \in BOOLEAN : WholeFile(ms, b) \in File
    /\ TypeOK => \A s \in Sids : Content(s) \in File /\ Current(s) \in File
  BY StoreAssumption DEF File, NoFile, TornFile, WholeFile, Content, Current, TypeOK

\* The initial states satisfy the invariant.
LEMMA InitInv == Init => Inv
<1> SUFFICES ASSUME Init PROVE Inv
  OBVIOUS
<1>1. TypeOK
  <2>1. owner \in [Objs -> Sids]
    BY StoreAssumption DEF Init
  <2>2. disk \in [Sids -> File]
    BY FileTypes DEF Init
  <2> QED
    BY <2>1, <2>2, StoreAssumption DEF Init, TypeOK, Layouts
<1>2. Filed /\ Down /\ OneObject /\ MemoryIsNewest /\ Durable
  BY DEF Init, Filed, Down, OneObject, MemoryIsNewest, Durable
<1>3. Fresh
  BY DEF Init, Fresh, Layouts
<1> QED
  BY <1>1, <1>2, <1>3 DEF Inv

\* What get does: session s becomes or stays object o, and no other object that is in use
\* changes.
LEMMA GetFacts ==
    ASSUME Inv, NEW s \in Sids, NEW o \in Objs, Get(s, o)
    PROVE  /\ mem' = [mem EXCEPT ![s] = o]
           /\ owner' \in [Objs -> Sids] /\ msgs' \in [Objs -> SUBSET Msgs] /\ busy' \subseteq Objs
           /\ owner'[o] = s
           /\ WholeFile(msgs'[o], o \in busy') = Current(s)
           /\ mem[s] \in {NoObj, o}
           /\ mem[s] = NoObj => Loadable(s) /\ msgs'[o] = Content(s).msgs
           /\ \A x \in Live \ {NoObj} : owner'[x] = owner[x] /\ msgs'[x] = msgs[x]
                                        /\ (x \in busy' <=> x \in busy)
           /\ mem[s] = NoObj => o \notin Live
<1>1. CASE mem[s] = o /\ UNCHANGED <<mem, objVars>>
  BY <1>1, StoreAssumption DEF Inv, TypeOK, Filed, objVars, Current
<1>2. CASE /\ mem[s] = NoObj /\ Loadable(s) /\ o \notin Live /\ Fill(o, s, Content(s))
           /\ mem' = [mem EXCEPT ![s] = o]
  <2>1. Content(s) \in File
    BY FileTypes DEF Inv
  <2>2. Content(s).msgs \in SUBSET Msgs /\ Content(s).busy \in BOOLEAN
    BY <2>1 DEF File
  <2>3. msgs'[o] = Content(s).msgs /\ (o \in busy' <=> Content(s).busy)
    BY <1>2 DEF Fill, Inv, TypeOK
  <2>4. Content(s) = WholeFile(Content(s).msgs, Content(s).busy)
    <3>1. CASE disk[s].kind = "whole"
      BY <3>1 DEF Content, WholeFile, Inv, TypeOK, File
    <3>2. CASE disk[s].kind # "whole"
      BY <3>2 DEF Content, WholeFile
    <3> QED
      BY <3>1, <3>2
  <2>5. WholeFile(msgs'[o], o \in busy') = Current(s)
    <3>1. (o \in busy') = Content(s).busy
      BY <2>2, <2>3
    <3> QED
      BY <1>2, <2>3, <2>4, <3>1 DEF Current
  <2>6. owner' \in [Objs -> Sids] /\ msgs' \in [Objs -> SUBSET Msgs] /\ busy' \subseteq Objs
    BY <1>2, <2>2 DEF Fill, Inv, TypeOK
  <2>7. \A x \in Live \ {NoObj} : owner'[x] = owner[x] /\ msgs'[x] = msgs[x]
                                        /\ (x \in busy' <=> x \in busy)
    <3> SUFFICES ASSUME NEW x \in Live \ {NoObj}
                 PROVE  owner'[x] = owner[x] /\ msgs'[x] = msgs[x] /\ (x \in busy' <=> x \in busy)
      OBVIOUS
    <3>1. x # o /\ x \in Objs
      BY <1>2 DEF Live, Kept, Held, Inv, TypeOK
    <3> QED
      BY <1>2, <3>1 DEF Fill, Inv, TypeOK
  <2>8. owner'[o] = s
    BY <1>2 DEF Fill, Inv, TypeOK
  <2> QED
    BY <1>2, <2>3, <2>5, <2>6, <2>7, <2>8
<1> QED
  BY <1>1, <1>2 DEF Get

\* A get disturbs none of the invariants about objects.
LEMMA GetKeeps ==
    ASSUME Inv, up, NEW s \in Sids, NEW o \in Objs, Get(s, o),
           UNCHANGED <<up, turns, legacy, known, forked>>,
           conn' \in [Holders -> Objs \cup {NoObj}],
           \A c \in Holders : conn'[c] \in {conn[c], o},
           \A c \in Holders : turns[c] > 0 => conn'[c] = conn[c]
    PROVE  /\ mem' \in [Sids -> Objs \cup {NoObj}]
           /\ \A c \in Holders : turns[c] > 0 => conn'[c] # NoObj
           /\ Filed' /\ Down' /\ OneObject'
           /\ s \in known
           /\ \A t \in Sids \ known : mem'[t] = NoObj
           /\ \A t \in Sids \ known, c \in Holders : conn'[c] # NoObj => owner'[conn'[c]] # t
           /\ \A t \in Sids \ {s} : mem'[t] # NoObj => mem'[t] = mem[t] /\ msgs'[mem'[t]] = msgs[mem[t]]
<1>1. /\ mem' = [mem EXCEPT ![s] = o]
      /\ owner'[o] = s
      /\ mem[s] \in {NoObj, o}
      /\ mem[s] = NoObj => Loadable(s) /\ o \notin Live
      /\ \A x \in Live \ {NoObj} : owner'[x] = owner[x] /\ msgs'[x] = msgs[x]
                                        /\ (x \in busy' <=> x \in busy)
  BY GetFacts
<1>2. /\ \A t \in Sids : mem[t] \in Live
      /\ \A c \in Holders : conn[c] \in Live
  BY DEF Live, Kept, Held
<1>3. /\ mem \in [Sids -> Objs \cup {NoObj}] /\ conn \in [Holders -> Objs \cup {NoObj}]
      /\ turns \in [Holders -> Nat]
      /\ \A c \in Holders : turns[c] > 0 => conn[c] # NoObj
      /\ NoObj \notin Objs
  BY StoreAssumption DEF Inv, TypeOK
<1>4. mem' \in [Sids -> Objs \cup {NoObj}]
  BY <1>1, <1>3
<1>5. \A c \in Holders : turns[c] > 0 => conn'[c] # NoObj
  BY <1>3
<1>6. \A t \in Sids \ {s} : mem'[t] = mem[t] /\ (mem'[t] # NoObj => msgs'[mem'[t]] = msgs[mem[t]])
  BY <1>1, <1>2, <1>3
<1>7. Filed'
  BY <1>1, <1>2, <1>3, <1>6 DEF Inv, Filed
<1>8. Down'
  BY <1>3 DEF Inv, Down
<1>9. s \in known
  <2>1. CASE mem[s] = NoObj
    BY <1>1, <2>1 DEF Inv, Fresh, Loadable, NoFile
  <2>2. CASE mem[s] # NoObj
    BY <2>2 DEF Inv, Fresh
  <2> QED
    BY <2>1, <2>2
<1>10. OneObject'
  <2> SUFFICES ASSUME NEW c \in Holders, conn'[c] # NoObj, owner'[conn'[c]] \notin forked
               PROVE  mem'[owner'[conn'[c]]] = conn'[c]
    BY DEF OneObject
  <2>1. CASE conn'[c] = o
    BY <2>1, <1>1, <1>3
  <2>2. CASE conn'[c] = conn[c] /\ conn[c] # o
    <3>1. owner'[conn[c]] = owner[conn[c]] /\ mem[owner[conn[c]]] = conn[c]
      BY <2>2, <1>1, <1>2 DEF Inv, OneObject
    <3>2. owner[conn[c]] \in Sids
      BY <2>2, <1>3 DEF Inv, TypeOK
    <3>3. owner[conn[c]] # s
      BY <3>1, <2>2, <1>1
    <3> QED
      BY <2>2, <3>1, <3>2, <3>3, <1>1, <1>3
  <2> QED
    BY <2>1, <2>2
<1>11. \A t \in Sids \ known : mem'[t] = NoObj
  BY <1>6, <1>9 DEF Inv, Fresh
<1>12. \A t \in Sids \ known, c \in Holders : conn'[c] # NoObj => owner'[conn'[c]] # t
  <2> SUFFICES ASSUME NEW t \in Sids \ known, NEW c \in Holders, conn'[c] # NoObj
               PROVE  owner'[conn'[c]] # t
    OBVIOUS
  <2>1. CASE conn'[c] = o
    BY <2>1, <1>1, <1>9
  <2>2. CASE conn'[c] = conn[c]
    BY <2>2, <1>1, <1>2 DEF Inv, Fresh
  <2> QED
    BY <2>1, <2>2
<1> QED
  BY <1>4, <1>5, <1>6, <1>7, <1>8, <1>9, <1>10, <1>11, <1>12

\* The object s has after get is not behind its file.
LEMMA GetCurrent ==
    ASSUME Inv, NEW s \in Sids, NEW o \in Objs, Get(s, o), s \notin forked
    PROVE  /\ Loadable(s) => Content(s).msgs \subseteq msgs'[o]
           /\ saved[s] \subseteq msgs'[o]
<1>1. Loadable(s) => Content(s).msgs \subseteq msgs'[o]
  <2>1. CASE mem[s] = NoObj
    BY <2>1, GetFacts
  <2>2. CASE mem[s] # NoObj
    BY <2>2, GetFacts DEF Inv, MemoryIsNewest, Live, Kept
  <2> QED
    BY <2>1, <2>2
<1> QED
  BY <1>1 DEF Inv, Durable, Loadable, Content

\* Resume and Connect change neither files nor what was saved.
LEMMA GetStep ==
    ASSUME Inv, NEW s \in Sids, up, \E o \in Objs : Get(s, o),
           UNCHANGED <<up, turns, disk, legacy, known, sent, faults, history>>,
           \/ UNCHANGED conn
           \/ \E c \in Holders : /\ conn[c] = NoObj
                              /\ \E o \in Objs : Get(s, o) /\ conn' = [conn EXCEPT ![c] = o]
    PROVE  Inv'
<1>1. PICK o \in Objs : /\ Get(s, o)
                        /\ conn' \in [Holders -> Objs \cup {NoObj}]
                        /\ \A c \in Holders : conn'[c] \in {conn[c], o}
                        /\ \A c \in Holders : turns[c] > 0 => conn'[c] = conn[c]
  BY DEF Inv, TypeOK
<1>2. UNCHANGED <<saved, forked>>
  BY DEF history
<1>3. /\ mem' \in [Sids -> Objs \cup {NoObj}]
      /\ \A c \in Holders : turns[c] > 0 => conn'[c] # NoObj
      /\ Filed' /\ Down' /\ OneObject'
      /\ \A t \in Sids \ known : mem'[t] = NoObj
      /\ \A t \in Sids \ known, c \in Holders : conn'[c] # NoObj => owner'[conn'[c]] # t
      /\ \A t \in Sids \ {s} : mem'[t] # NoObj => mem'[t] = mem[t] /\ msgs'[mem'[t]] = msgs[mem[t]]
  BY <1>1, <1>2, GetKeeps
<1>4. TypeOK'
  <2>1. owner' \in [Objs -> Sids] /\ msgs' \in [Objs -> SUBSET Msgs] /\ busy' \subseteq Objs
    BY <1>1, GetFacts
  <2> QED
    BY <1>1, <1>2, <1>3, <2>1 DEF Inv, TypeOK
<1>5. Fresh'
  BY <1>2, <1>3 DEF Inv, Fresh
<1>6. MemoryIsNewest'
  <2> SUFFICES ASSUME NEW t \in Sids \ forked, mem'[t] # NoObj, Loadable(t)
               PROVE  Content(t).msgs \subseteq msgs'[mem'[t]]
    BY <1>2 DEF MemoryIsNewest, Loadable, Content
  <2>1. CASE t = s
    BY <2>1, <1>1, GetCurrent, GetFacts DEF Inv, TypeOK
  <2>2. CASE t # s
    BY <2>2, <1>3 DEF Inv, MemoryIsNewest
  <2> QED
    BY <2>1, <2>2
<1>7. Durable'
  BY <1>2 DEF Inv, Durable
<1> QED
  BY <1>3, <1>4, <1>5, <1>6, <1>7 DEF Inv

LEMMA ResumeInv == ASSUME Inv, NEW s \in Sids, Resume(s) PROVE Inv'
  BY GetStep DEF Resume

LEMMA ConnectInv == ASSUME Inv, NEW c \in Holders, NEW s \in Sids, Connect(c, s) PROVE Inv'
  BY GetStep DEF Connect

\* The three outcomes of a save.
LEMMA PersistFacts ==
    ASSUME TypeOK, NEW s \in Sids, NEW f \in File, Persist(s, f)
    PROVE  /\ disk' \in [Sids -> File] /\ saved' \in [Sids -> SUBSET Msgs]
           /\ faults' \in 0..MaxFaults
           /\ \A t \in Sids \ {s} : disk'[t] = disk[t] /\ saved'[t] = saved[t]
           /\ \/ disk'[s] = f /\ saved'[s] = saved[s] \cup f.msgs
              \/ disk'[s] = disk[s] /\ saved'[s] = saved[s]
              \/ disk'[s] = TornFile /\ saved'[s] = {}
<1>1. f.msgs \in SUBSET Msgs /\ TornFile \in File
  BY FileTypes DEF File
<1>2. faults \in 0..MaxFaults /\ MaxFaults \in Nat
  BY StoreAssumption DEF TypeOK
<1>3. faults' \in 0..MaxFaults
  BY <1>2 DEF Persist
<1> QED
  BY <1>1, <1>3 DEF Persist, TypeOK

\* A save of what the store's object has, by an object that is not behind, loses nothing.
LEMMA SaveKeeps ==
    ASSUME Inv, NEW s \in Sids, NEW ms \in SUBSET Msgs, NEW b \in BOOLEAN,
           Persist(s, WholeFile(ms, b)),
           UNCHANGED <<legacy, forked>>,
           s \notin forked => saved[s] \subseteq ms,
           s \notin forked /\ mem'[s] # NoObj =>
               /\ ms \subseteq msgs'[mem'[s]]
               /\ Loadable(s) => Content(s).msgs \subseteq msgs'[mem'[s]],
           \A t \in Sids \ {s} : mem'[t] # NoObj =>
               mem'[t] = mem[t] /\ msgs'[mem'[t]] = msgs[mem[t]]
    PROVE  MemoryIsNewest' /\ Durable'
<1> DEFINE f == WholeFile(ms, b)
<1>1. f \in File /\ f.msgs = ms /\ f.kind = "whole"
  BY FileTypes DEF WholeFile
<1>2. /\ \A t \in Sids \ {s} : disk'[t] = disk[t] /\ saved'[t] = saved[t]
      /\ \/ disk'[s] = f /\ saved'[s] = saved[s] \cup f.msgs
         \/ disk'[s] = disk[s] /\ saved'[s] = saved[s]
         \/ disk'[s] = TornFile /\ saved'[s] = {}
  BY <1>1, PersistFacts DEF Inv
<1> HIDE DEF f
<1>3. MemoryIsNewest'
  <2> SUFFICES ASSUME NEW t \in Sids \ forked, mem'[t] # NoObj, Loadable(t)'
               PROVE  Content(t)'.msgs \subseteq msgs'[mem'[t]]
    BY DEF MemoryIsNewest
  <2>1. CASE t # s
    <3>1. Loadable(t) /\ Content(t)' = Content(t)
      BY <2>1, <1>2 DEF Loadable, Content
    <3> QED
      BY <2>1, <3>1 DEF Inv, MemoryIsNewest
  <2>2. CASE t = s /\ disk'[s] = f
    BY <2>2, <1>1 DEF Content
  <2>3. CASE t = s /\ disk'[s] = disk[s]
    <3>1. Loadable(s) /\ Content(s)' = Content(s)
      BY <2>3 DEF Loadable, Content
    <3> QED
      BY <2>3, <3>1
  <2>4. CASE t = s /\ disk'[s] = TornFile
    BY <2>4 DEF Loadable, TornFile
  <2> QED
    BY <2>1, <2>2, <2>3, <2>4, <1>2
<1>4. Durable'
  <2> SUFFICES ASSUME NEW t \in Sids \ forked, saved'[t] # {}
               PROVE  disk'[t].kind = "whole" /\ saved'[t] \subseteq disk'[t].msgs
    BY DEF Durable
  <2>1. CASE t # s \/ (disk'[s] = disk[s] /\ saved'[s] = saved[s])
    BY <2>1, <1>2 DEF Inv, Durable
  <2>2. CASE t = s /\ disk'[s] = f /\ saved'[s] = saved[s] \cup f.msgs
    BY <2>2, <1>1
  <2> QED
    BY <2>1, <2>2, <1>2
<1> QED
  BY <1>3, <1>4

\* A new session is a new object with an empty file; no file was there before.
LEMMA CreateInv == ASSUME Inv, NEW s \in Sids, Create(s) PROVE Inv'
<1>1. PICK o \in Objs : /\ o \notin Live
                        /\ Fill(o, s, NoFile)
                        /\ mem' = [mem EXCEPT ![s] = o]
  BY DEF Create
<1>2. /\ up /\ s \notin known /\ known' = known \cup {s}
      /\ Persist(s, WholeFile({}, FALSE))
      /\ UNCHANGED <<up, conn, turns, legacy, sent, forked>>
  BY DEF Create
<1>3. /\ mem[s] = NoObj /\ disk[s] = NoFile /\ legacy[s] = "none" /\ saved[s] = {}
      /\ \A c \in Holders : conn[c] # NoObj => owner[conn[c]] # s
  BY <1>2 DEF Inv, Fresh
<1>4. /\ owner' \in [Objs -> Sids] /\ msgs' \in [Objs -> SUBSET Msgs] /\ busy' \subseteq Objs
      /\ owner'[o] = s /\ msgs'[o] = {}
      /\ \A x \in Objs \ {o} : owner'[x] = owner[x] /\ msgs'[x] = msgs[x] /\ (x \in busy' <=> x \in busy)
  BY <1>1 DEF Fill, NoFile, Inv, TypeOK
<1>5. /\ mem \in [Sids -> Objs \cup {NoObj}] /\ conn \in [Holders -> Objs \cup {NoObj}]
      /\ turns \in [Holders -> Nat]
      /\ \A c \in Holders : turns[c] > 0 => conn[c] # NoObj
      /\ NoObj \notin Objs
  BY StoreAssumption DEF Inv, TypeOK
<1>6. /\ \A t \in Sids : mem[t] # o
      /\ \A c \in Holders : conn[c] # o
  BY <1>1 DEF Live, Kept, Held
<1>7. \A t \in Sids \ {s} : mem'[t] = mem[t] /\ (mem'[t] # NoObj => msgs'[mem'[t]] = msgs[mem[t]])
  BY <1>1, <1>4, <1>5, <1>6
<1>8. WholeFile({}, FALSE) \in File
  BY FileTypes
<1>9. /\ disk' \in [Sids -> File] /\ saved' \in [Sids -> SUBSET Msgs]
      /\ faults' \in 0..MaxFaults
      /\ \A t \in Sids \ {s} : disk'[t] = disk[t] /\ saved'[t] = saved[t]
  BY <1>2, <1>8, PersistFacts DEF Inv
<1>10. TypeOK'
  <2>1. mem' \in [Sids -> Objs \cup {NoObj}]
    BY <1>1, <1>5
  <2>2. \A c \in Holders : turns[c] > 0 => conn[c] # NoObj
    BY <1>5
  <2> QED
    BY <1>2, <1>4, <1>9, <2>1, <2>2 DEF Inv, TypeOK
<1>11. Filed'
  BY <1>1, <1>4, <1>5, <1>6 DEF Inv, Filed
<1>12. Down'
  BY <1>2 DEF Inv, Down
<1>13. \A c \in Holders : conn[c] # NoObj => owner'[conn[c]] = owner[conn[c]]
  BY <1>4, <1>5, <1>6
<1>14. Fresh'
  <2> SUFFICES ASSUME NEW t \in Sids \ known'
               PROVE  /\ mem'[t] = NoObj /\ disk'[t] = NoFile /\ legacy'[t] = "none" /\ saved'[t] = {}
                      /\ \A c \in Holders : conn'[c] # NoObj => owner'[conn'[c]] # t
    BY DEF Fresh
  <2>1. t \in Sids \ known /\ t # s
    BY <1>2
  <2> QED
    BY <2>1, <1>2, <1>7, <1>9, <1>13 DEF Inv, Fresh
<1>15. OneObject'
  <2> SUFFICES ASSUME NEW c \in Holders, conn[c] # NoObj, owner'[conn[c]] \notin forked
               PROVE  mem'[owner'[conn[c]]] = conn[c]
    BY <1>2 DEF OneObject
  <2>1. owner[conn[c]] \in Sids \ {s} /\ mem[owner[conn[c]]] = conn[c]
    BY <1>3, <1>5, <1>13 DEF Inv, OneObject, TypeOK
  <2> QED
    BY <2>1, <1>7, <1>13
<1>16. MemoryIsNewest' /\ Durable'
  <2>1. ~ Loadable(s)
    BY <1>3 DEF Loadable, NoFile
  <2> QED
    BY <1>2, <1>3, <1>7, <2>1, SaveKeeps
<1> QED
  BY <1>10, <1>11, <1>12, <1>14, <1>15, <1>16 DEF Inv

\* A configuration update saves the session it got.
LEMMA UpdateConfigInv == ASSUME Inv, NEW s \in Sids, UpdateConfig(s) PROVE Inv'
<1>1. PICK o \in Objs : Get(s, o)
  BY DEF UpdateConfig
<1>2. /\ up /\ Persist(s, Current(s))
      /\ UNCHANGED <<up, conn, turns, legacy, known, sent, forked>>
  BY DEF UpdateConfig
<1>3. /\ mem' = [mem EXCEPT ![s] = o]
      /\ owner' \in [Objs -> Sids] /\ msgs' \in [Objs -> SUBSET Msgs] /\ busy' \subseteq Objs
      /\ WholeFile(msgs'[o], o \in busy') = Current(s)
  BY <1>1, GetFacts
<1>4. conn \in [Holders -> Objs \cup {NoObj}]
  BY DEF Inv, TypeOK
<1>5. /\ mem' \in [Sids -> Objs \cup {NoObj}]
      /\ \A c \in Holders : turns[c] > 0 => conn'[c] # NoObj
      /\ Filed' /\ Down' /\ OneObject'
      /\ s \in known
      /\ \A t \in Sids \ known : mem'[t] = NoObj
      /\ \A t \in Sids \ known, c \in Holders : conn'[c] # NoObj => owner'[conn'[c]] # t
      /\ \A t \in Sids \ {s} : mem'[t] # NoObj => mem'[t] = mem[t] /\ msgs'[mem'[t]] = msgs[mem[t]]
  BY <1>1, <1>2, <1>4, GetKeeps
<1>6. Current(s) \in File
  BY FileTypes DEF Inv
<1>7. /\ disk' \in [Sids -> File] /\ saved' \in [Sids -> SUBSET Msgs]
      /\ faults' \in 0..MaxFaults
      /\ \A t \in Sids \ {s} : disk'[t] = disk[t] /\ saved'[t] = saved[t]
  BY <1>2, <1>6, PersistFacts DEF Inv
<1>8. TypeOK'
  BY <1>2, <1>3, <1>5, <1>7 DEF Inv, TypeOK
<1>9. Fresh'
  BY <1>2, <1>5, <1>7 DEF Inv, Fresh
<1>10. MemoryIsNewest' /\ Durable'
  <2>1. mem'[s] = o
    BY <1>3 DEF Inv, TypeOK
  <2>2. s \notin forked => /\ Loadable(s) => Content(s).msgs \subseteq msgs'[o]
                           /\ saved[s] \subseteq msgs'[o]
    BY <1>1, GetCurrent
  <2>3. msgs'[o] \in SUBSET Msgs /\ (o \in busy') \in BOOLEAN
    BY <1>3
  <2>4. Persist(s, WholeFile(msgs'[o], o \in busy'))
    BY <1>2, <1>3
  <2> QED
    BY <1>2, <1>5, <2>1, <2>2, <2>3, <2>4, SaveKeeps
<1> QED
  BY <1>5, <1>8, <1>9, <1>10 DEF Inv

\* A turn adds its message to the object it works on.
LEMMA StartTurnInv == ASSUME Inv, NEW c \in Holders, NEW m \in Msgs, StartTurn(c, m) PROVE Inv'
<1>1. /\ conn[c] \in Objs /\ conn[c] # NoObj
      /\ turns' = [turns EXCEPT ![c] = @ + 1]
      /\ busy' = busy \cup {conn[c]}
      /\ msgs' = [msgs EXCEPT ![conn[c]] = @ \cup {m}]
      /\ sent' = sent \cup {m}
      /\ UNCHANGED <<up, owner, mem, conn, disk, legacy, known, faults, saved, forked>>
  BY DEF StartTurn, history, Inv, TypeOK
<1>2. TypeOK'
  BY <1>1 DEF Inv, TypeOK
<1>4. Filed' /\ Fresh' /\ Down' /\ OneObject' /\ Durable'
  BY <1>1 DEF Inv, Filed, Fresh, Down, OneObject, Durable
<1>5. MemoryIsNewest'
  <2>1. \A o \in Objs : msgs[o] \subseteq msgs'[o]
    BY <1>1 DEF Inv, TypeOK
  <2> QED
    BY <1>1, <2>1 DEF Inv, TypeOK, MemoryIsNewest, Loadable, Content
<1> QED
  BY <1>2, <1>4, <1>5 DEF Inv

\* A turn that ends saves its object, which is the store's unless the session is forked.
LEMMA EndTurnInv == ASSUME Inv, NEW c \in Holders, EndTurn(c) PROVE Inv'
<1> DEFINE o == conn[c]
           s == owner[o]
<1>1. /\ turns[c] > 0 /\ turns' = [turns EXCEPT ![c] = @ - 1] /\ busy' = busy \ {o}
      /\ Persist(s, WholeFile(msgs[o], FALSE))
      /\ UNCHANGED <<up, owner, msgs, mem, conn, legacy, known, sent, forked>>
  BY DEF EndTurn
<1>2. o \in Objs /\ o # NoObj /\ s \in Sids /\ msgs[o] \in SUBSET Msgs
  BY <1>1 DEF Inv, TypeOK
<1>3. WholeFile(msgs[o], FALSE) \in File
  BY <1>2, FileTypes
<1>4. /\ disk' \in [Sids -> File] /\ saved' \in [Sids -> SUBSET Msgs]
      /\ faults' \in 0..MaxFaults
      /\ \A t \in Sids \ {s} : disk'[t] = disk[t] /\ saved'[t] = saved[t]
  BY <1>1, <1>2, <1>3, PersistFacts DEF Inv
<1>5. TypeOK'
  <2>1. turns' \in [Holders -> Nat] /\ \A d \in Holders : turns'[d] > 0 => conn[d] # NoObj
    BY <1>1 DEF Inv, TypeOK
  <2> QED
    BY <1>1, <1>4, <2>1 DEF Inv, TypeOK
<1>6. Filed' /\ Down' /\ OneObject'
  BY <1>1 DEF Inv, Filed, Down, OneObject
<1>7. s \in known
  BY <1>2 DEF Inv, Fresh
<1>8. Fresh'
  BY <1>1, <1>4, <1>7 DEF Inv, Fresh
<1>9. MemoryIsNewest' /\ Durable'
  <2>1. s \notin forked => mem[s] = o
    BY <1>2 DEF Inv, OneObject
  <2>2. s \notin forked => (Loadable(s) => Content(s).msgs \subseteq msgs[o])
    BY <1>2, <2>1 DEF Inv, MemoryIsNewest
  <2>3. s \notin forked => saved[s] \subseteq msgs[o]
    BY <1>2, <2>2 DEF Inv, Durable, Loadable, Content
  <2> QED
    BY <1>1, <1>2, <2>1, <2>2, <2>3, SaveKeeps
<1> QED
  BY <1>5, <1>6, <1>8, <1>9 DEF Inv

LEMMA CutTurnInv == ASSUME Inv, NEW c \in Holders, CutTurn(c) PROVE Inv'
<1>1. /\ turns[c] > 0 /\ turns' = [turns EXCEPT ![c] = @ - 1] /\ busy' = busy \ {conn[c]}
      /\ UNCHANGED <<up, owner, msgs, mem, conn, disk, legacy, known, sent, faults, saved, forked>>
  BY DEF CutTurn, history
<1>2. TypeOK'
  <2>1. turns' \in [Holders -> Nat] /\ \A d \in Holders : turns'[d] > 0 => conn[d] # NoObj
    BY <1>1 DEF Inv, TypeOK
  <2> QED
    BY <1>1, <2>1 DEF Inv, TypeOK
<1>3. Filed' /\ Fresh' /\ Down' /\ OneObject' /\ Durable'
  BY <1>1 DEF Inv, Filed, Fresh, Down, OneObject, Durable
<1>4. MemoryIsNewest'
  BY <1>1 DEF Inv, MemoryIsNewest, Loadable, Content
<1> QED
  BY <1>2, <1>3, <1>4 DEF Inv

LEMMA FailInv == ASSUME Inv, NEW c \in Holders, Fail(c) PROVE Inv'
<1>1. /\ busy' = busy \ {conn[c]}
      /\ UNCHANGED <<up, owner, msgs, mem, conn, turns, disk, legacy, known, sent, faults, saved, forked>>
  BY DEF Fail, history
<1>2. TypeOK'
  BY <1>1 DEF Inv, TypeOK
<1>3. Filed' /\ Fresh' /\ Down' /\ OneObject' /\ Durable'
  BY <1>1 DEF Inv, Filed, Fresh, Down, OneObject, Durable
<1>4. MemoryIsNewest'
  BY <1>1 DEF Inv, MemoryIsNewest, Loadable, Content
<1> QED
  BY <1>2, <1>3, <1>4 DEF Inv

\* Only an object that neither the store nor another connection has is gone.
LEMMA DisconnectInv == ASSUME Inv, NEW c \in Holders, Disconnect(c) PROVE Inv'
<1> DEFINE O == {conn[c]} \ (Kept \cup Held(Holders \ {c}))
<1>1. /\ conn[c] # NoObj /\ turns[c] = 0 /\ conn' = [conn EXCEPT ![c] = NoObj]
      /\ msgs' = [x \in Objs |-> IF x \in O THEN {} ELSE msgs[x]]
      /\ busy' = busy \ (O \cup {conn[c]})
      /\ UNCHANGED <<up, owner, mem, turns, disk, legacy, known, sent, faults, saved, forked>>
  BY DEF Disconnect, Collect, history
<1>2. /\ \A s \in Sids : mem[s] \notin O
      /\ \A d \in Holders \ {c} : conn[d] \notin O
  BY DEF Kept, Held
<1> HIDE DEF O
<1>3. TypeOK'
  <2>1. \A d \in Holders : turns[d] > 0 => conn'[d] # NoObj
    BY <1>1 DEF Inv, TypeOK
  <2>2. msgs' \in [Objs -> SUBSET Msgs]
    BY <1>1 DEF Inv, TypeOK
  <2> QED
    BY <1>1, <2>1, <2>2 DEF Inv, TypeOK
<1>4. Filed' /\ Durable'
  BY <1>1 DEF Inv, Filed, Durable
<1>5. Fresh' /\ Down' /\ OneObject'
  BY <1>1 DEF Inv, TypeOK, Fresh, Down, OneObject
<1>6. MemoryIsNewest'
  <2>1. \A s \in Sids : mem[s] # NoObj => msgs'[mem[s]] = msgs[mem[s]]
    BY <1>1, <1>2 DEF Inv, TypeOK
  <2> QED
    BY <1>1, <2>1 DEF Inv, MemoryIsNewest, Loadable, Content
<1> QED
  BY <1>3, <1>4, <1>5, <1>6 DEF Inv

\* A pushed turn that ends saves its object, or does not, and lets go of it.
LEMMA EndPushInv == ASSUME Inv, NEW p \in Holders, EndPush(p) PROVE Inv'
<1> DEFINE o == conn[p]
           s == owner[o]
           O == {o} \ (Kept \cup Held(Holders \ {p}))
<1>1. /\ o \in Objs /\ o # NoObj /\ s \in Sids /\ msgs[o] \in SUBSET Msgs
      /\ turns' = [turns EXCEPT ![p] = 0] /\ conn' = [conn EXCEPT ![p] = NoObj]
      /\ msgs' = [x \in Objs |-> IF x \in O THEN {} ELSE msgs[x]]
      /\ busy' = busy \ (O \cup {o})
      /\ Persist(s, WholeFile(msgs[o], FALSE)) \/ UNCHANGED <<disk, faults, saved>>
      /\ UNCHANGED <<up, owner, mem, legacy, known, sent, forked>>
  BY DEF EndPush, Collect, Inv, TypeOK
<1>2. /\ \A t \in Sids : mem[t] \notin O
      /\ \A d \in Holders \ {p} : conn[d] \notin O
  BY DEF Kept, Held
<1> HIDE DEF O
<1>3. \A t \in Sids : mem[t] # NoObj => msgs'[mem[t]] = msgs[mem[t]]
  BY <1>1, <1>2 DEF Inv, TypeOK
<1>4. /\ disk' \in [Sids -> File] /\ saved' \in [Sids -> SUBSET Msgs]
      /\ faults' \in 0..MaxFaults
      /\ \A t \in Sids \ {s} : disk'[t] = disk[t] /\ saved'[t] = saved[t]
  <2>1. CASE Persist(s, WholeFile(msgs[o], FALSE))
    <3>1. WholeFile(msgs[o], FALSE) \in File
      BY <1>1, FileTypes
    <3> QED
      BY <2>1, <3>1, <1>1, PersistFacts DEF Inv
  <2>2. CASE UNCHANGED <<disk, faults, saved>>
    BY <2>2 DEF Inv, TypeOK
  <2> QED
    BY <2>1, <2>2, <1>1
<1>5. TypeOK'
  <2>1. \A d \in Holders : turns'[d] > 0 => conn'[d] # NoObj
    BY <1>1 DEF Inv, TypeOK
  <2>2. /\ msgs' \in [Objs -> SUBSET Msgs] /\ turns' \in [Holders -> Nat]
        /\ conn' \in [Holders -> Objs \cup {NoObj}] /\ busy' \subseteq Objs
    BY <1>1 DEF Inv, TypeOK
  <2> QED
    BY <1>1, <1>4, <2>1, <2>2 DEF Inv, TypeOK
<1>6. Filed'
  BY <1>1 DEF Inv, Filed
<1>7. Down' /\ OneObject'
  BY <1>1 DEF Inv, TypeOK, Down, OneObject
<1>8. s \in known
  BY <1>1 DEF Inv, Fresh
<1>9. Fresh'
  BY <1>1, <1>4, <1>8 DEF Inv, TypeOK, Fresh
<1>10. MemoryIsNewest' /\ Durable'
  <2>1. CASE Persist(s, WholeFile(msgs[o], FALSE))
    <3>1. s \notin forked => mem[s] = o
      BY <1>1 DEF Inv, OneObject
    <3>2. s \notin forked => (Loadable(s) => Content(s).msgs \subseteq msgs[o])
      BY <1>1, <3>1 DEF Inv, MemoryIsNewest
    <3>3. s \notin forked => saved[s] \subseteq msgs[o]
      BY <1>1, <3>2 DEF Inv, Durable, Loadable, Content
    <3>4. s \notin forked => mem'[s] = o /\ msgs'[mem'[s]] = msgs[o]
      BY <1>1, <1>3, <3>1
    <3>5. \A t \in Sids \ {s} : mem'[t] # NoObj =>
              mem'[t] = mem[t] /\ msgs'[mem'[t]] = msgs[mem[t]]
      BY <1>1, <1>3
    <3> QED
      BY <2>1, <1>1, <3>2, <3>3, <3>4, <3>5, SaveKeeps
  <2>2. CASE UNCHANGED <<disk, faults, saved>>
    BY <2>2, <1>1, <1>3 DEF Inv, MemoryIsNewest, Durable, Loadable, Content
  <2> QED
    BY <2>1, <2>2, <1>1
<1> QED
  BY <1>5, <1>6, <1>7, <1>9, <1>10 DEF Inv

\* Files that are removed cannot be ahead of memory, and nothing saved of them counts.
LEMMA RemovalKeeps ==
    ASSUME Inv, NEW S \in SUBSET Sids, NEW S2 \in SUBSET Sids,
           RemoveFiles(S),
           legacy' = [s \in Sids |-> IF s \in S \cup S2 THEN "none" ELSE legacy[s]],
           UNCHANGED known,
           forked \subseteq forked',
           \A s \in Sids : mem'[s] # NoObj => mem'[s] = mem[s] /\ msgs'[mem'[s]] = msgs[mem[s]]
    PROVE  /\ disk' \in [Sids -> File] /\ saved' \in [Sids -> SUBSET Msgs]
           /\ legacy' \in [Sids -> {"none"} \cup Layouts]
           /\ \A s \in Sids \ known : disk'[s] = NoFile /\ legacy'[s] = "none" /\ saved'[s] = {}
           /\ MemoryIsNewest' /\ Durable'
<1>1. disk' \in [Sids -> File] /\ saved' \in [Sids -> SUBSET Msgs]
  BY FileTypes DEF RemoveFiles, Inv, TypeOK
<1>2. legacy' \in [Sids -> {"none"} \cup Layouts]
  BY DEF Inv, TypeOK
<1>3. \A s \in Sids \ known : disk'[s] = NoFile /\ legacy'[s] = "none" /\ saved'[s] = {}
  BY DEF RemoveFiles, Inv, Fresh
<1>4. MemoryIsNewest'
  <2> SUFFICES ASSUME NEW s \in Sids \ forked', mem'[s] # NoObj, Loadable(s)'
               PROVE  Content(s)'.msgs \subseteq msgs'[mem'[s]]
    BY DEF MemoryIsNewest
  <2>1. CASE s \in S
    BY <2>1 DEF RemoveFiles, Loadable, NoFile
  <2>2. CASE s \notin S
    <3>1. disk'[s] = disk[s]
      BY <2>2 DEF RemoveFiles
    <3>2. Loadable(s) /\ Content(s)' = Content(s)
      BY <3>1 DEF Loadable, Content
    <3> QED
      BY <3>2 DEF Inv, MemoryIsNewest
  <2> QED
    BY <2>1, <2>2
<1>5. Durable'
  BY DEF Inv, Durable, RemoveFiles
<1> QED
  BY <1>1, <1>2, <1>3, <1>4, <1>5

\* If somebody still works on the deleted session it is forked from now on.
LEMMA DeleteInv == ASSUME Inv, NEW s \in Sids, Delete(s) PROVE Inv'
<1> DEFINE O == {mem[s]} \ Held(Holders)
<1>1. /\ up /\ mem' = [mem EXCEPT ![s] = NoObj]
      /\ msgs' = [x \in Objs |-> IF x \in O THEN {} ELSE msgs[x]]
      /\ busy' = busy \ (O \cup {})
      /\ RemoveFiles({s})
      /\ legacy' = [legacy EXCEPT ![s] = "none"]
      /\ forked' = IF InUse(s) THEN forked \cup {s} ELSE forked
      /\ UNCHANGED <<up, owner, conn, turns, known, sent, faults>>
  BY DEF Delete, Collect
<1>2. \A c \in Holders : conn[c] \notin O
  BY DEF Held
<1>3. \A t \in Sids \ {s} : mem[t] # NoObj => mem[t] \notin O
  BY DEF Inv, Filed
<1> HIDE DEF O
<1>4. \A t \in Sids : mem'[t] # NoObj => mem'[t] = mem[t] /\ msgs'[mem'[t]] = msgs[mem[t]]
  BY <1>1, <1>3 DEF Inv, TypeOK
<1>5. legacy' = [t \in Sids |-> IF t \in {s} \cup {} THEN "none" ELSE legacy[t]]
  BY <1>1 DEF Inv, TypeOK
<1>6. /\ disk' \in [Sids -> File] /\ saved' \in [Sids -> SUBSET Msgs]
      /\ legacy' \in [Sids -> {"none"} \cup Layouts]
      /\ \A t \in Sids \ known : disk'[t] = NoFile /\ legacy'[t] = "none" /\ saved'[t] = {}
      /\ MemoryIsNewest' /\ Durable'
  BY <1>1, <1>4, <1>5, RemovalKeeps, ZenonT(30)
<1>7. TypeOK'
  <2>1. msgs' \in [Objs -> SUBSET Msgs] /\ mem' \in [Sids -> Objs \cup {NoObj}]
    BY <1>1 DEF Inv, TypeOK
  <2> QED
    BY <1>1, <1>6, <2>1 DEF Inv, TypeOK
<1>8. Filed' /\ Down'
  BY <1>1, <1>4 DEF Inv, Filed, Down
<1>9. Fresh'
  BY <1>1, <1>4, <1>6 DEF Inv, Fresh
<1>10. OneObject'
  <2> SUFFICES ASSUME NEW c \in Holders, conn[c] # NoObj, owner[conn[c]] \notin forked'
               PROVE  mem'[owner[conn[c]]] = conn[c]
    BY <1>1 DEF OneObject
  <2>1. owner[conn[c]] # s /\ owner[conn[c]] \notin forked
    BY <1>1 DEF InUse
  <2>2. owner[conn[c]] \in Sids
    BY DEF Inv, TypeOK
  <2> QED
    BY <1>1, <2>1, <2>2 DEF Inv, TypeOK, OneObject
<1> QED
  BY <1>6, <1>7, <1>8, <1>9, <1>10 DEF Inv

\* The history's and the archive's deletions touch nothing but files.
LEMMA FilesOnly ==
    ASSUME Inv, NEW S \in SUBSET Sids, NEW S2 \in SUBSET Sids, RemoveFiles(S),
           legacy' = [s \in Sids |-> IF s \in S \cup S2 THEN "none" ELSE legacy[s]],
           UNCHANGED <<up, objVars, mem, conn, turns, known, sent, faults, forked>>
    PROVE  Inv'
<1>1. UNCHANGED <<owner, msgs, busy>>
  BY DEF objVars
<1>2. /\ disk' \in [Sids -> File] /\ saved' \in [Sids -> SUBSET Msgs]
      /\ legacy' \in [Sids -> {"none"} \cup Layouts]
      /\ \A t \in Sids \ known : disk'[t] = NoFile /\ legacy'[t] = "none" /\ saved'[t] = {}
      /\ MemoryIsNewest' /\ Durable'
  BY <1>1, RemovalKeeps
<1>3. TypeOK'
  BY <1>1, <1>2 DEF Inv, TypeOK
<1>4. Filed' /\ Fresh' /\ Down' /\ OneObject'
  BY <1>1, <1>2 DEF Inv, Filed, Fresh, Down, OneObject
<1> QED
  BY <1>2, <1>3, <1>4 DEF Inv

LEMMA DeleteHistoryInv == ASSUME Inv, NEW s \in Sids, DeleteHistory(s) PROVE Inv'
<1>1. legacy' = [t \in Sids |-> IF t \in {s} \cup {} THEN "none" ELSE legacy[t]]
  BY DEF DeleteHistory, Inv, TypeOK
<1> QED
  BY <1>1, FilesOnly DEF DeleteHistory

LEMMA DeleteAllHistoryInv == ASSUME Inv, DeleteAllHistory PROVE Inv'
<1> DEFINE S == {s \in Sids : Scanned(s)}
           S2 == {s \in Sids : legacy[s] = "nested"}
<1>1. legacy' = [s \in Sids |-> IF s \in S \cup S2 THEN "none" ELSE legacy[s]]
  BY DEF DeleteAllHistory
<1>2. RemoveFiles(S) /\ UNCHANGED <<up, objVars, mem, conn, turns, known, sent, faults, forked>>
  BY DEF DeleteAllHistory
<1> HIDE DEF S, S2
<1>3. S \in SUBSET Sids /\ S2 \in SUBSET Sids
  BY DEF S, S2
<1> QED
  BY <1>1, <1>2, <1>3, FilesOnly

LEMMA DeleteIndexEntryInv == ASSUME Inv, DeleteIndexEntry PROVE Inv'
<1>1. /\ UNCHANGED <<up, owner, msgs, busy, mem, conn, turns, disk, known, sent, faults, saved, forked>>
      /\ legacy' = [s \in Sids |-> IF legacy[s] = "nested" THEN "none" ELSE legacy[s]]
  BY DEF DeleteIndexEntry, objVars, history
<1>2. TypeOK'
  BY <1>1 DEF Inv, TypeOK
<1>3. Filed' /\ Fresh' /\ Down' /\ OneObject' /\ Durable'
  BY <1>1 DEF Inv, Filed, Fresh, Down, OneObject, Durable
<1>4. MemoryIsNewest'
  BY <1>1 DEF Inv, MemoryIsNewest, Loadable, Content
<1> QED
  BY <1>2, <1>3, <1>4 DEF Inv

\* An import replaces the file; the session is forked if its object lacks something of it.
LEMMA ImportInv ==
    ASSUME Inv, NEW s \in Sids, NEW ms \in SUBSET Msgs, Import(s, ms)
    PROVE  Inv'
<1>1. /\ up /\ UNCHANGED <<up, owner, msgs, busy, mem, conn, turns, legacy, sent>>
      /\ known' = known \cup {s}
      /\ saved' = [saved EXCEPT ![s] = disk'[s].msgs]
      /\ forked' = IF mem[s] # NoObj /\ ~ (ms \subseteq msgs[mem[s]])
                   THEN forked \cup {s} ELSE forked
  BY DEF Import, objVars
<1>2. /\ faults' \in 0..MaxFaults
      /\ \/ disk' = [disk EXCEPT ![s] = WholeFile(ms, FALSE)]
         \/ disk' = [disk EXCEPT ![s] = TornFile]
  <2>1. faults \in 0..MaxFaults /\ MaxFaults \in Nat
    BY StoreAssumption DEF Inv, TypeOK
  <2>2. \/ /\ disk' = [disk EXCEPT ![s] = WholeFile(ms, FALSE)]
           /\ faults' = faults
        \/ /\ faults < MaxFaults
           /\ faults' = faults + 1
           /\ disk' = [disk EXCEPT ![s] = TornFile]
    BY DEF Import
  <2>3. faults' = faults \/ (faults < MaxFaults /\ faults' = faults + 1)
    BY <2>2, Zenon
  <2>4. faults' \in 0..MaxFaults
    BY <2>1, <2>3
  <2>5. \/ disk' = [disk EXCEPT ![s] = WholeFile(ms, FALSE)]
        \/ disk' = [disk EXCEPT ![s] = TornFile]
    BY <2>2, Zenon
  <2> QED
    BY <2>4, <2>5
<1>3. /\ WholeFile(ms, FALSE) \in File /\ TornFile \in File
      /\ WholeFile(ms, FALSE).msgs = ms /\ WholeFile(ms, FALSE).kind = "whole"
      /\ TornFile.msgs = {} /\ TornFile.kind = "torn"
  BY FileTypes DEF WholeFile, TornFile
<1>4. /\ disk' \in [Sids -> File]
      /\ disk'[s].msgs \in SUBSET Msgs
      /\ \A t \in Sids \ {s} : disk'[t] = disk[t] /\ saved'[t] = saved[t]
      /\ \/ disk'[s].kind = "whole" /\ disk'[s].msgs = ms /\ saved'[s] = ms
         \/ disk'[s].kind = "torn" /\ saved'[s] = {}
  <2>1. disk \in [Sids -> File] /\ saved \in [Sids -> SUBSET Msgs]
    BY DEF Inv, TypeOK
  <2>2. CASE disk' = [disk EXCEPT ![s] = WholeFile(ms, FALSE)]
    BY <2>1, <2>2, <1>1, <1>3
  <2>3. CASE disk' = [disk EXCEPT ![s] = TornFile]
    BY <2>1, <2>3, <1>1, <1>3
  <2> QED
    BY <2>2, <2>3, <1>2
<1>5. TypeOK'
  BY <1>1, <1>2, <1>4 DEF Inv, TypeOK
<1>6. Filed' /\ Down'
  BY <1>1 DEF Inv, Filed, Down
<1>7. Fresh'
  BY <1>1, <1>4 DEF Inv, Fresh
<1>8. OneObject'
  BY <1>1 DEF Inv, OneObject
<1>9. MemoryIsNewest'
  <2> SUFFICES ASSUME NEW t \in Sids \ forked', mem[t] # NoObj, Loadable(t)'
               PROVE  Content(t)'.msgs \subseteq msgs[mem[t]]
    BY <1>1 DEF MemoryIsNewest
  <2>1. CASE t = s
    BY <2>1, <1>1, <1>4 DEF Loadable, Content
  <2>2. CASE t # s
    <3>1. Loadable(t) /\ Content(t)' = Content(t) /\ t \notin forked
      BY <2>2, <1>1, <1>4 DEF Loadable, Content
    <3> QED
      BY <3>1 DEF Inv, MemoryIsNewest
  <2> QED
    BY <2>1, <2>2
<1>10. Durable'
  BY <1>1, <1>4 DEF Inv, Durable
<1> QED
  BY <1>5, <1>6, <1>7, <1>8, <1>9, <1>10 DEF Inv

\* All objects are gone, and the forked sessions with them.
LEMMA StopInv == ASSUME Inv, Stop PROVE Inv'
<1>1. /\ up /\ up' = FALSE
      /\ mem' = [s \in Sids |-> NoObj]
      /\ conn' = [c \in Holders |-> NoObj]
      /\ turns' = [c \in Holders |-> 0] /\ forked' = {}
      /\ saved' = [s \in Sids |-> IF s \in forked THEN {} ELSE saved[s]]
      /\ busy' = busy \ (Objs \cup {})
      /\ msgs' \in [Objs -> SUBSET Msgs]
      /\ UNCHANGED <<owner, disk, legacy, known, sent, faults>>
  BY DEF Stop, Collect, Inv, TypeOK
<1>2. TypeOK'
  <2>1. /\ mem' \in [Sids -> Objs \cup {NoObj}] /\ conn' \in [Holders -> Objs \cup {NoObj}]
        /\ turns' \in [Holders -> Nat] /\ \A c \in Holders : ~ turns'[c] > 0
    BY <1>1
  <2>2. saved' \in [Sids -> SUBSET Msgs] /\ busy' \subseteq Objs
    BY <1>1 DEF Inv, TypeOK
  <2> QED
    BY <1>1, <2>1, <2>2 DEF Inv, TypeOK
<1>3. Filed' /\ Down' /\ OneObject' /\ MemoryIsNewest'
  BY <1>1 DEF Filed, Down, OneObject, MemoryIsNewest
<1>4. Fresh' /\ Durable'
  BY <1>1 DEF Inv, Fresh, Durable
<1> QED
  BY <1>2, <1>3, <1>4 DEF Inv

\* Every session that can be read gets an object of its own with what its file has.
LEMMA StartInv == ASSUME Inv, Start PROVE Inv'
<1>1. PICK f \in [Sids -> Objs \cup {NoObj}] :
          /\ \A s \in Sids : f[s] # NoObj <=> Scanned(s)
          /\ \A s, t \in Sids : f[s] = f[t] => f[s] = NoObj \/ s = t
          /\ mem' = f
          /\ owner' = [o \in Objs |-> IF \E s \in Sids : f[s] = o
                                      THEN CHOOSE s \in Sids : f[s] = o ELSE owner[o]]
          /\ msgs' = [o \in Objs |-> IF \E s \in Sids : f[s] = o
                                     THEN Content(CHOOSE s \in Sids : f[s] = o).msgs ELSE msgs[o]]
          /\ busy' \subseteq Objs
  BY DEF Start
<1>2. /\ ~ up /\ up' = TRUE
      /\ UNCHANGED <<conn, turns, disk, legacy, known, sent, faults, saved, forked>>
  BY DEF Start, history
<1>3. /\ \A s \in Sids : mem[s] = NoObj
      /\ \A c \in Holders : conn[c] = NoObj
  BY <1>2 DEF Inv, Down
<1>4. \A s \in Sids : f[s] # NoObj =>
          f[s] \in Objs /\ owner'[f[s]] = s /\ msgs'[f[s]] = Content(s).msgs
  <2> SUFFICES ASSUME NEW s \in Sids, f[s] # NoObj
               PROVE  f[s] \in Objs /\ owner'[f[s]] = s /\ msgs'[f[s]] = Content(s).msgs
    OBVIOUS
  <2>1. f[s] \in Objs /\ \E t \in Sids : f[t] = f[s]
    BY <1>1
  <2>2. (CHOOSE t \in Sids : f[t] = f[s]) = s
    BY <1>1
  <2> QED
    BY <2>1, <2>2, <1>1
<1>5. TypeOK'
  <2>1. \A o \in Objs : (\E s \in Sids : f[s] = o) => (CHOOSE s \in Sids : f[s] = o) \in Sids
    OBVIOUS
  <2>2. owner' \in [Objs -> Sids]
    BY <1>1, <2>1 DEF Inv, TypeOK
  <2>3. \A s \in Sids : Content(s).msgs \in SUBSET Msgs
    BY FileTypes DEF Inv, File
  <2>4. msgs' \in [Objs -> SUBSET Msgs]
    BY <1>1, <2>1, <2>3 DEF Inv, TypeOK
  <2> QED
    BY <1>1, <1>2, <1>3, <2>2, <2>4 DEF Inv, TypeOK
<1>6. Filed' /\ Down' /\ OneObject'
  BY <1>1, <1>2, <1>3, <1>4 DEF Filed, Down, OneObject
<1>7. Fresh'
  <2>1. \A s \in Sids \ known : ~ Scanned(s)
    BY DEF Inv, Fresh, Scanned, NoFile, Listed, Layouts
  <2> QED
    BY <1>1, <1>2, <1>3, <2>1 DEF Inv, Fresh
<1>8. MemoryIsNewest'
  <2> SUFFICES ASSUME NEW s \in Sids, mem'[s] # NoObj
               PROVE  Content(s)'.msgs \subseteq msgs'[mem'[s]]
    BY DEF MemoryIsNewest
  <2>1. f[s] # NoObj /\ mem'[s] = f[s]
    BY <1>1
  <2>2. Content(s)' = Content(s)
    BY <1>2 DEF Content
  <2> QED
    BY <2>1, <2>2, <1>4
<1>9. Durable'
  BY <1>2 DEF Inv, Durable
<1> QED
  BY <1>5, <1>6, <1>7, <1>8, <1>9 DEF Inv

-----------------------------------------------------------------------------
\* Every step keeps the invariant.
LEMMA NextInv == Inv /\ [Next]_vars => Inv'
<1> SUFFICES ASSUME Inv, [Next]_vars PROVE Inv'
  OBVIOUS
<1>1. CASE \E s \in Sids : Create(s) \/ Resume(s) \/ UpdateConfig(s) \/ Delete(s) \/ DeleteHistory(s)
  BY <1>1, CreateInv, ResumeInv, UpdateConfigInv, DeleteInv, DeleteHistoryInv
<1>2. CASE \E c \in Holders, s \in Sids : Connect(c, s)
  BY <1>2, ConnectInv
<1>3. CASE \/ \E c \in Conns : Disconnect(c) \/ Fail(c) \/ EndTurn(c) \/ CutTurn(c)
           \/ \E p \in Pushes : EndPush(p)
  <2>1. Conns \subseteq Holders /\ Pushes \subseteq Holders
    BY DEF Holders
  <2> QED
    BY <1>3, <2>1, DisconnectInv, FailInv, EndTurnInv, CutTurnInv, EndPushInv
<1>4. CASE \E c \in Holders, m \in Msgs : StartTurn(c, m)
  BY <1>4, StartTurnInv
<1>5. CASE \E s \in Sids, ms \in SUBSET sent : Import(s, ms)
  <2>1. sent \subseteq Msgs
    BY DEF Inv, TypeOK
  <2> QED
    BY <1>5, <2>1, ImportInv
<1>6. CASE DeleteAllHistory \/ DeleteIndexEntry \/ Stop \/ Start
  BY <1>6, DeleteAllHistoryInv, DeleteIndexEntryInv, StopInv, StartInv
<1>7. CASE UNCHANGED vars
  <2>1. UNCHANGED <<up, owner, msgs, busy, mem, conn, turns, disk, legacy, known, sent, faults,
                    saved, forked>>
    BY <1>7 DEF vars, objVars, history
  <2>2. TypeOK' /\ Filed' /\ Fresh' /\ Down' /\ OneObject' /\ Durable'
    BY <2>1 DEF Inv, TypeOK, Filed, Fresh, Down, OneObject, Durable
  <2>3. MemoryIsNewest'
    BY <2>1 DEF Inv, MemoryIsNewest, Loadable, Content
  <2> QED
    BY <2>2, <2>3 DEF Inv
<1> QED
  BY <1>1, <1>2, <1>3, <1>4, <1>5, <1>6, <1>7 DEF Next

\* The inductive invariant holds of every behaviour of the store.
THEOREM StoreInvariant == Spec => []Inv
<1> QED
  BY InitInv, NextInv, PTL DEF Spec

\* Types are kept by every handler, whatever the numbers of sessions and connections.
THEOREM TypeCorrect == Spec => []TypeOK
<1>1. Inv => TypeOK
  BY DEF Inv
<1> QED
  BY <1>1, StoreInvariant, PTL

\* Connections of one session share the store's object unless the session was deleted
\* while in use.
THEOREM SharedObject == Spec => []OneObject
<1>1. Inv => OneObject
  BY DEF Inv
<1> QED
  BY <1>1, StoreInvariant, PTL

\* No save by the store's object can drop a message its file has.
THEOREM MemoryAhead == Spec => []MemoryIsNewest
<1>1. Inv => MemoryIsNewest
  BY DEF Inv
<1> QED
  BY <1>1, StoreInvariant, PTL

\* What was saved of a session stays in its file until the session is deleted or imported
\* over, or a write of its file fails half-way.
THEOREM SavedIsDurable == Spec => []Durable
<1>1. Inv => Durable
  BY DEF Inv
<1> QED
  BY <1>1, StoreInvariant, PTL

=============================================================================
