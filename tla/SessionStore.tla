---------------------------- MODULE SessionStore ----------------------------
(***************************************************************************)
(* Sessions in memory and on disk (services/session_store.py,              *)
(* services/workspace.py, services/history_service.py and the handlers     *)
(* that call them).                                                        *)
(*                                                                         *)
(* A session is a file, and an object once something asked for it.  The    *)
(* store keeps one object per session id; a WebSocket connection keeps the *)
(* object it was given until it closes, and a turn that the relay or the   *)
(* page of skills pushes keeps it until the turn ends.  Turns add messages *)
(* to the object and write all of it over the file when they end.  Two     *)
(* other APIs, the history and the archive, read, delete and import files  *)
(* without the store knowing.                                              *)
(*                                                                         *)
(* Every operation is a handler without an await, so it is one step; only  *)
(* the write itself may stop half-way, because it empties the file first.  *)
(***************************************************************************)
EXTENDS Integers, FiniteSets

CONSTANTS
    Sids,       \* session ids
    Conns,      \* WebSocket connections
    Pushes,     \* pushed turns
    Objs,       \* identities of SessionData objects
    NoObj,      \* None
    Msgs,       \* messages
    OldMsgs,    \* those in the file of a session saved by an earlier version
    MaxFaults   \* bound on the writes that fail

ASSUME StoreAssumption ==
    /\ Sids # {}
    /\ NoObj \notin Objs /\ Conns \cap Pushes = {}
    /\ OldMsgs \subseteq Msgs
    /\ MaxFaults \in Nat

VARIABLES
    up,         \* the server runs
    owner,      \* each object's session_id
    msgs,       \* each object's messages
    busy,       \* the objects whose status is BUSY
    mem,        \* SessionStore._sessions
    conn,       \* the object each connection and each pushed turn works on
    turns,      \* the number of turns running for each
    disk,       \* the canonical files
    legacy,     \* where each session's file of an earlier version is, if it has one
    known,      \* the session ids given out
    sent,       \* the messages sent
    faults,     \* the writes that failed so far
    saved,      \* history: what was written of each session since it was last deleted
    forked      \* history: sessions deleted or imported over behind an object in use

objVars == <<owner, msgs, busy>>
history == <<saved, forked>>
vars == <<up, objVars, mem, conn, turns, disk, legacy, known, sent, faults, history>>

-----------------------------------------------------------------------------
\* Who may hold an object.
Holders == Conns \cup Pushes

\* A conversation.json: absent, cut short by a failed write, or readable.
File == [kind : {"none", "torn", "whole"}, msgs : SUBSET Msgs, busy : BOOLEAN]

NoFile == [kind |-> "none", msgs |-> {}, busy |-> FALSE]
TornFile == [kind |-> "torn", msgs |-> {}, busy |-> FALSE]
WholeFile(ms, b) == [kind |-> "whole", msgs |-> ms, busy |-> b]

\* chat/id.json, chat/sessions/id.json, .tenderclaw/state/id.json,
\* workspace_tendermachine/id/conversation.json
Layouts == {"flat", "nested", "state", "workspace"}

\* The layouts iter_conversation_paths goes through: all but one.
Listed == Layouts \ {"nested"}

\* What get finds on disk: the first of find_conversation_path's candidates that exists,
\* and that one must be readable.
Loadable(s) == disk[s].kind = "whole" \/ (disk[s].kind = "none" /\ legacy[s] # "none")

\* What load_all_from_disk finds: the first candidate that can be read.
Scanned(s) == disk[s].kind = "whole" \/ legacy[s] \in Listed

Content(s) == IF disk[s].kind = "whole" THEN disk[s] ELSE WholeFile(OldMsgs, FALSE)

\* The object a session has once get returned it.
Current(s) == IF mem[s] = NoObj
              THEN Content(s)
              ELSE WholeFile(msgs[mem[s]], mem[s] \in busy)

\* The objects the store or a holder refers to; the others are gone, and their
\* identities may be used again.
Kept == {mem[s] : s \in Sids}
Held(C) == {conn[c] : c \in C}
Live == Kept \cup Held(Holders)

InUse(s) == \E c \in Holders : conn[c] # NoObj /\ owner[conn[c]] = s

-----------------------------------------------------------------------------
\* No session is open yet; each has at most one file of an earlier version.
Init ==
    /\ up = TRUE
    /\ owner \in [Objs -> {CHOOSE s \in Sids : TRUE}]
    /\ msgs = [o \in Objs |-> {}]
    /\ busy = {}
    /\ mem = [s \in Sids |-> NoObj]
    /\ conn = [c \in Holders |-> NoObj]
    /\ turns = [c \in Holders |-> 0]
    /\ disk = [s \in Sids |-> NoFile]
    /\ legacy \in [Sids -> {"none"} \cup Layouts]
    /\ known = {s \in Sids : legacy[s] # "none"}
    /\ sent = OldMsgs
    /\ faults = 0
    /\ saved = [s \in Sids |-> {}]
    /\ forked = {}

\* Object o becomes session s with the content of file f.
Fill(o, s, f) ==
    /\ owner' = [owner EXCEPT ![o] = s]
    /\ msgs' = [msgs EXCEPT ![o] = f.msgs]
    /\ busy' = IF f.busy THEN busy \cup {o} ELSE busy \ {o}

\* The objects in O lose their last reference; those in idle become idle.
Collect(O, idle) ==
    /\ msgs' = [o \in Objs |-> IF o \in O THEN {} ELSE msgs[o]]
    /\ busy' = busy \ (O \cup idle)
    /\ UNCHANGED owner

\* Mutant of Get: the file is read even if the session is in memory.
GetFromDisk(s, o) ==
    /\ Loadable(s)
    /\ o \in Objs \ Live
    /\ Fill(o, s, Content(s))
    /\ mem' = [mem EXCEPT ![s] = o]

\* Mutant of Get: the file of an earlier version is preferred.
GetOldest(s, o) ==
    \/ /\ mem[s] = o
       /\ UNCHANGED <<mem, objVars>>
    \/ /\ mem[s] = NoObj
       /\ Loadable(s)
       /\ o \notin Live
       /\ Fill(o, s, IF legacy[s] # "none" THEN WholeFile(OldMsgs, FALSE) ELSE Content(s))
       /\ mem' = [mem EXCEPT ![s] = o]

\* get: session s is object o, from memory or loaded now.
Get(s, o) ==
    \/ /\ mem[s] = o
       /\ UNCHANGED <<mem, objVars>>
    \/ /\ mem[s] = NoObj
       /\ Loadable(s)
       /\ o \notin Live
       /\ Fill(o, s, Content(s))
       /\ mem' = [mem EXCEPT ![s] = o]

\* _persist_session, and the archiver that writes the same file again: a write may fail
\* before or after it emptied the file.  Nobody is told.
Persist(s, f) ==
    \/ /\ disk' = [disk EXCEPT ![s] = f]
       /\ saved' = [saved EXCEPT ![s] = @ \cup f.msgs]
       /\ UNCHANGED faults
    \/ /\ faults < MaxFaults
       /\ faults' = faults + 1
       /\ UNCHANGED <<disk, saved>>
    \/ /\ faults < MaxFaults
       /\ faults' = faults + 1
       /\ disk' = [disk EXCEPT ![s] = TornFile]
       /\ saved' = [saved EXCEPT ![s] = {}]

-----------------------------------------------------------------------------
\* POST /api/sessions
Create(s) ==
    /\ up
    /\ s \notin known
    /\ known' = known \cup {s}
    /\ \E o \in Objs :
          /\ o \notin Live
          /\ Fill(o, s, NoFile)
          /\ mem' = [mem EXCEPT ![s] = o]
    /\ Persist(s, WholeFile({}, FALSE))
    /\ UNCHANGED <<up, conn, turns, legacy, sent, forked>>

\* GET /api/sessions/id and every other handler that only asks for the session
Resume(s) ==
    /\ up
    /\ \E o \in Objs : Get(s, o)
    /\ UNCHANGED <<up, conn, turns, disk, legacy, known, sent, faults, history>>

\* A WebSocket connects, or POST /api/relay or the page of skills asks for a turn.
Connect(c, s) ==
    /\ up
    /\ conn[c] = NoObj
    /\ \E o \in Objs :
          /\ Get(s, o)
          /\ conn' = [conn EXCEPT ![c] = o]
    /\ UNCHANGED <<up, turns, disk, legacy, known, sent, faults, history>>

\* A WebSocket closes: its turn was cancelled and has ended, and the session is made idle
\* whoever else works on it.
Disconnect(c) ==
    /\ conn[c] # NoObj
    /\ turns[c] = 0
    /\ conn' = [conn EXCEPT ![c] = NoObj]
    /\ Collect({conn[c]} \ (Kept \cup Held(Holders \ {c})), {conn[c]})
    /\ UNCHANGED <<up, mem, turns, disk, legacy, known, sent, faults, history>>

\* A connection fails: the session is made idle at once, and its cancelled turn ends later.
Fail(c) ==
    /\ turns[c] > 0
    /\ busy' = busy \ {conn[c]}
    /\ UNCHANGED <<up, owner, msgs, mem, conn, turns, disk, legacy, known, sent, faults, history>>

\* A message starts a turn: BUSY and the message are in the object only.  An earlier turn
\* may still run if somebody made the session idle; a pushed turn does not ask.
StartTurn(c, m) ==
    /\ conn[c] # NoObj
    /\ IF c \in Pushes THEN turns[c] = 0 ELSE conn[c] \notin busy
    /\ m \notin sent
    /\ sent' = sent \cup {m}
    /\ turns' = [turns EXCEPT ![c] = @ + 1]
    /\ busy' = busy \cup {conn[c]}
    /\ msgs' = [msgs EXCEPT ![conn[c]] = @ \cup {m}]
    /\ UNCHANGED <<up, owner, mem, conn, disk, legacy, known, faults, history>>

\* A turn's finally: IDLE, then the whole object is written.
EndTurn(c) ==
    /\ turns[c] > 0
    /\ turns' = [turns EXCEPT ![c] = @ - 1]
    /\ busy' = busy \ {conn[c]}
    /\ Persist(owner[conn[c]], WholeFile(msgs[conn[c]], FALSE))
    /\ UNCHANGED <<up, owner, msgs, mem, conn, legacy, known, sent, forked>>

\* A turn that is cancelled before its try: nothing is written.  What cancelled it makes the
\* session idle.
CutTurn(c) ==
    /\ turns[c] > 0
    /\ turns' = [turns EXCEPT ![c] = @ - 1]
    /\ busy' = busy \ {conn[c]}
    /\ UNCHANGED <<up, owner, msgs, mem, conn, disk, legacy, known, sent, faults, history>>

\* A pushed turn ends, or does not begin for want of a key: nobody asks for its object any more.
\* It may end without a write, as CutTurn.
EndPush(p) ==
    /\ conn[p] # NoObj
    /\ turns' = [turns EXCEPT ![p] = 0]
    /\ conn' = [conn EXCEPT ![p] = NoObj]
    /\ \/ turns[p] > 0 /\ Persist(owner[conn[p]], WholeFile(msgs[conn[p]], FALSE))
       \/ UNCHANGED <<disk, faults, saved>>
    /\ Collect({conn[p]} \ (Kept \cup Held(Holders \ {p})), {conn[p]})
    /\ UNCHANGED <<up, mem, legacy, known, sent, forked>>

\* Mutant of UpdateConfig: the session is written without its messages.
UpdateConfigOnly(s) ==
    /\ up
    /\ \E o \in Objs : Get(s, o)
    /\ Persist(s, WholeFile({}, FALSE))
    /\ UNCHANGED <<up, conn, turns, legacy, known, sent, forked>>

\* POST /api/config with a session id: the session is written as it is, BUSY included.
UpdateConfig(s) ==
    /\ up
    /\ \E o \in Objs : Get(s, o)
    /\ Persist(s, Current(s))
    /\ UNCHANGED <<up, conn, turns, legacy, known, sent, forked>>

\* delete_session_artifacts for the sessions in S
RemoveFiles(S) ==
    /\ disk' = [s \in Sids |-> IF s \in S THEN NoFile ELSE disk[s]]
    /\ saved' = [s \in Sids |-> IF s \in S THEN {} ELSE saved[s]]

\* DELETE /api/sessions/id: the object is dropped, and the connections keep it.
Delete(s) ==
    /\ up
    /\ mem[s] # NoObj \/ Loadable(s)
    /\ mem' = [mem EXCEPT ![s] = NoObj]
    /\ Collect({mem[s]} \ Held(Holders), {})
    /\ RemoveFiles({s})
    /\ legacy' = [legacy EXCEPT ![s] = "none"]
    /\ forked' = IF InUse(s) THEN forked \cup {s} ELSE forked
    /\ UNCHANGED <<up, conn, turns, known, sent, faults>>

\* DELETE /api/history/id and /api/archive/sessions/id: the store is not told.
DeleteHistory(s) ==
    /\ up
    /\ disk[s].kind # "none" \/ legacy[s] # "none"
    /\ RemoveFiles({s})
    /\ legacy' = [legacy EXCEPT ![s] = "none"]
    /\ UNCHANGED <<up, objVars, mem, conn, turns, known, sent, faults, forked>>

\* DELETE /api/history: every session that can be listed goes.  The index file
\* chat/sessions.json is listed as a session "sessions", whose directory holds the
\* files of layout "nested".
DeleteAllHistory ==
    LET listed == {s \in Sids : Scanned(s)} IN
    /\ up
    /\ RemoveFiles(listed)
    /\ legacy' = [s \in Sids |->
                    IF s \in listed \/ legacy[s] = "nested" THEN "none" ELSE legacy[s]]
    /\ UNCHANGED <<up, objVars, mem, conn, turns, known, sent, faults, forked>>

\* The entry "sessions" alone is deleted.
DeleteIndexEntry ==
    /\ up
    /\ \E s \in Sids : legacy[s] = "nested"
    /\ legacy' = [s \in Sids |-> IF legacy[s] = "nested" THEN "none" ELSE legacy[s]]
    /\ UNCHANGED <<up, objVars, mem, conn, turns, disk, known, sent, faults, history>>

\* POST /api/history/import: the file is replaced, an object in memory is not.
Import(s, ms) ==
    /\ up
    /\ \/ /\ disk' = [disk EXCEPT ![s] = WholeFile(ms, FALSE)]
          /\ UNCHANGED faults
       \/ /\ faults < MaxFaults
          /\ faults' = faults + 1
          /\ disk' = [disk EXCEPT ![s] = TornFile]
    /\ saved' = [saved EXCEPT ![s] = disk'[s].msgs]
    /\ known' = known \cup {s}
    /\ forked' = IF mem[s] # NoObj /\ ~ (ms \subseteq msgs[mem[s]])
                 THEN forked \cup {s} ELSE forked
    /\ UNCHANGED <<up, objVars, mem, conn, turns, legacy, sent>>

\* The server stops (close_all writes nothing), or it crashes.
Stop ==
    /\ up
    /\ up' = FALSE
    /\ mem' = [s \in Sids |-> NoObj]
    /\ conn' = [c \in Holders |-> NoObj]
    /\ turns' = [c \in Holders |-> 0]
    /\ Collect(Objs, {})
    /\ forked' = {}
    /\ saved' = [s \in Sids |-> IF s \in forked THEN {} ELSE saved[s]]
    /\ UNCHANGED <<disk, legacy, known, sent, faults>>

\* The server starts: load_all_from_disk.
Start ==
    /\ ~ up
    /\ up' = TRUE
    /\ \E loaded \in [Sids -> Objs \cup {NoObj}] :
          LET HasObj(o) == \E s \in Sids : loaded[s] = o
              SidOf(o) == CHOOSE s \in Sids : loaded[s] = o IN
          /\ \A s \in Sids : loaded[s] # NoObj <=> Scanned(s)
          /\ \A s, t \in Sids : loaded[s] = loaded[t] => loaded[s] = NoObj \/ s = t
          /\ mem' = loaded
          /\ owner' = [o \in Objs |-> IF HasObj(o) THEN SidOf(o) ELSE owner[o]]
          /\ msgs' = [o \in Objs |-> IF HasObj(o) THEN Content(SidOf(o)).msgs ELSE msgs[o]]
          /\ busy' = {o \in Objs : HasObj(o) /\ Content(SidOf(o)).busy}
    /\ UNCHANGED <<conn, turns, disk, legacy, known, sent, faults, history>>

Next ==
    \/ \E s \in Sids : Create(s) \/ Resume(s) \/ UpdateConfig(s) \/ Delete(s) \/ DeleteHistory(s)
    \/ \E c \in Holders, s \in Sids : Connect(c, s)
    \/ \E c \in Conns : Disconnect(c) \/ Fail(c) \/ EndTurn(c) \/ CutTurn(c)
    \/ \E p \in Pushes : EndPush(p)
    \/ \E c \in Holders, m \in Msgs : StartTurn(c, m)
    \/ \E s \in Sids, ms \in SUBSET sent : Import(s, ms)
    \/ DeleteAllHistory \/ DeleteIndexEntry \/ Stop \/ Start

Spec == Init /\ [][Next]_vars

-----------------------------------------------------------------------------
\* Types, and that turns belong to holders of a session.
TypeOK ==
    /\ up \in BOOLEAN
    /\ owner \in [Objs -> Sids]
    /\ msgs \in [Objs -> SUBSET Msgs]
    /\ busy \subseteq Objs
    /\ mem \in [Sids -> Objs \cup {NoObj}]
    /\ conn \in [Holders -> Objs \cup {NoObj}]
    /\ turns \in [Holders -> Nat]
    /\ \A c \in Holders : turns[c] > 0 => conn[c] # NoObj
    /\ disk \in [Sids -> File]
    /\ legacy \in [Sids -> {"none"} \cup Layouts]
    /\ known \subseteq Sids
    /\ sent \subseteq Msgs
    /\ faults \in 0..MaxFaults
    /\ saved \in [Sids -> SUBSET Msgs]
    /\ forked \subseteq Sids

\* Everyone who works on a session works on the one object the store keeps for it, which
\* is what makes its BUSY status a lock; only DELETE /api/sessions on a session in use
\* breaks this, because its holders keep the object.
OneObject ==
    \A c \in Holders :
        conn[c] # NoObj /\ owner[conn[c]] \notin forked => mem[owner[conn[c]]] = conn[c]

\* Since a save replaces the whole file, the object must already have every message the
\* file has.  An import over an object that lacks its messages breaks this, and so does
\* the deletion of a session in use.
MemoryIsNewest ==
    \A s \in Sids \ forked :
        mem[s] # NoObj /\ Loadable(s) => Content(s).msgs \subseteq msgs[mem[s]]

\* Whatever was written of a session since it was last deleted can be loaded again:
\* later saves, restarts, failing saves of other sessions and deletions of other sessions
\* included.  Only a write that fails half-way loses it.
Durable ==
    \A s \in Sids \ forked :
        saved[s] # {} => disk[s].kind = "whole" /\ saved[s] \subseteq disk[s].msgs

=============================================================================
