------------------------------- MODULE TurnLog -------------------------------
(***************************************************************************)
(* What a session promises to a user with one open client: its turns are   *)
(* serial.  At most one turn writes to the conversation at a time, a turn  *)
(* that was stopped (finished, aborted, cancelled by a disconnect) writes  *)
(* nothing more, and the conversation only grows.  Hence the messages of   *)
(* a turn are contiguous and a model never reads two requests entangled.   *)
(***************************************************************************)
EXTENDS Sequences

CONSTANTS
    Turns,
    NoTurn   \* not a turn

VARIABLES
    log,     \* the turn of every message of the conversation
    writer,  \* the turn that may write
    stopped  \* the turns that may never write again

vars == <<log, writer, stopped>>

Init ==
    /\ log = <<>>
    /\ writer = NoTurn
    /\ stopped = {}

Start(t) ==
    /\ writer = NoTurn
    /\ t \notin stopped
    /\ writer' = t
    /\ UNCHANGED <<log, stopped>>

Write(t) ==
    /\ writer = t
    /\ log' = Append(log, t)
    /\ UNCHANGED <<writer, stopped>>

Stop(t) ==
    /\ writer = t
    /\ writer' = NoTurn
    /\ stopped' = stopped \cup {t}
    /\ UNCHANGED log

Next == \E t \in Turns : Start(t) \/ Write(t) \/ Stop(t)

Spec == Init /\ [][Next]_vars
=============================================================================
