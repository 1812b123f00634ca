--------------------------- MODULE MCSessionStore ---------------------------
(* A few objects and messages; objects, connections and sessions are alike. *)
EXTENDS SessionStore, TLC

CONSTANTS o1, o2, o3, c1, c2, p1, s1, s2

MCObjs == {o1, o2, o3}
MCConns == {c1, c2}
Alike == Permutations(MCConns) \cup Permutations(MCObjs)

=============================================================================
