\* One session, two connections and a pushed turn, one old message and two new ones, one failing write.
SPECIFICATION Spec
CONSTANTS
    o1 = o1
    o2 = o2
    o3 = o3
    c1 = c1
    c2 = c2
    p1 = p1
    s1 = s1
    s2 = s2
    NoObj = NoObj
    Sids = {s1}
    Conns <- MCConns
    Pushes = {p1}
    Objs <- MCObjs
    Msgs = {0, 1, 2}
    OldMsgs = {0}
    MaxFaults = 1
SYMMETRY Alike
INVARIANTS OneObject MemoryIsNewest Durable
