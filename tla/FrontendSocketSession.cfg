SPECIFICATION Spec
CONSTANTS
    Sockets = {k1, k2}
    NoSocket = NoSocket
    MaxSessions = 2
    MAX_RECONNECT_ATTEMPTS = 2
    MaxInputs = 2
CHECK_DEADLOCK FALSE
INVARIANT
    SocketServesView
