\* Three keys for two places, three connections; behind the Durable Object the
\* clients fall silent after moment 2.
SPECIFICATION HostSpec
CONSTANTS
    p1 = p1
    p2 = p2
    p3 = p3
    None = None
    Peers = {p1, p2, p3}
    Sockets = {1, 2, 3}
    MAX_ROOM_PEERS = 2
    MAX_ROOM_SOCKETS = 3
    JOIN_TIMEOUT = 1
    IDLE = 2
    MaxNow = 4
    Busy = 2
    ServerNow = 2
    ServerSockets = 2
INVARIANTS RoomIsConsistent SleepIsExact SocketsAreSessions
PROPERTIES SilenceIsReleased DeadPeerLeaves
CHECK_DEADLOCK FALSE
