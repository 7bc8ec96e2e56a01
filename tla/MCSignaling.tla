---------------------------- MODULE MCSignaling ----------------------------
(***************************************************************************)
(* The signaling room behind either of its hosts, for TLC and for the      *)
(* proofs: the initial state says which host a deployment runs.  Each host *)
(* keeps to its own specification; the variables of the other stand still. *)
(***************************************************************************)
EXTENDS CloudflareRoom

CONSTANTS
    p1, p2, p3,         \* the keys
    ServerNow,          \* bound of the clock behind the plain server
    ServerSockets       \* bound on the connections there

VARIABLES host, awaitingPong

Server == INSTANCE SignalingServer WITH
    MAX_SOCKETS <- ServerSockets, IDLE <- JOIN_TIMEOUT, MaxNow <- ServerNow

hostVars == <<host, core, awake, sock, attached, stored, alarm, awaitingPong, now>>

HostInit ==
    /\ host \in {"cloud", "server"}
    /\ Init /\ awaitingPong = {}

CloudStep == host = "cloud" /\ LiveNext /\ UNCHANGED <<host, awaitingPong>>
ServerStep == host = "server" /\ Server!Next /\ UNCHANGED <<host, awake, attached, stored, alarm>>

HostNext == CloudStep \/ ServerStep

\* The fairness of the two hosts' LiveSpec.
HostSpec ==
    /\ HostInit /\ [][HostNext]_hostVars
    /\ <>(host = "server" \/ now = MaxNow)
    /\ []<>(host = "server" \/ awake \/ ~Due)
    /\ []<>(host = "cloud" /\ awake /\ Overdue) => []<><<Alarm>>_hostVars
    /\ []<>(host = "cloud" \/ Server!Alive = {}) \/ []<><<Server!Heartbeat>>_hostVars
    /\ \A s \in Sockets : []<>(host = "cloud" \/ sock[s] # "ending")

-----------------------------------------------------------------------------

\* Behind either host, every connected member was told the roster as it is,
\* whatever sends fail, sessions are replaced or memory is lost.
RoomIsConsistent ==
    IF host = "cloud" THEN ObjectIsConsistent ELSE Server!RoomIsConsistent

\* Behind either host, no late close ends a session that is not its own.
SocketsAreSessions ==
    IF host = "cloud" THEN ObjectOwnsSessions ELSE Server!SocketsAreSessions

\* What the Durable Object wakes to is what it left.
SleepIsExact == host = "cloud" => ObjectSleepsExactly

\* A silent connection of the Durable Object is released.
SilenceIsReleased ==
    \A s \in Sockets : host = "cloud" /\ sock[s] = "open" ~> sock[s] # "open"

\* A client of the plain server that is gone without a word leaves the room.
DeadPeerLeaves ==
    \A s \in Sockets : host = "server" /\ sock[s] = "dead" ~> s \notin Ids(core)
=============================================================================
