-------------------------- MODULE SignalingServer --------------------------
(***************************************************************************)
(* The room behind the plain WebSocket host (apps/signaling/src/server.ts):*)
(* connections that vanish without a close, sends that fail at once or     *)
(* later, the sweep and the heartbeat.                                     *)
(*                                                                         *)
(* A socket is "open"; "dead" when its client is gone and nobody noticed;  *)
(* "ending" between the start of a close and its close event; "closed".    *)
(* The connection of socket s opens the s-th session, so s is also its id. *)
(***************************************************************************)
EXTENDS RoomCore

CONSTANTS
    MAX_SOCKETS, \* bound on the connections
    MaxNow       \* bound on the clock

VARIABLES
    core,          \* the RoomCore
    sock,          \* socket -> its state
    awaitingPong,  \* sockets that have not answered the last ping
    now

vars == <<core, sock, awaitingPong, now>>

Clients == {s \in Sockets : sock[s] \in {"open", "dead", "ending"}}

\* A send throws when the socket is not open, or its queue is full.
Failures == {failing \in SUBSET Clients : \A s \in Clients : sock[s] = "ending" => s \in failing}

\* The core after an operation, and the sockets it closed.
Apply(c, st) ==
    /\ sock' = [s \in Sockets |->
                   IF s \in c.closing /\ st[s] \in {"open", "dead"} THEN "ending" ELSE st[s]]
    /\ core' = [c EXCEPT !.closing = {},
                         !.told = [s \in Sockets |-> IF sock'[s] = "open" THEN @[s] ELSE {}]]

Init ==
    /\ core = EmptyCore /\ awaitingPong = {} /\ now = 1
    /\ sock = [s \in Sockets |-> "new"]

\* connection: when open throws the socket is closed and has no handlers.
Connect(s) ==
    /\ sock[s] = "new" /\ \A t \in Sockets : t < s => sock[t] # "new"
    /\ Cardinality(Clients) < MAX_SOCKETS
    /\ \E failing \in {{}, {s}} :
          Apply(open(core, s, now, failing),
                [sock EXCEPT ![s] = IF failing = {} THEN "open" ELSE "ending"])
    /\ UNCHANGED <<awaitingPong, now>>

Message(s) ==
    /\ sock[s] \in {"open", "ending"}
    /\ \E frame \in Frames, failing \in Failures :
          Apply(receive(core, s, frame, now, failing), sock)
    /\ UNCHANGED <<awaitingPong, now>>

\* A frame that is not text: the socket is closed first.
Binary(s) ==
    /\ sock[s] = "open"
    /\ \E failing \in Failures :
          Apply(disconnect(core, s, failing \cup {s}), [sock EXCEPT ![s] = "ending"])
    /\ UNCHANGED <<awaitingPong, now>>

\* The close event; also an error, which a close event follows.
CloseEvent(s) ==
    /\ sock[s] = "ending"
    /\ \E failing \in Failures :
          Apply(disconnect(core, s, failing), [sock EXCEPT ![s] = "closed"])
    /\ UNCHANGED <<awaitingPong, now>>

\* A send that was accepted fails later: sendServerFrame's callback.
SendFailed(s) ==
    /\ sock[s] \in {"open", "dead"}
    /\ \E failing \in Failures :
          Apply(disconnect(core, s, failing), [sock EXCEPT ![s] = "ending"])
    /\ UNCHANGED <<awaitingPong, now>>

Sweep ==
    /\ Apply(sweep(core, now), sock)
    /\ UNCHANGED <<awaitingPong, now>>

\* Fault: a socket without a pong is pinged again.
pingOrTerminateNever(broken) ==
    /\ sock' = [s \in Sockets |-> IF s \in broken /\ sock[s] \in {"open", "dead"}
                                  THEN "ending" ELSE sock[s]]
    /\ awaitingPong' = awaitingPong \cup {s \in Sockets : sock[s] \in {"open", "dead"}}

\* A socket without a pong is terminated; the others are pinged, which ends
\* the ones in `broken`.
pingOrTerminate(broken) ==
    LET ended == (Clients \cap awaitingPong) \cup broken IN
    /\ sock' = [s \in Sockets |-> IF s \in ended /\ sock[s] \in {"open", "dead"}
                                  THEN "ending" ELSE sock[s]]
    /\ awaitingPong' = awaitingPong \cup {s \in Sockets : sock[s] \in {"open", "dead"}}

Heartbeat ==
    /\ \E broken \in SUBSET {s \in Clients : sock[s] = "dead"} : pingOrTerminate(broken)
    /\ UNCHANGED <<core, now>>

Pong(s) ==
    /\ sock[s] = "open" /\ s \in awaitingPong
    /\ awaitingPong' = awaitingPong \ {s}
    /\ UNCHANGED <<core, sock, now>>

\* A client closes its connection, or is gone without a word.
Leave(s) ==
    /\ sock[s] = "open"
    /\ \E state \in {"ending", "dead"} : sock' = [sock EXCEPT ![s] = state]
    /\ UNCHANGED <<core, awaitingPong, now>>

Tick ==
    /\ now < MaxNow /\ now' = now + 1
    /\ UNCHANGED <<core, sock, awaitingPong>>

Next ==
    \/ \E s \in Sockets :
          \/ Connect(s) \/ Message(s) \/ Binary(s) \/ CloseEvent(s) \/ SendFailed(s)
          \/ Pong(s) \/ Leave(s)
    \/ Sweep \/ Heartbeat \/ Tick

Spec == Init /\ [][Next]_vars

-----------------------------------------------------------------------------

\* One session per member and socket, and every connected member was told the
\* roster as it is, whatever sends fail in the middle of an announcement.
RoomIsConsistent ==
    /\ RosterIsSound(core)
    /\ \A id \in Members(core) :
          sock[SocketOf(core, id)] = "open" => core.told[SocketOf(core, id)] = Roster(core)

\* A connection that is up has a session, and a session ends with its socket:
\* the late close of a replaced socket ends nobody else's session.
SocketsAreSessions ==
    LET held == {SocketOf(core, id) : id \in Ids(core)} IN
    /\ held \subseteq Clients
    /\ {s \in Sockets : sock[s] \in {"open", "dead"}} \subseteq held

-----------------------------------------------------------------------------
(***************************************************************************)
(* The heartbeat is a timer, and the close event of a socket that was      *)
(* terminated is local: both happen in the end.                            *)
(***************************************************************************)

Alive == {s \in Sockets : sock[s] \in {"open", "dead"}}

LiveSpec ==
    /\ Spec
    /\ []<>(Alive = {}) \/ []<><<Heartbeat>>_vars
    /\ \A s \in Sockets : []<>(sock[s] # "ending")

\* A client that is gone without a word loses its place in the room.
DeadPeerLeaves == \A s \in Sockets : sock[s] = "dead" ~> s \notin Ids(core)
=============================================================================
