------------------------------ MODULE RoomCore ------------------------------
(***************************************************************************)
(* The signaling room (apps/signaling/src/room-core.ts): sessions, the     *)
(* roster, and what is announced to whom.  RoomCore decides and its host   *)
(* owns the sockets, so this module has the decisions, as functions of a   *)
(* core record c, and the modules SignalingServer and CloudflareRoom have  *)
(* the hosts' steps.                                                       *)
(*                                                                         *)
(* One room: rooms share nothing but the counter of session ids.           *)
(*   c.sessions   session id -> its socket, opening time and peer          *)
(*   c.order      the sessions of room.peers in insertion order            *)
(*   c.room       the room is in the map of rooms (it may be empty)        *)
(*   c.told       socket -> the roster it was told last                    *)
(*   c.closing    sockets closed by the current operation                  *)
(*                                                                         *)
(* `failing` is the set of the sockets whose send throws during the        *)
(* operation.  The contents of frames, their size and their rate matter    *)
(* only as far as a frame is accepted or not.                              *)
(***************************************************************************)
EXTENDS Integers, FiniteSets, SequencesExt

CONSTANTS
    Peers,          \* keys that may join
    Sockets,        \* connections, numbered as they are accepted
    MAX_ROOM_PEERS, \* bound on the roster
    JOIN_TIMEOUT,   \* ROOM_JOIN_TIMEOUT_MS
    IDLE,           \* ROOM_IDLE_MS
    None            \* a session that has not joined

ASSUME RoomAssumption ==
    /\ Sockets \subseteq Nat \ {0} /\ \A s \in Sockets : 1..s \subseteq Sockets
    /\ MAX_ROOM_PEERS \in Nat \ {0} /\ JOIN_TIMEOUT \in Nat \ {0} /\ IDLE \in Nat \ {0}
    /\ None \notin Peers

EmptyCore ==
    [sessions |-> <<>>, order |-> <<>>, room |-> FALSE, lastActivity |-> 0, nextId |-> 0,
     told |-> [s \in Sockets |-> {}], closing |-> {}]

Ids(c) == DOMAIN c.sessions
Members(c) == ToSet(c.order)
Roster(c) == {c.sessions[id].peer : id \in Members(c)}
SocketOf(c, id) == c.sessions[id].socket

AddSession(c, id, session) ==
    [c EXCEPT !.sessions = [i \in Ids(c) \cup {id} |-> IF i = id THEN session ELSE @[i]]]

\* The session goes, from the roster too.
Forget(c, id) ==
    [c EXCEPT !.sessions = Restrict(@, Ids(c) \ {id}), !.order = RemoveFirst(@, id)]

\* An empty room goes with its last session.
Drop(c, id) ==
    LET left == Forget(c, id) IN
    [left EXCEPT !.room = @ /\ ~(id \in Members(c) /\ left.order = <<>>)]

Close(c, socket) == [c EXCEPT !.closing = @ \cup {socket}]

-----------------------------------------------------------------------------
(***************************************************************************)
(* Announcements.                                                          *)
(***************************************************************************)

\* One loop of announce: it ends at the first member whose send fails, whom
\* reject removes; the removal announces again.
pass(c, failing) ==
    LET bad == {i \in DOMAIN c.order : SocketOf(c, c.order[i]) \in failing}
        before == IF bad = {} THEN Len(c.order) ELSE Min(bad) - 1
        reached == {SocketOf(c, c.order[i]) : i \in 1..before}
        roster == Roster(c)
        sent == [c EXCEPT !.told = [s \in Sockets |-> IF s \in reached THEN roster ELSE @[s]]]
        id == c.order[before + 1]
    IN  IF bad = {} THEN sent ELSE Close(Drop(sent, id), SocketOf(c, id))

\* Fault: the loop goes on with its obsolete roster after a failed send.
announceOn(c, failing) ==
    LET nested[n \in 0..Len(c.order)] ==
            pass(IF n = 0 THEN c ELSE nested[n - 1], failing)
        bad == {i \in DOMAIN c.order : SocketOf(c, c.order[i]) \in failing}
        later == {SocketOf(c, c.order[i]) : i \in {j \in DOMAIN c.order : \E k \in bad : k < j}}
    IN  [nested[Len(c.order)] EXCEPT
            !.told = [s \in Sockets |-> IF s \in later \ failing THEN Roster(c) ELSE @[s]]]

\* announce and the announcements nested in it: each but the last removes one
\* member.
announce(c, failing) ==
    LET nested[n \in 0..Len(c.order)] ==
            pass(IF n = 0 THEN c ELSE nested[n - 1], failing)
    IN  nested[Len(c.order)]

\* A session that is not the current one of its peer leaves no trace.
disconnect(c, id, failing) ==
    CASE id \notin Ids(c) -> c
      [] id \in Ids(c) \ Members(c) -> Drop(c, id)
      [] OTHER -> announce(Drop(c, id), failing)

reject(c, id, failing) == Close(disconnect(c, id, failing), SocketOf(c, id))

-----------------------------------------------------------------------------
(***************************************************************************)
(* Operations.                                                             *)
(***************************************************************************)

\* open: the challenge may fail to leave, then the session is forgotten.
open(c, socket, now, failing) ==
    LET id == c.nextId + 1
        next == [c EXCEPT !.nextId = id]
    IN  IF socket \in failing THEN next
        ELSE AddSession(next, id, [socket |-> socket, openedAt |-> now, peer |-> None])

\* Fault: the replaced session's socket stays open.
takeOverOpen(c, p) ==
    LET old == {i \in Members(c) : c.sessions[i].peer = p} IN
    IF old = {} THEN c ELSE Forget(c, CHOOSE i \in old : TRUE)

\* A fresh proof of the same key replaces the session that holds it.
takeOver(c, p) ==
    LET old == {i \in Members(c) : c.sessions[i].peer = p}
        i == CHOOSE j \in old : TRUE
    IN  IF old = {} THEN c ELSE Close(Forget(c, i), SocketOf(c, i))

\* join with a valid proof of p for this session's challenge.
join(c, id, p, now, failing) ==
    LET refused == c.sessions[id].peer # None \/ now - c.sessions[id].openedAt >= JOIN_TIMEOUT
        free == takeOver(c, p)
        full == Len(free.order) >= MAX_ROOM_PEERS
        joined == [free EXCEPT !.sessions[id].peer = p, !.order = Append(@, id),
                               !.room = TRUE, !.lastActivity = now]
    IN  CASE refused -> reject(c, id, failing)
          [] ~refused /\ full -> reject(free, id, failing)
          [] ~refused /\ ~full -> announce(joined, failing)

\* signal to peer `to`.
signal(c, id, to, now, failing) ==
    LET joined == c.sessions[id].peer # None
        at == {i \in Members(c) : c.sessions[i].peer = to}
        i == CHOOSE j \in at : TRUE
        active == [c EXCEPT !.lastActivity = now]
    IN  CASE ~joined -> reject(c, id, failing)
          [] joined /\ at = {} -> c
          [] joined /\ at # {} ->
                IF SocketOf(c, i) \in failing THEN reject(active, i, failing) ELSE active

\* The frames a session can send.  An "end" is a leave, or a frame that is too
\* large, too frequent, malformed or wrongly signed: the session ends with it.
Frames == [kind : {"join", "signal"}, peer : Peers] \cup [kind : {"end"}]

receive(c, id, frame, now, failing) ==
    IF id \notin Ids(c) THEN c
    ELSE CASE frame.kind = "join" -> join(c, id, frame.peer, now, failing)
           [] frame.kind = "signal" -> signal(c, id, frame.peer, now, failing)
           [] frame.kind = "end" -> reject(c, id, failing)

\* sweep rejects the late joiners, and in an idle room one member after the
\* other: what it announces on the way reaches only sockets it then closes.
sweep(c, now) ==
    LET late == {id \in Ids(c) : /\ c.sessions[id].peer = None
                                 /\ now - c.sessions[id].openedAt >= JOIN_TIMEOUT}
        idle == c.room /\ now - c.lastActivity >= IDLE
        gone == late \cup IF idle THEN Members(c) ELSE {}
    IN  [c EXCEPT !.sessions = Restrict(@, Ids(c) \ gone),
                  !.order = IF idle THEN <<>> ELSE @,
                  !.room = @ /\ ~(idle /\ Members(c) # {}),
                  !.closing = @ \cup {SocketOf(c, id) : id \in gone}]

-----------------------------------------------------------------------------
(***************************************************************************)
(* What every host wants of its core.                                      *)
(***************************************************************************)

\* The sessions that joined are the roster, one per peer and socket.
RosterIsSound(c) ==
    /\ Members(c) = {id \in Ids(c) : c.sessions[id].peer # None}
    /\ Cardinality(Roster(c)) = Len(c.order) /\ Len(c.order) <= MAX_ROOM_PEERS
    /\ \A i, j \in Ids(c) : i # j => SocketOf(c, i) # SocketOf(c, j)
    /\ c.order # <<>> => c.room
=============================================================================
