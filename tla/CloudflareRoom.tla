--------------------------- MODULE CloudflareRoom ---------------------------
(***************************************************************************)
(* The room as a hibernating Durable Object                                *)
(* (apps/signaling/worker/cloudflare-room.ts).  The object may lose its    *)
(* memory between two operations and is rebuilt from what it attached to   *)
(* the sockets; one alarm stands for all deadlines.                        *)
(*                                                                         *)
(* Operations run one after the other (#run), each of them to the end:     *)
(* sweep, the operation on the core, #persistAndSchedule.                  *)
(*                                                                         *)
(* The platform.  A socket is "open" until either side starts to close it, *)
(* "ending" until its close event has been handled, then "closed".  It is  *)
(* listed by getWebSockets until then, and a message that was already on   *)
(* its way still arrives while it is ending.  The clock does not go back.  *)
(***************************************************************************)
EXTENDS RoomCore

CONSTANTS
    MAX_ROOM_SOCKETS, \* bound on the connections
    MaxNow,           \* bound on the clock
    Busy              \* the last moment at which clients are active

VARIABLES
    core,      \* the RoomCore in memory
    awake,     \* the object is in memory
    sock,      \* socket -> its state
    attached,  \* socket -> its attachment (a snapshot), or NoAttachment
    stored,    \* storage: lastActivity, or 0
    alarm,     \* storage: the time of the alarm, or NoAlarm
    now

vars == <<core, awake, sock, attached, stored, alarm, now>>

NoAttachment == [id |-> 0]
NoAlarm == MaxNow + JOIN_TIMEOUT + IDLE
Listed == {s \in Sockets : sock[s] \in {"open", "ending"}}

Init ==
    /\ core = EmptyCore /\ awake = TRUE
    /\ sock = [s \in Sockets |-> "new"]
    /\ attached = [s \in Sockets |-> NoAttachment]
    /\ stored = 0 /\ alarm = NoAlarm /\ now = 1

\* snapshotSession: the activity is 0 when there is no room.
Snapshot(c, id) ==
    [id |-> id, openedAt |-> c.sessions[id].openedAt, peer |-> c.sessions[id].peer,
     activity |-> IF c.room THEN c.lastActivity ELSE 0]

\* Fault: the attachment of a session that ended is kept.
SnapshotsKept(c, att, listed) ==
    [s \in Sockets |->
        IF s \in listed /\ att[s].id \in Ids(c) THEN Snapshot(c, att[s].id) ELSE att[s]]

\* The attachments of the listed sockets follow the core: a session that ended
\* leaves none.
Snapshots(c, att, listed) ==
    [s \in Sockets |->
        CASE s \notin listed -> att[s]
          [] s \in listed /\ att[s].id \in Ids(c) -> Snapshot(c, att[s].id)
          [] s \in listed /\ att[s].id \notin Ids(c) -> NoAttachment]

\* Fault: the alarm knows the idle room only.
NextAlarmIdle(att) ==
    LET activity == Max({0} \cup {att[s].activity : s \in {t \in Sockets : att[t].id # 0}})
    IN  IF activity = 0 THEN NoAlarm ELSE Max({now, activity + IDLE})

\* The alarm stands for the earliest deadline of the attached sessions.
NextAlarm(att) ==
    LET held == {s \in Sockets : att[s].id # 0}
        activity == Max({0} \cup {att[s].activity : s \in held})
        deadlines == {att[s].openedAt + JOIN_TIMEOUT : s \in {t \in held : att[t].peer = None}}
                        \cup {activity + IDLE : s \in IF activity = 0 THEN {} ELSE {0}}
    IN  IF deadlines = {} THEN NoAlarm ELSE Max({now, Min(deadlines)})

\* The sockets that the operation closed start to end.
Closed(c, st) ==
    [s \in Sockets |-> IF s \in c.closing /\ st[s] = "open" THEN "ending" ELSE st[s]]

\* The core after the operation; what ended sockets were told is forgotten.
Settled(c, st) ==
    [c EXCEPT !.closing = {},
              !.told = [s \in Sockets |-> IF st[s] = "open" THEN @[s] ELSE {}]]

\* The end of an operation (#persistAndSchedule): c is the new core, with the
\* sockets that it closed, att and st are the attachments and sockets so far.
Persist(c, att, st) ==
    LET listed == {s \in Sockets : st[s] \in {"open", "ending"}}
        saved == Snapshots(c, att, listed)
        held == {s \in listed : saved[s].id # 0}
    IN  /\ sock' = Closed(c, st)
        /\ core' = Settled(c, Closed(c, st))
        /\ attached' = saved
        /\ stored' = Max({0} \cup {saved[s].activity : s \in held})
        /\ alarm' = NextAlarm([s \in Sockets |-> IF s \in listed THEN saved[s] ELSE NoAttachment])

-----------------------------------------------------------------------------
(***************************************************************************)
(* The handlers.                                                           *)
(***************************************************************************)

\* An operation that returns before #persistAndSchedule.
Unsaved(c, st) ==
    /\ sock' = Closed(c, st)
    /\ core' = Settled(c, Closed(c, st))
    /\ UNCHANGED <<attached, stored, alarm>>

\* fetch accepts the next connection.  When the challenge cannot be sent, open
\* throws and the socket is closed.
Fetch(s) ==
    /\ awake /\ sock[s] = "new" /\ \A t \in Sockets : t < s => sock[t] # "new"
    /\ Cardinality(Listed) < MAX_ROOM_SOCKETS
    /\ \E failing \in {{}, {s}} :
          LET c == open(sweep(core, now), s, now, failing)
              st == [sock EXCEPT ![s] = "open"]
          IN  IF failing = {}
              THEN Persist(c, [attached EXCEPT ![s] = Snapshot(c, c.nextId)], st)
              ELSE Unsaved(Close(c, s), st)
    /\ UNCHANGED <<awake, now>>

\* fetch refuses a connection, after its sweep.
FetchRefused ==
    /\ awake /\ Cardinality(Listed) >= MAX_ROOM_SOCKETS
    /\ Unsaved(sweep(core, now), sock)
    /\ UNCHANGED <<awake, now>>

\* webSocketMessage: a text frame.
Message(s) ==
    /\ awake /\ s \in Listed
    /\ IF attached[s] = NoAttachment
       THEN Persist(Close(core, s), attached, sock)
       ELSE \E frame \in Frames, failing \in SUBSET Listed :
               Persist(receive(sweep(core, now), attached[s].id, frame, now, failing),
                       attached, sock)
    /\ UNCHANGED <<awake, now>>

\* webSocketMessage: a binary frame.
Binary(s) ==
    /\ awake /\ s \in Listed /\ attached[s] # NoAttachment
    /\ \E failing \in SUBSET Listed :
          Persist(Close(disconnect(core, attached[s].id, failing), s), attached, sock)
    /\ UNCHANGED <<awake, now>>

\* webSocketClose and webSocketError.
CloseEvent(s) ==
    /\ awake /\ sock[s] = "ending"
    /\ \E failing \in SUBSET Listed :
          Persist(disconnect(core, attached[s].id, failing),
                  [attached EXCEPT ![s] = NoAttachment], [sock EXCEPT ![s] = "closed"])
    /\ UNCHANGED <<awake, now>>

Alarm ==
    /\ awake /\ alarm <= now
    /\ Persist(sweep(core, now), attached, sock)
    /\ UNCHANGED <<awake, now>>

-----------------------------------------------------------------------------
(***************************************************************************)
(* Hibernation.                                                            *)
(***************************************************************************)

\* restoreSession: a peer that is already there, or a full room, is a conflict.
restoreSession(c, s, a) ==
    IF \/ a.id \in Ids(c)
       \/ a.peer # None /\ (a.peer \in Roster(c) \/ Len(c.order) >= MAX_ROOM_PEERS)
    THEN Close(c, s)
    ELSE [AddSession(c, a.id, [socket |-> s, openedAt |-> a.openedAt, peer |-> a.peer])
            EXCEPT !.order = IF a.peer = None THEN @ ELSE Append(@, a.id),
                   !.room = @ \/ a.activity # 0,
                   !.lastActivity = Max({@, a.activity}),
                   !.nextId = Max({@, a.id})]

\* #restore, up to its sweep: the listed sockets in order of acceptance.
restore ==
    LET last == Max({0} \cup Listed)
        first == [EmptyCore EXCEPT !.told = core.told]
        step(c, s) ==
            CASE s \notin Listed -> c
              [] s \in Listed /\ attached[s] = NoAttachment -> Close(c, s)
              [] s \in Listed /\ attached[s] # NoAttachment ->
                    restoreSession(c, s, [attached[s] EXCEPT !.activity = Max({@, stored})])
        upTo[n \in 0..last] == IF n = 0 THEN first ELSE step(upTo[n - 1], n)
    IN  upTo[last]

Hibernate ==
    /\ awake /\ awake' = FALSE
    /\ core' = [EmptyCore EXCEPT !.told = core.told]
    /\ UNCHANGED <<sock, attached, stored, alarm, now>>

\* Any event wakes the object: the constructor and #restore.
Wake ==
    /\ ~awake /\ awake' = TRUE
    /\ Persist(sweep(restore, now), attached, sock)
    /\ UNCHANGED now

\* The client, or the network, ends a connection.
Vanish(s) ==
    /\ sock[s] = "open"
    /\ sock' = [sock EXCEPT ![s] = "ending"]
    /\ UNCHANGED <<core, awake, attached, stored, alarm, now>>

Tick ==
    /\ now < MaxNow /\ now' = now + 1
    /\ UNCHANGED <<core, awake, sock, attached, stored, alarm>>

Activity == \E s \in Sockets : Fetch(s) \/ Message(s) \/ Binary(s)

Housekeeping ==
    \/ \E s \in Sockets : CloseEvent(s) \/ Vanish(s)
    \/ FetchRefused \/ Alarm \/ Hibernate \/ Wake \/ Tick

Next == Activity \/ Housekeeping

Spec == Init /\ [][Next]_vars

-----------------------------------------------------------------------------

\* The core that would be there, were the object woken now.
Current == IF awake THEN core ELSE restore

\* Whether or not it slept, the room has one session per member and socket,
\* and every connected member was told the roster as it is: no failed send,
\* departure, replacement or hibernation leaves an obsolete one standing.
ObjectIsConsistent ==
    /\ RosterIsSound(Current)
    /\ \A id \in Members(Current) :
          sock[SocketOf(Current, id)] = "open" =>
             Current.told[SocketOf(Current, id)] = Roster(Current)

\* Hibernation changes nothing: at any moment the attachments hold the
\* sessions, the roster and the activity that are in memory, up to what the
\* next sweep removes anyway.
ObjectSleepsExactly ==
    awake =>
        LET woken == sweep(restore, now)
            swept == sweep(core, now)
        IN  /\ woken.sessions = swept.sessions
            /\ Members(woken) = Members(swept)
            /\ swept.order # <<>> => woken.lastActivity = swept.lastActivity

\* An open socket has a session, and a session has a socket that is not closed:
\* the late close of a replaced socket, or of one whose session id was handed
\* out again after a hibernation, ends nobody else's session.
ObjectOwnsSessions ==
    LET held == {SocketOf(Current, id) : id \in Ids(Current)} IN
    /\ held \subseteq Listed
    /\ {s \in Sockets : sock[s] = "open"} \subseteq held

-----------------------------------------------------------------------------
(***************************************************************************)
(* Release.  Clients fall silent after Busy.  Time passes, and the         *)
(* platform delivers an alarm that is due, waking the object for it.       *)
(***************************************************************************)

Due == alarm <= now

LiveNext == (now <= Busy /\ Activity) \/ Housekeeping

Overdue == Due /\ sweep(core, now) # core

LiveSpec ==
    /\ Init /\ [][LiveNext]_vars
    /\ <>(now = MaxNow)
    /\ []<>(awake \/ ~Due)
    /\ []<>(awake /\ Overdue) => []<><<Alarm>>_vars

\* A silent connection is released, the one that never joined and the one in
\* an idle room, however often the object sleeps: the one alarm that is set
\* covers every deadline.
ObjectReleasesSilence == \A s \in Sockets : sock[s] = "open" ~> sock[s] # "open"
=============================================================================
