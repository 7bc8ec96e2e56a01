------------------------------ MODULE PeerLink ------------------------------
(***************************************************************************)
(* One WebRTC connection between two players: packages/p2p/peer-link.ts.   *)
(* Both ends of it, the browser's RTCPeerConnection under each, the        *)
(* signaling that carries descriptions and candidates (in the order they   *)
(* were sent, as the room relays them; possibly lost) and the two ordered  *)
(* data channels.                                                          *)
(*                                                                         *)
(* end[e] is the PeerLink of e together with its RTCPeerConnection.  Every *)
(* reducer takes that record and returns it changed; what it says on the   *)
(* game channel, on the bulk channel and to the signaling is collected in  *)
(* `out', `bulk' and `post', and Install hands it over.  The fingerprint   *)
(* of a connection never changes, so a binding exists or does not; time is *)
(* abstract: a deadline may pass once something has gone wrong.            *)
(***************************************************************************)
EXTENDS Integers, FiniteSets, SequencesExt

CONSTANTS
  Ends,          \* the two peers
  Polite,        \* the one whose identity is smaller (get polite)
  MaxPending,    \* MAX_PENDING_DESCRIPTIONS
  UnauthLimit,   \* MAX_UNAUTH_MESSAGES
  OfferRetries,  \* length of INITIAL_OFFER_RETRY_DELAYS_MS
  MaxTroubles    \* bound: how many things go wrong

ASSUME TwoEnds == Polite \in Ends /\ IsFiniteSet(Ends) /\ Cardinality(Ends) = 2

\* The code has 16 descriptions, 4 messages and 4 retries.
ASSUME Limits ==
  /\ OfferRetries \in Nat
  /\ MaxPending \in Nat /\ MaxPending > OfferRetries + 6
  /\ UnauthLimit \in Nat /\ UnauthLimit >= 2

VARIABLES end, signals, game, bulk, origin, troubles
vars == <<end, signals, game, bulk, origin, troubles>>

Peer(e) == CHOOSE p \in Ends : p # e
NoSession == [offerer |-> Polite, revision |-> 0]
Alive(x) == x.down = "no"

Description(kind, revision, reply) ==
  [kind |-> kind, revision |-> revision, reply |-> reply]
Candidate(tag, of) == [kind |-> "candidate", revision |-> tag, reply |-> of]
IsDescription(m) == m.kind \in {"offer", "answer"}
NegotiateJob == Description("negotiate", 0, 0)

-----------------------------------------------------------------------------
(* Closing, and the handshake over the open channels. *)

NewEnd ==
  [signaling |-> "stable", current |-> NoSession, needed |-> TRUE, restart |-> FALSE,
   carries |-> FALSE, net |-> "new", open |-> FALSE, grace |-> FALSE, gather |-> 0,
   heard |-> FALSE, revision |-> 0, offered |-> 0, seen |-> 0, ignored |-> 0,
   early |-> {}, jobs |-> <<>>, stage |-> "idle", negotiating |-> FALSE, retries |-> 0,
   initSent |-> FALSE, nonce |-> FALSE, helloSent |-> FALSE, helloVerified |-> FALSE,
   pendingHello |-> FALSE, authenticated |-> FALSE, ready |-> FALSE, queued |-> 0,
   unauth |-> 0, missed |-> 0, awaiting |-> FALSE, down |-> "no",
   out |-> <<>>, bulk |-> 0, post |-> <<>>]

\* The first failure closes everything and nothing of the link is used again;
\* what was said before it is on its way.
fail(x, reason) ==
  IF Alive(x) THEN [NewEnd EXCEPT !.down = reason, !.out = x.out,
                                  !.bulk = x.bulk, !.post = x.post]
              ELSE x

\* A binding needs both current descriptions and a stable connection.
Binding(x) == x.signaling = "stable" /\ x.current # NoSession

\* Fault: the bulk channel does not wait for READY.
drainAtOnce(x) == IF Alive(x) THEN [x EXCEPT !.bulk = @ + x.queued, !.queued = 0] ELSE x

drain(x) ==
  IF Alive(x) /\ x.ready THEN [x EXCEPT !.bulk = @ + x.queued, !.queued = 0] ELSE x

\* onAuthenticated makes the log greet the peer and ask for what it misses
\* before READY is sent; a bulk message waits for the READY of the other end.
maybeAuthenticated(x) ==
  IF Alive(x) /\ ~x.authenticated /\ x.helloSent /\ x.helloVerified
  THEN drain([x EXCEPT !.authenticated = TRUE, !.queued = 1,
                       !.out = @ \o <<"data", "READY">>])
  ELSE x

trySendHello(x) ==
  IF Alive(x) /\ ~x.helloSent /\ x.nonce /\ x.open /\ Binding(x)
  THEN maybeAuthenticated([x EXCEPT !.helloSent = TRUE, !.out = Append(@, "HELLO")])
  ELSE x

channelOpened(x) ==
  IF Alive(x) /\ x.open
  THEN trySendHello(IF x.initSent THEN x
                    ELSE [x EXCEPT !.initSent = TRUE, !.out = Append(@, "HELLO_INIT")])
  ELSE x

seenInbound(x) == [x EXCEPT !.missed = 0, !.awaiting = FALSE]

\* A HELLO that overtakes the local description waits for a stable connection.
receiveHello(x) ==
  IF ~x.nonce THEN fail(x, "hello-authentication")
  ELSE LET y == trySendHello(x) IN
       CASE y.helloSent -> maybeAuthenticated([y EXCEPT !.helloVerified = TRUE])
         [] ~y.helloSent /\ y.signaling # "stable" -> [y EXCEPT !.pendingHello = TRUE]
         [] OTHER -> fail(y, "fingerprint-unsupported")

receiveControl(x, m) ==
  CASE m = "HELLO_INIT" /\ ~x.authenticated -> channelOpened([x EXCEPT !.nonce = TRUE])
    [] m = "HELLO" /\ ~x.authenticated -> receiveHello(x)
    [] m = "PING" /\ x.authenticated ->
         [seenInbound(x) EXCEPT !.out = Append(@, "PONG")]
    [] m = "READY" ->
         LET y == [x EXCEPT !.ready = TRUE] IN
         IF x.authenticated THEN drain(seenInbound(y)) ELSE y
    [] m = "PONG" /\ x.authenticated -> seenInbound(x)
    [] OTHER -> fail(x, "invalid-control")

receiveData(x) ==
  IF x.authenticated THEN seenInbound(x) ELSE fail(x, "preauth-data")

\* Text before authentication is counted; frames before it are refused.
receive(x, m) ==
  CASE ~Alive(x) -> x
    [] Alive(x) /\ m = "data" -> receiveData(x)
    [] Alive(x) /\ m # "data" /\ x.authenticated -> receiveControl(x, m)
    [] OTHER -> IF x.unauth = UnauthLimit THEN fail(x, "unauthenticated-limit")
                ELSE receiveControl([x EXCEPT !.unauth = @ + 1], m)

-----------------------------------------------------------------------------
(* Descriptions.  Local and remote operations share one queue: `jobs', the  *)
(* running one at its head, `stage' the browser call it waits for.          *)

\* signalingstatechange: the handshake may now be possible.  A browser that is
\* stable again asks for a negotiation if a restart has not been carried yet.
stateChanged(x) ==
  LET y == trySendHello(x)
      z == IF y.signaling = "stable" /\ y.pendingHello
           THEN receiveControl([y EXCEPT !.pendingHello = FALSE], "HELLO")
           ELSE y
  IN  IF z.signaling = "stable" THEN [z EXCEPT !.needed = z.restart] ELSE z

enqueueDescription(x, job) ==
  CASE ~Alive(x) -> x
    [] Len(x.jobs) >= MaxPending -> fail(x, "signaling-overflow")
    [] OTHER -> [x EXCEPT !.jobs = Append(@, job)]

\* The job is over; the next one may start.
done(x) == IF Alive(x) THEN [x EXCEPT !.jobs = Tail(@), !.stage = "idle"] ELSE x

\* Only a stable connection offers.
startNegotiate(x) ==
  IF x.signaling # "stable" THEN done([x EXCEPT !.negotiating = FALSE])
  ELSE [x EXCEPT !.revision = @ + 1, !.stage = "offer"]

\* Addresses are gathered until the channels are open; later ones change nothing
\* the properties see.
gathered(x) == IF x.open THEN 0 ELSE x.revision

\* An offer says in `reply' whether it restarts ICE.
Restarts(x) == IF x.carries THEN 1 ELSE 0

finishNegotiate(x) ==
  LET y == stateChanged([x EXCEPT !.signaling = "local", !.gather = gathered(x),
                                  !.carries = x.restart])
  IN  done([y EXCEPT !.offered = x.revision, !.negotiating = FALSE,
                     !.retries = IF x.revision = 1 THEN OfferRetries ELSE 0,
                     !.post = Append(@, Description("offer", x.revision, Restarts(y)))])

\* The answer to anything but the outstanding offer is not for this negotiation.
StrayAnswer(x, m) ==
  m.kind = "answer" /\ (x.signaling # "local" \/ m.reply # x.offered)

\* Fault: both ends keep their own offer.
AllImpolite(x, m, e) == m.kind = "offer" /\ x.signaling # "stable"

\* Both offered: the impolite end keeps its own offer.
Collides(x, m, e) ==
  m.kind = "offer" /\ x.signaling # "stable" /\ e # Polite

ignore(x, m) ==
  [x EXCEPT !.ignored = IF m.revision > @ THEN m.revision ELSE @,
            !.early = {c \in @ : c.revision # m.revision}]

startSignal(x, m, e) ==
  CASE m.revision <= x.seen -> done(x)
    [] m.revision > x.seen /\ (StrayAnswer(x, m) \/ Collides(x, m, e)) -> done(ignore(x, m))
    [] OTHER -> [x EXCEPT !.stage = "remote"]

start(x, e) ==
  IF Head(x.jobs).kind = "negotiate" THEN startNegotiate(x)
  ELSE startSignal(x, Head(x.jobs), e)

\* A candidate counts when it belongs to the description that was applied.
addCandidates(x, C) ==
  IF \E c \in C : c.reply = x.seen THEN [x EXCEPT !.heard = TRUE] ELSE x

\* Fault: candidates that came before their description are dropped.
dropEarly(x) == [x EXCEPT !.early = {}]

\* The early candidates of the accepted description; the others are forgotten.
takeEarly(x) ==
  [addCandidates(x, {c \in x.early : c.revision = x.seen}) EXCEPT !.early = {}]

accepted(x, m) ==
  [x EXCEPT !.offered = 0, !.retries = 0, !.seen = m.revision, !.heard = FALSE]

\* setRemoteDescription resolved.  An answer completes the local offer; an offer
\* replaces one of our own (the browser rolls it back) and is answered next.
finishRemote(x, e) ==
  LET m == Head(x.jobs) IN
  IF m.kind = "answer"
  THEN done(trySendHello(takeEarly(stateChanged(
         [accepted(x, m) EXCEPT !.signaling = "stable",
            !.restart = @ /\ ~x.carries,
            !.current = [offerer |-> e, revision |-> x.offered]]))))
  ELSE [accepted(x, m) EXCEPT !.signaling = "remote", !.stage = "answer",
                              !.revision = @ + 1]

\* setLocalDescription resolved: the answer is in force here and is sent.
finishAnswer(x, e) ==
  LET m == Head(x.jobs)
      y == stateChanged([x EXCEPT !.signaling = "stable", !.gather = gathered(x),
              !.restart = @ /\ m.reply = 0,
              !.current = [offerer |-> Peer(e), revision |-> m.revision]])
  IN  IF ~Alive(y) THEN y
      ELSE done(trySendHello(takeEarly(
             [y EXCEPT !.post = Append(@, Description("answer", x.revision, m.revision))])))

receiveCandidate(x, m) ==
  CASE ~Alive(x) \/ m.revision <= x.ignored \/ m.revision < x.seen -> x
    [] Alive(x) /\ m.revision > x.ignored /\ m.revision = x.seen -> addCandidates(x, {m})
    [] OTHER -> [x EXCEPT !.early = @ \cup {m}]

-----------------------------------------------------------------------------
(* The whole connection. *)

Init ==
  /\ end = [e \in Ends |-> NewEnd]
  /\ signals = [e \in Ends |-> <<>>]
  /\ game = [e \in Ends |-> <<>>]
  /\ bulk = [e \in Ends |-> 0]
  /\ origin \in Ends
  /\ troubles = {}

\* Signals go to the peer's queue of the signaling, the rest on the channels.
\* Nothing reaches a closed end.
Install(e, x, ours, said) ==
  LET into(old, new) == IF Alive(end[Peer(e)]) THEN old \o new ELSE old
      keep(q) == IF Alive(x) THEN q ELSE <<>>
  IN  /\ end' = [end EXCEPT ![e] = [x EXCEPT !.out = <<>>, !.bulk = 0, !.post = <<>>]]
      /\ signals' = [signals EXCEPT ![e] = keep(ours), ![Peer(e)] = into(@, x.post)]
      /\ game' = [game EXCEPT ![e] = keep(said), ![Peer(e)] = into(@, x.out)]
      /\ bulk' = [bulk EXCEPT ![e] = IF Alive(x) THEN @ ELSE 0,
                              ![Peer(e)] = IF Alive(end[Peer(e)]) THEN @ + x.bulk ELSE @]
      /\ UNCHANGED origin

Reacts(e, x) == Install(e, x, signals[e], game[e]) /\ UNCHANGED troubles

Up(e) == Alive(end[e])

\* The answerer of an attempt makes no offer of its own before authentication.
NegotiationNeeded(e) ==
  /\ Up(e) /\ end[e].needed
  /\ LET x == [end[e] EXCEPT !.needed = FALSE] IN
     Reacts(e, IF x.negotiating \/ (e # origin /\ ~x.authenticated) THEN x
               ELSE enqueueDescription([x EXCEPT !.negotiating = TRUE], NegotiateJob))

StartJob(e) ==
  /\ Up(e) /\ end[e].stage = "idle" /\ end[e].jobs # <<>>
  /\ Reacts(e, start(end[e], e))

FinishJob(e) ==
  /\ Up(e) /\ end[e].stage # "idle"
  /\ LET x == end[e] IN
     Reacts(e, CASE x.stage = "offer" -> finishNegotiate(x)
                 [] x.stage = "remote" -> finishRemote(x, e)
                 [] x.stage = "answer" -> finishAnswer(x, e))

ReceiveSignal(e) ==
  /\ signals[e] # <<>>
  /\ LET m == Head(signals[e]) IN
     Install(e, IF IsDescription(m) THEN enqueueDescription(end[e], m)
                ELSE receiveCandidate(end[e], m),
             Tail(signals[e]), game[e])
  /\ UNCHANGED troubles

\* The browser gathered an address for its latest description.  It is labelled
\* with the revision of the moment it is reported.
IceCandidate(e) ==
  /\ Up(e) /\ end[e].gather > 0
  /\ Reacts(e, [end[e] EXCEPT !.gather = 0,
                  !.post = <<Candidate(end[e].revision, end[e].gather)>>])

\* The first offer is repeated while nothing has answered it (the answer takes
\* less than the first delay unless something went wrong).
awaitingInitialAnswer(x) ==
  /\ ~x.authenticated /\ x.seen = 0 /\ x.revision = 1 /\ x.offered = 1
  /\ x.signaling = "local" /\ ~(x.stage = "remote" /\ Head(x.jobs).kind = "answer")

RetryOffer(e) ==
  /\ Up(e) /\ end[e].retries > 0 /\ troubles # {}
  /\ LET x == end[e] IN
     Reacts(e, IF awaitingInitialAnswer(x)
               THEN [x EXCEPT !.retries = @ - 1,
                              !.post = <<Description("offer", 1, Restarts(x))>>]
               ELSE [x EXCEPT !.retries = 0])

\* ICE and DTLS complete once both ends are stable on the same descriptions and
\* one of them knows an address of the other.
Connected(e) ==
  LET x == end[e]  y == end[Peer(e)] IN
  /\ Up(e) /\ Up(Peer(e)) /\ x.current # NoSession /\ x.current = y.current
  /\ (x.heard \/ y.heard) /\ y.net # "disconnected"
OpenChannels(e) ==
  /\ end[e].net = "new" /\ Connected(e)
  /\ Reacts(e, channelOpened([end[e] EXCEPT !.net = "connected", !.open = TRUE]))

\* A message is delivered while the receiver is connected.
ReceiveControl(e) ==
  /\ end[e].net = "connected" /\ game[e] # <<>>
  /\ Install(e, receive(end[e], Head(game[e])), signals[e], Tail(game[e]))
  /\ UNCHANGED troubles

ReceiveBulk(e) ==
  /\ end[e].net = "connected" /\ bulk[e] > 0
  /\ LET x == receiveData(end[e]) IN
     /\ end' = [end EXCEPT ![e] = x]
     /\ bulk' = [bulk EXCEPT ![e] = IF Alive(x) THEN @ - 1 ELSE 0]
     /\ signals' = [signals EXCEPT ![e] = IF Alive(x) THEN @ ELSE <<>>]
     /\ game' = [game EXCEPT ![e] = IF Alive(x) THEN @ ELSE <<>>]
  /\ UNCHANGED <<origin, troubles>>

\* Every two seconds.  A living peer answers in time; three pings without a word
\* from the other end, or a connection lost for too long, end the link.
Answerable(e) == Up(Peer(e)) \/ game[e] # <<>> \/ bulk[e] > 0

ping(x) ==
  LET late == x.awaiting /\ x.net = "connected"
      y == IF late THEN [x EXCEPT !.missed = @ + 1] ELSE x
  IN  CASE x.net = "disconnected" /\ ~x.grace -> fail(x, "disconnected-timeout")
        [] y.missed >= 3 -> fail(y, "ping-timeout")
        [] x.net = "connected" /\ y.missed < 3 ->
             [y EXCEPT !.awaiting = TRUE, !.out = Append(@, "PING")]
        [] OTHER -> y

\* Bound: a peer that is there is pinged while nothing else is going on.
Idle ==
  \A p \in Ends : game[p] = <<>> /\ signals[p] = <<>> /\ end[p].authenticated
                 /\ end[p].jobs = <<>> /\ bulk[p] = 0 /\ troubles = {}

Ping(e) ==
  /\ Up(e) /\ end[e].authenticated
  /\ Idle \/ ~Up(Peer(e)) \/ end[e].net = "disconnected"
  /\ end[e].awaiting /\ end[e].net = "connected" => ~Answerable(e)
  /\ Reacts(e, ping(end[e]))

\* What can go wrong, each of it once.
Trouble(kind) ==
  /\ kind \notin troubles /\ Cardinality(troubles) < MaxTroubles
  /\ troubles' = troubles \cup {kind}

\* connectionstatechange: the network between the ends breaks and comes back.
\* What is said meanwhile waits; each end restarts ICE when its grace is over.
Network(from, to, grace) ==
  /\ end' = [p \in Ends |-> IF Up(p) /\ end[p].net = from
                            THEN [end[p] EXCEPT !.net = to, !.grace = grace] ELSE end[p]]
  /\ UNCHANGED <<signals, game, bulk, origin>>
Disconnected(e) ==
  /\ Up(e) /\ end[e].net = "connected" /\ Trouble("broken")
  /\ Network("connected", "disconnected", TRUE)
Reconnected(e) ==
  /\ Up(e) /\ end[e].net = "disconnected"
  /\ Network("disconnected", "connected", FALSE) /\ UNCHANGED troubles
GraceEnds(e) ==
  /\ Up(e) /\ end[e].net = "disconnected" /\ end[e].grace
  /\ Reacts(e, [end[e] EXCEPT !.grace = FALSE, !.restart = TRUE,
                              !.needed = end[e].signaling = "stable"])

LoseSignal(e) ==
  /\ signals[e] # <<>> /\ signals' = [signals EXCEPT ![e] = Tail(@)]
  /\ Trouble("lost") /\ UNCHANGED <<end, game, bulk, origin>>
\* The room could not be reached: the sender gives the link up.
SendFails(e) ==
  /\ Up(e) /\ signals[Peer(e)] # <<>> /\ Trouble("unreachable")
  /\ end' = [end EXCEPT ![e] = fail(@, "signal-error")]
  /\ signals' = [signals EXCEPT ![e] = <<>>, ![Peer(e)] = Front(@)]
  /\ game' = [game EXCEPT ![e] = <<>>] /\ bulk' = [bulk EXCEPT ![e] = 0]
  /\ UNCHANGED origin
\* An end disappears without a word: no channel is closed.
Vanish(e) ==
  /\ Up(e) /\ Install(e, fail(end[e], "vanished"), signals[e], game[e])
  /\ Trouble("vanished")

\* hello-timeout and the transport's attempt-timeout.
DeadlinePasses(e) ==
  /\ Up(e) /\ ~end[e].authenticated /\ troubles # {}
  /\ Reacts(e, fail(end[e], "timeout"))

\* The other end closed the connection.
ChannelClosed(e) ==
  /\ Up(e) /\ end[e].open /\ end[Peer(e)].down \notin {"no", "vanished"}
  /\ Reacts(e, fail(end[e], "channel-closed"))

Next ==
  \E e \in Ends :
    \/ NegotiationNeeded(e) \/ StartJob(e) \/ FinishJob(e) \/ ReceiveSignal(e)
    \/ IceCandidate(e) \/ RetryOffer(e) \/ OpenChannels(e) \/ ReceiveControl(e)
    \/ ReceiveBulk(e) \/ Ping(e) \/ Disconnected(e) \/ Reconnected(e) \/ GraceEnds(e)
    \/ LoseSignal(e) \/ SendFails(e) \/ Vanish(e) \/ DeadlinePasses(e) \/ ChannelClosed(e)

Spec == Init /\ [][Next]_vars

\* Browser calls resolve, signals and messages arrive, timers fire: an end that
\* can go on does.  Which end, and which of its steps, comes first is left open.
Progress(e) ==
  \/ NegotiationNeeded(e) \/ StartJob(e) \/ FinishJob(e) \/ ReceiveSignal(e)
  \/ IceCandidate(e) \/ OpenChannels(e) \/ ReceiveControl(e) \/ ReceiveBulk(e)
  \/ Ping(e) \/ GraceEnds(e) \/ DeadlinePasses(e) \/ ChannelClosed(e)
Fairness == WF_vars(\E e \in Ends : Progress(e))
FairSpec == Spec /\ Fairness

-----------------------------------------------------------------------------
(* What is checked. *)

\* Two honest ends never close their link over what the other one sent: no frame
\* arrives before the HELLO that allows it, on either channel, whatever the
\* order of descriptions, and a silent peer is given up only if it is gone.
HonestEndsNeverAccuse ==
  \A e \in Ends :
    /\ end[e].down \in {"no", "vanished", "signal-error", "timeout", "channel-closed",
                        "disconnected-timeout", "ping-timeout"}
    /\ end[e].down = "ping-timeout" => ~Up(Peer(e))

\* Perfect negotiation: when no signal was lost and every description has been
\* dealt with, both ends are stable on the same offer and answer; neither still
\* waits for the answer to an offer the other one ignored.
Settled ==
  \A e \in Ends : end[e].jobs = <<>> /\ \A m \in ToSet(signals[e]) : ~IsDescription(m)
SettledEndsAgree ==
  ("lost" \notin troubles /\ Settled /\ \A e \in Ends : Up(e)) =>
    \A e \in Ends : end[e].signaling = "stable" /\ end[e].current = end[Peer(e)].current

\* Every attempt settles: in the end both ends are authenticated, have seen each
\* other's READY and hold nothing back, or both are gone.  Neither outlives the
\* other, whether it closed, ran out of time or vanished; and since nothing but
\* trouble may end a link, an attempt nothing happens to ends connected, with no
\* candidate dropped and no step of the handshake waiting for an event that passed.
Working(e) ==
  Up(e) /\ end[e].authenticated /\ end[e].ready /\ end[e].queued = 0 /\ bulk[e] = 0
AttemptSettles ==
  <>[]((\A e \in Ends : Working(e)) \/ (\A e \in Ends : ~Up(e)))
=============================================================================
