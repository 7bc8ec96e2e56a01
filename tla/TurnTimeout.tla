---------------------------- MODULE TurnTimeout ----------------------------
(***************************************************************************)
(* The timeouts of verified play (packages/protocol/src/turn-timeout.ts    *)
(* and ReplicatedLog).  A certified state names the timers that are        *)
(* pending and, for each, the entry since which it is (its anchor).  No    *)
(* clock is shared: a voter measures a timer from the moment it saw the    *)
(* anchor, over again after a restart, and neither proposes a TIMEOUT nor  *)
(* votes for one before its own measure says so.                           *)
(*                                                                         *)
(* What the entries do to the game is open: any set of timers may be       *)
(* pending after an entry.  The votes for one entry are the ones of module *)
(* Agreement; here only those for timeouts are kept, over all rounds.      *)
(***************************************************************************)
EXTENDS Votes

CONSTANTS
    Voters,        \* the seats of the certified membership
    Byzantine,     \* voters that propose and sign anything
    Keys,          \* timer identities: turn, seat and phase (timerKey)
    Private,       \* those of a discard, which only its owner's client answers
    Durations,     \* the deadlines of timers, in seconds
    Tolerance,     \* a voter signs this much before its own deadline...
    Floor,         \* ... but not before this much has passed
    MaxHeight      \* bound on the certified entries

ASSUME VotersAssumption ==
    /\ IsFiniteSet(Voters) /\ Voters # {} /\ Byzantine \subseteq Voters
    /\ Cardinality(Byzantine) <= tolerated(Cardinality(Voters))

ASSUME TimesAssumption ==
    /\ Durations \subseteq Nat \ {0} /\ IsFiniteSet(Durations)
    /\ Tolerance \in Nat /\ Floor \in Nat
    /\ MaxHeight \in Nat \ {0}
    /\ Private \subseteq Keys

Honest == Voters \ Byzantine
Quorums == Certificates(Voters)
Heights == 1..MaxHeight

VARIABLES
    log,        \* height -> the pending timers after its certified entry
    age,        \* height -> seconds since its entry was certified, if a timer
                \* is still pending since then
    head,       \* honest voter -> the height it has installed
    seen,       \* honest voter -> its LocalTimerObserver
    proposed,   \* the timers whose TIMEOUT was proposed on top of the log
    votes       \* honest voter -> the timers whose TIMEOUT it signed there

vars == <<log, age, head, seen, proposed, votes>>

timers == log[Len(log)]
longer(a, b) == IF a >= b THEN a ELSE b

\* The time an honest voter grants to a timer.
minimum(anchor) == longer(Floor, anchor.deadline - Tolerance)

\* Ages beyond every deadline are one and the same.
Enough(a) == \A d \in Durations : a >= longer(Floor, d)
older(a) == IF Enough(a) THEN a ELSE a + 1

\* The pending timers after the entry of a height; the ones that were pending
\* before keep their anchor.
advanceTimerAnchors(height, pending, previous) ==
    [k \in DOMAIN pending |->
        IF k \in DOMAIN previous /\ previous[k].deadline = pending[k]
        THEN previous[k]
        ELSE [since |-> height, deadline |-> pending[k]]]

\* Fault: a timer is recognised by its key alone.
advanceByKey(observer, anchors) ==
    [k \in DOMAIN anchors |->
        [anchor |-> anchors[k],
         elapsed |-> IF k \in DOMAIN observer THEN observer[k].elapsed ELSE 0]]

\* What an observer knows after it saw the timers of a certified state.
advance(observer, anchors) ==
    [k \in DOMAIN anchors |->
        IF k \in DOMAIN observer /\ observer[k].anchor = anchors[k] THEN observer[k]
        ELSE [anchor |-> anchors[k], elapsed |-> 0]]

Pending == UNION {[open -> Durations] : open \in SUBSET Keys}
Anchors == UNION {[open -> [since : Heights, deadline : Durations]] : open \in SUBSET Keys}
nothing == [k \in {} |-> 0]

Init ==
    \E pending \in Pending :
        LET first == advanceTimerAnchors(1, pending, nothing)
        IN /\ log = <<first>>
           /\ age = [h \in Heights |-> 0]
           /\ head = [v \in Honest |-> 1]
           /\ seen = [v \in Honest |-> advance(nothing, first)]
           /\ proposed = {}
           /\ votes = [v \in Honest |-> {}]

-----------------------------------------------------------------------------
Tick ==
    /\ age' = [h \in Heights |->
                  IF h \in {timers[k].since : k \in DOMAIN timers} THEN older(age[h]) ELSE 0]
    /\ seen' = [v \in Honest |->
                  [k \in DOMAIN seen[v] |-> [seen[v][k] EXCEPT !.elapsed = older(@)]]]
    /\ UNCHANGED <<log, head, proposed, votes>>

\* systemCandidate: the proposer waits for the deadline itself.  A key that is
\* not honest may propose at any time.
ProposeTimeout(v, k) ==
    /\ k \in DOMAIN timers
    /\ v \in Honest =>
          /\ k \notin Private
          /\ head[v] = Len(log)
          /\ k \in DOMAIN seen[v] /\ seen[v][k].elapsed >= timers[k].deadline
    /\ proposed' = proposed \cup {k}
    /\ UNCHANGED <<log, age, head, seen, votes>>

canVote(v, k) == k \in DOMAIN seen[v] /\ seen[v][k].elapsed >= minimum(timers[k])

\* admitTimedVotes, and the retry once the window is reached.
VoteTimeout(v, k) ==
    /\ head[v] = Len(log) /\ k \in proposed /\ canVote(v, k)
    /\ votes' = [votes EXCEPT ![v] = @ \cup {k}]
    /\ UNCHANGED <<log, age, head, seen, proposed>>

Certify(pending) ==
    LET next == advanceTimerAnchors(Len(log) + 1, pending, timers)
    IN /\ Len(log) < MaxHeight
       /\ log' = Append(log, next)
       /\ age' = [h \in Heights |-> IF h \in {next[k].since : k \in DOMAIN next} THEN age[h] ELSE 0]
       /\ proposed' = {}
       /\ UNCHANGED <<head, seen, votes>>

\* A command, or any other input, is certified.
CertifyEntry == \E pending \in Pending : Certify(pending)

SignedBy(k) == Byzantine \cup {v \in Honest : head[v] = Len(log) /\ k \in votes[v]}

CertifyTimeout(k) ==
    /\ k \in DOMAIN timers
    /\ \E Q \in Quorums : Q \subseteq SignedBy(k)
    /\ CertifyEntry

\* A commit, or a repair that may cover several heights, reaches a voter.
Install(v) ==
    \E h \in head[v] + 1..Len(log) :
        /\ head' = [head EXCEPT ![v] = h]
        /\ seen' = [seen EXCEPT ![v] = advance(@, log[h])]
        /\ votes' = [votes EXCEPT ![v] = {}]
        /\ UNCHANGED <<log, age, proposed>>

\* Fault: the observer of a restarted voter starts empty.
RestartEmpty(v) ==
    /\ seen' = [seen EXCEPT ![v] = nothing]
    /\ UNCHANGED <<log, age, head, proposed, votes>>

\* The votes and the journal survive; the observer begins full intervals.
Restart(v) ==
    /\ seen' = [seen EXCEPT ![v] = advance(nothing, log[head[v]])]
    /\ UNCHANGED <<log, age, head, proposed, votes>>

Next ==
    \/ Tick
    \/ CertifyEntry
    \/ \E k \in Keys : CertifyTimeout(k)
    \/ \E v \in Voters, k \in Keys : ProposeTimeout(v, k)
    \/ \E v \in Honest : Install(v) \/ Restart(v) \/ \E k \in Keys : VoteTimeout(v, k)

Spec == Init /\ [][Next]_vars

\* What goes on by itself: time passes, commits arrive, honest voters propose
\* and sign, and consensus certifies what a quorum is ready to sign.
Running ==
    \/ Tick
    \/ \E v \in Honest : Install(v) \/ \E k \in Keys : ProposeTimeout(v, k) \/ VoteTimeout(v, k)
    \/ \E k \in Keys : CertifyTimeout(k)

\* Something of it happens as long as anything of it can; from some moment on
\* nobody is restarted.  Within the bounds it cannot go on for ever, so this is
\* as much as fairness of each part.
Fairness ==
    /\ <>[][\A v \in Honest : ~Restart(v)]_vars
    /\ WF_vars(Running)

LiveSpec == Spec /\ Fairness

-----------------------------------------------------------------------------
TypeOK ==
    /\ log \in Seq(Anchors) /\ Len(log) \in Heights
    /\ age \in [Heights -> Nat]
    /\ head \in [Honest -> 1..Len(log)]
    /\ DOMAIN seen = Honest
    /\ \A v \in Honest :
         /\ DOMAIN seen[v] \subseteq DOMAIN log[head[v]]
         /\ \A k \in DOMAIN seen[v] :
               seen[v][k].anchor = log[head[v]][k] /\ seen[v][k].elapsed \in Nat
    /\ proposed \subseteq DOMAIN timers
    /\ votes \in [Honest -> SUBSET Keys]

\* A timer that runs out was pending in every certified state since its anchor,
\* and has been for as long as an honest voter grants it: a restart, a voter
\* that lags behind or leaps, an interval that ends and begins again, and a
\* Byzantine voter that proposes early cannot shorten a player's time.
TimedOutHadTheirTime ==
    [][\A k \in Keys : CertifyTimeout(k) =>
          LET anchor == timers[k] IN
          /\ age[anchor.since] >= minimum(anchor)
          /\ \A h \in anchor.since..Len(log) :
                k \in DOMAIN log[h] /\ log[h][k] = anchor]_vars

\* Nobody can hold up the game by doing nothing.
TimersRunOut ==
    \A k \in Keys \ Private :
        k \in DOMAIN timers ~> (k \notin DOMAIN timers \/ Len(log) = MaxHeight)
=============================================================================
