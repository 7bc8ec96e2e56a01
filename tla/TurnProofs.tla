----------------------------- MODULE TurnProofs -----------------------------
(***************************************************************************)
(* Proofs about the turn: the timers that stand over it (TurnTimeout) and  *)
(* the game that is played in it (BaseGame).  Neither part needs the other.*)
(***************************************************************************)
EXTENDS BaseGame, TurnTimeout, FiniteSetTheorems, SequenceTheorems, WellFoundedInduction, TLAPS

-----------------------------------------------------------------------------
(***************************************************************************)
(* The timers, for every membership with at most the tolerated number of   *)
(* Byzantine voters, every set of timers, every duration, tolerance and    *)
(* floor, and every number of entries.                                     *)
(*                                                                         *)
(* The argument: an anchor is fixed in every state from its entry on, an   *)
(* honest voter has never watched a timer for longer than the timer has    *)
(* been certified, so its vote comes late enough; and a quorum contains an *)
(* honest voter.                                                           *)
(***************************************************************************)

\* A pending timer kept its anchor in every state since the anchor's entry.
Anchored ==
    \A h \in 1..Len(log) : \A k \in DOMAIN log[h] :
        /\ log[h][k].since \in 1..h
        /\ \A g \in log[h][k].since..h : k \in DOMAIN log[g] /\ log[g][k] = log[h][k]

\* Nobody has watched a timer for longer than it has been certified.
ObservedLate ==
    \A v \in Honest : \A k \in DOMAIN seen[v] :
        k \in DOMAIN timers /\ timers[k] = seen[v][k].anchor
            => seen[v][k].elapsed <= age[timers[k].since]

\* An honest vote for a timeout comes when the seat has had its time.
VotedLate ==
    \A v \in Honest : \A k \in DOMAIN timers :
        head[v] = Len(log) /\ k \in votes[v] => age[timers[k].since] >= minimum(timers[k])

IndInv == TypeOK /\ Anchored /\ ObservedLate /\ VotedLate

-----------------------------------------------------------------------------
\* A certificate has an honest signer.
LEMMA HonestSigner ==
    ASSUME NEW Q \in Quorums
    PROVE  \E v \in Q : v \in Honest
<1> DEFINE n == Cardinality(Voters)
<1>1. Q \subseteq Voters /\ Cardinality(Q) >= quorumSize(n)
  BY DEF Quorums, Certificates
<1>2. n \in Nat /\ n > 0
  BY VotersAssumption, FS_CardinalityType, FS_EmptySet
<1>3. IsFiniteSet(Byzantine) /\ Cardinality(Byzantine) \in Nat /\ Cardinality(Q) \in Nat
  BY <1>1, VotersAssumption, FS_Subset, FS_CardinalityType
<1>4. Cardinality(Q) > Cardinality(Byzantine)
  BY <1>1, <1>2, <1>3, VotersAssumption DEF quorumSize, tolerated
<1>5. ~(Q \subseteq Byzantine)
  <2> SUFFICES ASSUME Q \subseteq Byzantine
               PROVE  FALSE
    OBVIOUS
  <2>1. Cardinality(Q) <= Cardinality(Byzantine)
    BY <1>3, FS_Subset
  <2> QED
    BY <2>1, <1>3, <1>4
<1> QED
  BY <1>1, <1>5 DEF Honest

\* Ages stay in order when time passes.
LEMMA OlderIsMonotone ==
    ASSUME NEW a \in Nat, NEW b \in Nat, a <= b
    PROVE  older(a) \in Nat /\ a <= older(a) /\ older(a) <= older(b)
<1>1. \A d \in Durations : longer(Floor, d) \in Nat
  BY TimesAssumption DEF longer
<1>2. Enough(a) => Enough(b)
  BY <1>1 DEF Enough
<1> HIDE DEF Enough
<1> QED
  BY <1>2 DEF older

\* What is known of a set of anchors.
LEMMA AnchorsType ==
    ASSUME NEW a \in Anchors
    PROVE  /\ DOMAIN a \subseteq Keys
           /\ \A k \in DOMAIN a : a[k] \in [since : Heights, deadline : Durations]
BY DEF Anchors

\* The time an honest voter grants is a number.
LEMMA MinimumType ==
    ASSUME NEW a \in Anchors, NEW k \in DOMAIN a
    PROVE  minimum(a[k]) \in Int
<1>1. a[k] \in [since : Heights, deadline : Durations]
  BY AnchorsType
<1>2. a[k].deadline \in Int
  <2>1. a[k].deadline \in Durations
    BY <1>1
  <2>2. \A d \in Durations : d \in Nat
    BY TimesAssumption
  <2>3. a[k].deadline \in Nat
    BY <2>1, <2>2
  <2> QED
    BY <2>3
<1> QED
  BY <1>2, TimesAssumption DEF minimum, longer

\* The pending timers after an entry are anchors, new ones of its height.
LEMMA AdvanceType ==
    ASSUME NEW a \in Anchors, NEW h \in Heights, NEW pending \in Pending
    PROVE  LET next == advanceTimerAnchors(h, pending, a) IN
           /\ next \in Anchors
           /\ \A k \in DOMAIN next :
                 \/ k \in DOMAIN a /\ next[k] = a[k]
                 \/ next[k].since = h
<1> DEFINE next == advanceTimerAnchors(h, pending, a)
<1>1. PICK open \in SUBSET Keys : pending \in [open -> Durations]
  BY DEF Pending
<1>2. DOMAIN next = open
  BY <1>1 DEF advanceTimerAnchors
<1>3. \A k \in open :
         /\ next[k] \in [since : Heights, deadline : Durations]
         /\ \/ k \in DOMAIN a /\ next[k] = a[k]
            \/ next[k].since = h
  BY <1>1, AnchorsType DEF advanceTimerAnchors
<1>4. next \in [open -> [since : Heights, deadline : Durations]]
  <2>1. next = [k \in open |-> next[k]]
    BY <1>1 DEF advanceTimerAnchors
  <2> QED
    BY <2>1, <1>3
<1> QED
  BY <1>2, <1>3, <1>4 DEF Anchors

\* An observer that advances keeps what it watches and begins the rest at zero.
LEMMA ObserverType ==
    ASSUME NEW a \in Anchors, NEW observer
    PROVE  LET next == advance(observer, a) IN
           /\ DOMAIN next = DOMAIN a
           /\ \A k \in DOMAIN a :
                 \/ k \in DOMAIN observer /\ observer[k].anchor = a[k] /\ next[k] = observer[k]
                 \/ next[k].anchor = a[k] /\ next[k].elapsed = 0
BY DEF advance
-----------------------------------------------------------------------------
LEMMA InitInv == Init => IndInv
<1> SUFFICES ASSUME Init
             PROVE  IndInv
  OBVIOUS
<1>1. PICK pending \in Pending :
        LET first == advanceTimerAnchors(1, pending, nothing) IN
        /\ log = <<first>>
        /\ seen = [v \in Honest |-> advance(nothing, first)]
  BY DEF Init
<1> DEFINE first == advanceTimerAnchors(1, pending, nothing)
<1>2. 1 \in Heights
  BY TimesAssumption DEF Heights
<1>3. nothing \in Anchors /\ DOMAIN nothing = {}
  <2>1. nothing \in [{} -> [since : Heights, deadline : Durations]]
    BY DEF nothing
  <2> QED
    BY <2>1 DEF Anchors, nothing
<1>4. first \in Anchors /\ \A k \in DOMAIN first : first[k].since = 1
  BY <1>2, <1>3, AdvanceType
<1> HIDE DEF first
<1>5. log = <<first>> /\ log \in Seq(Anchors) /\ Len(log) = 1 /\ log[1] = first
  BY <1>1, <1>4 DEF first
<1>6. /\ DOMAIN seen = Honest
      /\ \A v \in Honest :
            /\ DOMAIN seen[v] = DOMAIN first
            /\ \A k \in DOMAIN first :
                  seen[v][k].anchor = first[k] /\ seen[v][k].elapsed = 0
  BY <1>1, <1>3, <1>4, ObserverType DEF first
<1>7. /\ age = [h \in Heights |-> 0] /\ head = [v \in Honest |-> 1]
      /\ proposed = {} /\ votes = [v \in Honest |-> {}]
  BY DEF Init
<1>8. TypeOK
  BY <1>2, <1>5, <1>6, <1>7 DEF TypeOK
<1>9. Anchored
  BY <1>4, <1>5 DEF Anchored
<1>10. ObservedLate
  BY <1>2, <1>4, <1>5, <1>6, <1>7 DEF ObservedLate, timers
<1>11. VotedLate
  BY <1>7 DEF VotedLate
<1> QED
  BY <1>8, <1>9, <1>10, <1>11 DEF IndInv

\* The anchors of the last certified state.
LEMMA TimersType ==
    ASSUME TypeOK, Anchored
    PROVE  /\ timers \in Anchors
           /\ \A k \in DOMAIN timers : timers[k].since \in 1..Len(log) /\ timers[k].since \in Heights
<1>1. Len(log) \in 1..Len(log) /\ Len(log) \in Heights /\ timers \in Anchors
  BY DEF TypeOK, timers, Heights
<1>2. \A k \in DOMAIN timers : timers[k].since \in Heights
  BY <1>1, AnchorsType
<1> QED
  BY <1>1, <1>2 DEF Anchored, timers

\* Time passes: every age grows with what is observed of it.
LEMMA TickStep == IndInv /\ Tick => IndInv'
<1> SUFFICES ASSUME IndInv, Tick
             PROVE  IndInv'
  OBVIOUS
<1>1. /\ log' = log /\ head' = head /\ proposed' = proposed /\ votes' = votes
      /\ timers' = timers
  BY DEF Tick, timers
<1>2. TypeOK /\ Anchored /\ ObservedLate /\ VotedLate
  BY DEF IndInv
<1>3. age' \in [Heights -> Nat]
  BY <1>2, OlderIsMonotone DEF Tick, TypeOK
<1>4. \A k \in DOMAIN timers : age'[timers[k].since] = older(age[timers[k].since])
  BY <1>2, TimersType DEF Tick
<1>5. \A v \in Honest :
        /\ DOMAIN seen'[v] = DOMAIN seen[v]
        /\ \A k \in DOMAIN seen[v] :
              /\ seen'[v][k].anchor = seen[v][k].anchor
              /\ seen'[v][k].elapsed = older(seen[v][k].elapsed)
  <2> SUFFICES ASSUME NEW v \in Honest
               PROVE  /\ DOMAIN seen'[v] = DOMAIN seen[v]
                      /\ \A k \in DOMAIN seen[v] :
                            /\ seen'[v][k].anchor = seen[v][k].anchor
                            /\ seen'[v][k].elapsed = older(seen[v][k].elapsed)
    OBVIOUS
  <2>1. seen'[v] = [k \in DOMAIN seen[v] |->
                       [seen[v][k] EXCEPT !.elapsed = older(seen[v][k].elapsed)]]
    BY DEF Tick
  <2> QED
    BY <2>1
<1>6. TypeOK'
  <2>1. \A v \in Honest : \A k \in DOMAIN seen[v] : older(seen[v][k].elapsed) \in Nat
    <3> SUFFICES ASSUME NEW v \in Honest, NEW k \in DOMAIN seen[v]
                 PROVE  older(seen[v][k].elapsed) \in Nat
      OBVIOUS
    <3>1. seen[v][k].elapsed \in Nat
      BY <1>2 DEF TypeOK
    <3> QED
      BY <3>1, OlderIsMonotone
  <2>2. DOMAIN seen' = Honest /\ \A v \in Honest :
          /\ DOMAIN seen'[v] \subseteq DOMAIN log[head[v]]
          /\ \A k \in DOMAIN seen'[v] :
                seen'[v][k].anchor = log[head[v]][k] /\ seen'[v][k].elapsed \in Nat
    BY <1>2, <1>5, <2>1 DEF TypeOK, Tick
  <2> QED
    BY <1>1, <1>2, <1>3, <2>2 DEF TypeOK
<1>7. Anchored'
  BY <1>1, <1>2 DEF Anchored
<1>8. ObservedLate'
  <2> SUFFICES ASSUME NEW v \in Honest, NEW k \in DOMAIN seen[v],
                      k \in DOMAIN timers, timers[k] = seen[v][k].anchor
               PROVE  older(seen[v][k].elapsed) <= older(age[timers[k].since])
    BY <1>1, <1>4, <1>5 DEF ObservedLate
  <2>1. /\ seen[v][k].elapsed \in Nat /\ age[timers[k].since] \in Nat
        /\ seen[v][k].elapsed <= age[timers[k].since]
    BY <1>2, TimersType DEF TypeOK, ObservedLate
  <2> QED
    BY <2>1, OlderIsMonotone
<1>9. VotedLate'
  <2> SUFFICES ASSUME NEW v \in Honest, NEW k \in DOMAIN timers,
                      head[v] = Len(log), k \in votes[v]
               PROVE  older(age[timers[k].since]) >= minimum(timers[k])
    BY <1>1, <1>4 DEF VotedLate
  <2>1. minimum(timers[k]) \in Int
    BY <1>2, TimersType, MinimumType
  <2>2. age[timers[k].since] \in Nat /\ age[timers[k].since] >= minimum(timers[k])
    BY <1>2, TimersType DEF TypeOK, VotedLate
  <2>3. age[timers[k].since] <= older(age[timers[k].since]) /\ older(age[timers[k].since]) \in Nat
    BY <2>2, OlderIsMonotone
  <2> QED
    BY <2>1, <2>2, <2>3
<1> QED
  BY <1>6, <1>7, <1>8, <1>9 DEF IndInv

\* A new entry: timers keep their anchor or get the entry's own height.
LEMMA CertifyStep ==
    ASSUME NEW pending \in Pending, IndInv, Certify(pending)
    PROVE  IndInv'
<1> DEFINE n == Len(log)
           next == advanceTimerAnchors(n + 1, pending, timers)
<1>1. TypeOK /\ Anchored /\ ObservedLate /\ VotedLate
  BY DEF IndInv
<1>2. n \in Nat /\ n + 1 \in Heights /\ n \in 1..n
  BY <1>1, TimesAssumption DEF TypeOK, Certify, Heights
<1>3. timers \in Anchors
  BY <1>1, TimersType
<1>4. /\ next \in Anchors
      /\ \A k \in DOMAIN next :
            \/ k \in DOMAIN timers /\ next[k] = timers[k]
            \/ next[k].since = n + 1
  BY <1>2, <1>3, AdvanceType
<1>5. /\ log' = Append(log, next) /\ proposed' = {}
      /\ head' = head /\ seen' = seen /\ votes' = votes
      /\ age' = [h \in Heights |-> IF h \in {next[k].since : k \in DOMAIN next} THEN age[h] ELSE 0]
  BY DEF Certify
<1> HIDE DEF next
<1>6. /\ log' \in Seq(Anchors) /\ Len(log') = n + 1 /\ log'[n + 1] = next
      /\ \A h \in 1..n : log'[h] = log[h]
      /\ timers' = next
  BY <1>1, <1>2, <1>4, <1>5 DEF TypeOK, timers
<1>7. \A v \in Honest : head[v] \in 1..n /\ log'[head'[v]] = log[head[v]]
  BY <1>1, <1>5, <1>6 DEF TypeOK
<1>8. age' \in [Heights -> Nat]
  BY <1>1, <1>5 DEF TypeOK
<1>9. TypeOK'
  BY <1>1, <1>2, <1>5, <1>6, <1>7, <1>8 DEF TypeOK
<1>10. Anchored'
  <2> SUFFICES ASSUME NEW h \in 1..n + 1, NEW k \in DOMAIN log'[h]
               PROVE  /\ log'[h][k].since \in 1..h
                      /\ \A g \in log'[h][k].since..h :
                            k \in DOMAIN log'[g] /\ log'[g][k] = log'[h][k]
    BY <1>6 DEF Anchored
  <2>1. CASE h \in 1..n
    BY <1>1, <1>2, <1>6, <2>1 DEF Anchored
  <2>2. CASE h = n + 1 /\ next[k].since = n + 1
    BY <1>2, <1>6, <2>2
  <2>3. CASE h = n + 1 /\ k \in DOMAIN timers /\ next[k] = timers[k]
    <3>1. /\ timers[k].since \in 1..n
          /\ \A g \in timers[k].since..n : k \in DOMAIN log[g] /\ log[g][k] = timers[k]
      BY <1>1, <1>2, <2>3 DEF Anchored, timers
    <3> QED
      BY <1>2, <1>6, <2>3, <3>1
  <2> QED
    BY <1>2, <1>4, <1>6, <2>1, <2>2, <2>3
<1>11. ObservedLate'
  <2> SUFFICES ASSUME NEW v \in Honest, NEW k \in DOMAIN seen[v],
                      k \in DOMAIN next, next[k] = seen[v][k].anchor
               PROVE  seen[v][k].elapsed <= age'[next[k].since]
    BY <1>5, <1>6 DEF ObservedLate
  <2>1. next[k].since \in 1..n
    BY <1>1, <1>7 DEF TypeOK, Anchored
  <2>2. k \in DOMAIN timers /\ next[k] = timers[k]
    BY <1>2, <1>4, <2>1
  <2>3. age'[next[k].since] = age[next[k].since]
    BY <1>1, <1>5, <2>2, TimersType
  <2> QED
    BY <1>1, <2>2, <2>3 DEF ObservedLate
<1>12. VotedLate'
  BY <1>2, <1>5, <1>6, <1>7 DEF VotedLate
<1> QED
  BY <1>9, <1>10, <1>11, <1>12 DEF IndInv

\* A proposal changes nothing that the argument is about.
LEMMA ProposeStep ==
    ASSUME NEW v, NEW k, IndInv, ProposeTimeout(v, k)
    PROVE  IndInv'
<1>1. /\ log' = log /\ age' = age /\ head' = head /\ seen' = seen /\ votes' = votes
      /\ timers' = timers /\ proposed' \subseteq DOMAIN timers
  BY DEF ProposeTimeout, timers, IndInv, TypeOK
<1>2. TypeOK /\ Anchored /\ ObservedLate /\ VotedLate
  BY DEF IndInv
<1>3. TypeOK'
  BY <1>1, <1>2 DEF TypeOK
<1>4. Anchored' /\ ObservedLate' /\ VotedLate'
  BY <1>1, <1>2 DEF Anchored, ObservedLate, VotedLate
<1> QED
  BY <1>3, <1>4 DEF IndInv

\* A vote comes after the voter watched the timer for long enough.
LEMMA VoteStep ==
    ASSUME NEW v \in Honest, NEW k \in Keys, IndInv, VoteTimeout(v, k)
    PROVE  IndInv'
<1>1. /\ log' = log /\ age' = age /\ head' = head /\ seen' = seen /\ proposed' = proposed
      /\ timers' = timers
      /\ votes' = [votes EXCEPT ![v] = @ \cup {k}]
      /\ head[v] = Len(log) /\ k \in DOMAIN timers /\ canVote(v, k)
  BY DEF VoteTimeout, timers, IndInv, TypeOK
<1>2. TypeOK /\ Anchored /\ ObservedLate /\ VotedLate
  BY DEF IndInv
<1>3. age[timers[k].since] >= minimum(timers[k])
  <2>1. k \in DOMAIN seen[v] /\ seen[v][k].anchor = timers[k]
    BY <1>1, <1>2 DEF canVote, TypeOK, timers
  <2>2. /\ seen[v][k].elapsed \in Nat /\ age[timers[k].since] \in Nat
        /\ seen[v][k].elapsed <= age[timers[k].since]
        /\ minimum(timers[k]) \in Int
    BY <1>1, <1>2, <2>1, TimersType, MinimumType DEF ObservedLate, TypeOK
  <2>3. seen[v][k].elapsed >= minimum(timers[k])
    BY <1>1 DEF canVote
  <2> QED
    BY <2>2, <2>3
<1>4. votes' \in [Honest -> SUBSET Keys]
  BY <1>1, <1>2 DEF TypeOK
<1>5. TypeOK' /\ Anchored' /\ ObservedLate'
  BY <1>1, <1>2, <1>4 DEF TypeOK, Anchored, ObservedLate
<1>6. VotedLate'
  BY <1>1, <1>2, <1>3 DEF VotedLate, TypeOK
<1> QED
  BY <1>5, <1>6 DEF IndInv

\* A voter that replaces what it watches keeps only what stays the same.
LEMMA ObserveStep ==
    ASSUME IndInv, log' = log, age' = age, proposed' = proposed,
           NEW v \in Honest, NEW h \in 1..Len(log), NEW observer,
           head' = [head EXCEPT ![v] = h],
           seen' = [seen EXCEPT ![v] = advance(observer, log[h])],
           \/ observer = seen[v]
           \/ observer = nothing,
           \/ votes' = [votes EXCEPT ![v] = {}]
           \/ votes' = votes /\ h = head[v]
    PROVE  IndInv'
<1>1. TypeOK /\ Anchored /\ ObservedLate /\ VotedLate
  BY DEF IndInv
<1>2. timers' = timers
  BY DEF timers
<1>3. log[h] \in Anchors
  BY <1>1 DEF TypeOK
<1>4. DOMAIN nothing = {}
  BY DEF nothing
<1> DEFINE next == advance(observer, log[h])
<1>5. /\ DOMAIN next = DOMAIN log[h]
      /\ \A k \in DOMAIN next :
            \/ k \in DOMAIN seen[v] /\ next[k].anchor = log[h][k] /\ next[k] = seen[v][k]
            \/ next[k].anchor = log[h][k] /\ next[k].elapsed = 0
  BY <1>3, <1>4, ObserverType
<1>6. /\ DOMAIN seen' = Honest /\ seen'[v] = next
      /\ \A u \in Honest : u # v => seen'[u] = seen[u] /\ head'[u] = head[u]
      /\ head' \in [Honest -> 1..Len(log)] /\ head'[v] = h
  BY <1>1 DEF TypeOK
<1>7. /\ votes' \in [Honest -> SUBSET Keys]
      /\ \A u \in Honest : votes'[u] = votes[u] \/ votes'[u] = {}
      /\ votes'[v] = {} \/ (votes'[v] = votes[v] /\ head[v] = h)
  BY <1>1 DEF TypeOK
<1>8. \A k \in DOMAIN seen[v] : seen[v][k].elapsed \in Nat
  BY <1>1 DEF TypeOK
<1> HIDE DEF next
<1>9. \A k \in DOMAIN next : next[k].anchor = log[h][k] /\ next[k].elapsed \in Nat
  BY <1>5, <1>8
<1>10. \A u \in Honest :
        /\ DOMAIN seen'[u] \subseteq DOMAIN log[head'[u]]
        /\ \A k \in DOMAIN seen'[u] :
              seen'[u][k].anchor = log[head'[u]][k] /\ seen'[u][k].elapsed \in Nat
  BY <1>1, <1>5, <1>6, <1>9 DEF TypeOK
<1>11. TypeOK'
  BY <1>1, <1>2, <1>6, <1>10, <1>7 DEF TypeOK
<1>12. Anchored'
  BY <1>1 DEF Anchored
<1>13. ObservedLate'
  <2> SUFFICES ASSUME NEW u \in Honest, NEW k \in DOMAIN seen'[u],
                      k \in DOMAIN timers, timers[k] = seen'[u][k].anchor
               PROVE  seen'[u][k].elapsed <= age[timers[k].since]
    BY <1>2 DEF ObservedLate
  <2>1. age[timers[k].since] \in Nat
    BY <1>1, TimersType DEF TypeOK
  <2>2. CASE u # v \/ (u = v /\ k \in DOMAIN seen[v] /\ next[k] = seen[v][k])
    BY <1>1, <1>6, <2>2 DEF ObservedLate
  <2>3. CASE u = v /\ next[k].elapsed = 0
    BY <1>6, <2>1, <2>3
  <2> QED
    BY <1>5, <1>6, <2>2, <2>3
<1>14. VotedLate'
  BY <1>1, <1>2, <1>6, <1>7 DEF VotedLate
<1> QED
  BY <1>11, <1>12, <1>13, <1>14 DEF IndInv

\* The invariant is kept by every step.
LEMMA NextInv == IndInv /\ [Next]_vars => IndInv'
<1> SUFFICES ASSUME IndInv, [Next]_vars
             PROVE  IndInv'
  OBVIOUS
<1>1. CASE Tick
  BY <1>1, TickStep
<1>2. ASSUME NEW pending \in Pending, Certify(pending)
      PROVE  IndInv'
  BY <1>2, CertifyStep
<1>3. CASE CertifyEntry
  BY <1>2, <1>3 DEF CertifyEntry
<1>4. ASSUME NEW k \in Keys, CertifyTimeout(k)
      PROVE  IndInv'
  BY <1>3, <1>4 DEF CertifyTimeout
<1>5. ASSUME NEW v \in Voters, NEW k \in Keys, ProposeTimeout(v, k)
      PROVE  IndInv'
  BY <1>5, ProposeStep
<1>6. ASSUME NEW v \in Honest, NEW k \in Keys, VoteTimeout(v, k)
      PROVE  IndInv'
  BY <1>6, VoteStep
<1>7. ASSUME NEW v \in Honest, Install(v)
      PROVE  IndInv'
  <2>1. PICK h \in head[v] + 1..Len(log) :
          /\ head' = [head EXCEPT ![v] = h]
          /\ seen' = [seen EXCEPT ![v] = advance(seen[v], log[h])]
          /\ votes' = [votes EXCEPT ![v] = {}]
          /\ log' = log /\ age' = age /\ proposed' = proposed
    BY <1>7 DEF Install
  <2>2. h \in 1..Len(log)
    BY <2>1 DEF IndInv, TypeOK, Heights
  <2> QED
    BY <2>1, <2>2, ObserveStep
<1>8. ASSUME NEW v \in Honest, Restart(v)
      PROVE  IndInv'
  <2>1. /\ seen' = [seen EXCEPT ![v] = advance(nothing, log[head[v]])]
        /\ head' = [head EXCEPT ![v] = head[v]] /\ head[v] \in 1..Len(log)
        /\ log' = log /\ age' = age /\ proposed' = proposed /\ votes' = votes
    BY <1>8 DEF Restart, IndInv, TypeOK
  <2> QED
    BY <2>1, ObserveStep
<1>9. CASE UNCHANGED vars
  BY <1>9 DEF vars, IndInv, TypeOK, Anchored, ObservedLate, VotedLate, timers
<1> QED
  BY <1>1, <1>3, <1>4, <1>5, <1>6, <1>7, <1>8, <1>9 DEF Next

\* The invariant holds in every reachable state.
THEOREM Invariance == Spec => []IndInv
BY InitInv, NextInv, PTL DEF Spec

\* The types of the certified timers, the observers and the votes.
THEOREM TypeCorrect == Spec => []TypeOK
BY Invariance, PTL DEF IndInv

\* No seat is timed out before it has been pending, in every certified state,
\* for as long as an honest voter grants it.
THEOREM NobodyIsRushed == Spec => TimedOutHadTheirTime
<1>1. ASSUME IndInv, NEW k \in Keys, CertifyTimeout(k)
      PROVE  LET anchor == timers[k] IN
             /\ age[anchor.since] >= minimum(anchor)
             /\ \A h \in anchor.since..Len(log) :
                   k \in DOMAIN log[h] /\ log[h][k] = anchor
  <2>1. k \in DOMAIN timers /\ TypeOK /\ Anchored /\ VotedLate
    BY <1>1 DEF CertifyTimeout, IndInv
  <2>2. PICK Q \in Quorums : Q \subseteq SignedBy(k)
    BY <1>1 DEF CertifyTimeout
  <2>3. PICK v \in Q : v \in Honest
    BY HonestSigner
  <2>4. head[v] = Len(log) /\ k \in votes[v]
    BY <2>2, <2>3 DEF SignedBy, Honest
  <2>5. age[timers[k].since] >= minimum(timers[k])
    BY <2>1, <2>3, <2>4 DEF VotedLate
  <2>6. Len(log) \in 1..Len(log)
    BY <2>1 DEF TypeOK, Heights
  <2> QED
    BY <2>1, <2>5, <2>6 DEF Anchored, timers
<1>2. IndInv /\ [Next]_vars =>
        [\A k \in Keys : CertifyTimeout(k) =>
          LET anchor == timers[k] IN
          /\ age[anchor.since] >= minimum(anchor)
          /\ \A h \in anchor.since..Len(log) :
                k \in DOMAIN log[h] /\ log[h][k] = anchor]_vars
  BY <1>1
<1> QED
  BY <1>2, Invariance, PTL DEF Spec, TimedOutHadTheirTime

-----------------------------------------------------------------------------
(***************************************************************************)
(* The game, for every number of seats, every set of card kinds, every     *)
(* board, bank and first hands.                                            *)
(*                                                                         *)
(* The argument: between two functions every total is the sum of a third   *)
(* one, so one round of normalizeBounds makes every least and greatest     *)
(* count that of a possible hand, and canAfford asks just whether such a   *)
(* hand exists; each way to gain, lose or open cards keeps the hand among  *)
(* the possible ones.  The rest is that the steps use them so: the phases  *)
(* and the offers name seats that differ, and pays demands of a hand what  *)
(* the bounds do not promise.                                              *)
(***************************************************************************)

-----------------------------------------------------------------------------
(***************************************************************************)
(* Sums.                                                                   *)
(***************************************************************************)

\* A nonempty set of natural numbers has a least element.
LEMMA LeastExists ==
  ASSUME NEW T, T \subseteq Nat, T # {}
  PROVE  \E x \in T : \A y \in T : x <= y
<1>1. \A x, y \in Nat : x < y => <<x, y>> \in OpToRel(<, Nat)
  BY DEF OpToRel
<1>2. IsWellFoundedOn(OpToRel(<, Nat), Nat)
  BY NatLessThanWellFounded, Zenon
<1>3. PICK R : /\ IsWellFoundedOn(R, Nat)
               /\ \A x, y \in Nat : x < y => <<x, y>> \in R
  BY ONLY <1>1, <1>2, Zenon
<1>4. IsWellFoundedOn(R, Nat)
  BY ONLY <1>3, Zenon
<1>5. \E x \in T : \A y \in T : ~ (<<y, x>> \in R)
  BY ONLY <1>4, T \subseteq Nat, T # {}, WFMin, Zenon
<1>6. PICK x \in T : \A y \in T : ~ (<<y, x>> \in R)
  BY ONLY <1>5, Zenon
<1>7. \A y \in T : ~(y < x)
  BY <1>3, <1>6
<1> QED
  BY <1>7

\* A nonempty set of subsets of a finite set has a minimal element: what holds
\* of a set when it holds of its proper subsets, holds of every finite set.
LEMMA MinimalExists ==
  ASSUME NEW S, IsFiniteSet(S), NEW T, T \subseteq SUBSET S, T # {}
  PROVE  \E s \in T : \A t \in T : t \subseteq s => t = s
<1> DEFINE N == {n \in Nat : \E s \in T : Cardinality(s) = n}
<1>1. \A s \in T : IsFiniteSet(s) /\ Cardinality(s) \in Nat
  BY FS_Subset, FS_CardinalityType
<1>2. N \subseteq Nat /\ N # {}
  BY <1>1
<1>3. PICK n \in N : \A m \in N : n <= m
  BY ONLY <1>2, LeastExists
<1>4. PICK s \in T : Cardinality(s) = n
  BY <1>3
<1>5. ASSUME NEW t \in T, t \subseteq s PROVE t = s
  <2>1. IsFiniteSet(s) /\ Cardinality(t) \in N /\ Cardinality(t) \in Nat /\ n \in Nat
    BY <1>1, <1>3
  <2>2. Cardinality(t) <= Cardinality(s) /\ (Cardinality(s) = Cardinality(t) => s = t)
    BY <1>5, <2>1, FS_Subset
  <2> QED
    BY <1>3, <1>4, <2>1, <2>2
<1> QED
  BY <1>5

\* The element that a sum takes out of a set next.
pick(s) == CHOOSE x \in s : TRUE

Sums(g, f, D) == g = [s \in D |-> IF s = {} THEN 0 ELSE f[pick(s)] + g[s \ {pick(s)}]]

LEMMA PickFacts ==
  ASSUME NEW s, s # {}
  PROVE  pick(s) \in s /\ s \ {pick(s)} \subseteq s /\ s \ {pick(s)} # s
BY DEF pick

\* What the loop of a sum knows of every set on its way.
partial(f, S) == CHOOSE h : Sums(h, f, SUBSET S)

LEMMA SumLoop ==
  ASSUME NEW S, IsFiniteSet(S), NEW f
  PROVE  /\ SumFunctionOnSet(f, S) = partial(f, S)[S] /\ partial(f, S)[{}] = 0
         /\ \A s \in SUBSET S : s # {} =>
               partial(f, S)[s] = f[pick(s)] + partial(f, S)[s \ {pick(s)}]
<1> DEFINE g == partial(f, S)
<1>1. SumFunctionOnSet(f, S) = g[S]
  BY DEF SumFunctionOnSet, FoldFunctionOnSet, MapThenFoldSet, Sums, pick, partial
<1> DEFINE D(n) == {s \in SUBSET S : Cardinality(s) <= n}
           T == {n \in Nat : ~ \E h : Sums(h, f, D(n))}
<1>2. \A s \in SUBSET S : IsFiniteSet(s) /\ Cardinality(s) \in Nat
  BY FS_Subset, FS_CardinalityType
<1>3. T = {}
  <2> SUFFICES ASSUME T # {} PROVE FALSE
    OBVIOUS
  <2>1. T \subseteq Nat
    OBVIOUS
  <2> HIDE DEF T
  <2>2. PICK n \in T : \A m \in T : n <= m
    BY ONLY <2>1, T # {}, LeastExists
  <2>3. n \in Nat
    BY <2>1
  <2>4. CASE n = 0
    <3> DEFINE h == [s \in D(0) |-> 0]
    <3>1. \A s \in D(0) : s = {}
      BY <1>2, FS_EmptySet
    <3>2. Sums(h, f, D(0))
      BY <3>1 DEF Sums
    <3> QED
      BY <2>2, <2>4, <3>2 DEF T
  <2>5. CASE n # 0
    <3>1. n - 1 \in Nat /\ n - 1 \notin T
      BY <2>2, <2>3, <2>5
    <3>2. PICK h : Sums(h, f, D(n - 1))
      BY <3>1 DEF T
    <3> DEFINE k == [s \in D(n) |-> IF s = {} THEN 0 ELSE f[pick(s)] + h[s \ {pick(s)}]]
    <3>3. ASSUME NEW s \in D(n), s # {}
          PROVE  s \ {pick(s)} \in D(n - 1) /\ s \ {pick(s)} \in D(n)
      <4>1. IsFiniteSet(s) /\ Cardinality(s) \in Nat /\ Cardinality(s) <= n /\ s \in SUBSET S
        BY <1>2
      <4>2. Cardinality(s \ {pick(s)}) = Cardinality(s) - 1 /\ s \ {pick(s)} \in SUBSET S
        BY <3>3, <4>1, PickFacts, FS_RemoveElement
      <4> QED
        BY <2>3, <4>1, <4>2
    <3>4. \A s \in D(n - 1) : s \in D(n)
      BY <1>2, <2>3
    <3>5. \A s \in D(n - 1) : h[s] = k[s]
      BY <3>2, <3>4 DEF Sums
    <3>6. ASSUME NEW s \in D(n)
          PROVE  k[s] = IF s = {} THEN 0 ELSE f[pick(s)] + k[s \ {pick(s)}]
      BY <3>3, <3>5
    <3> DEFINE u == [s \in D(n) |-> IF s = {} THEN 0 ELSE f[pick(s)] + k[s \ {pick(s)}]]
    <3>7. k = u
      BY <3>6
    <3> HIDE DEF k
    <3>8. Sums(k, f, D(n))
      BY <3>7 DEF Sums
    <3> QED
      BY <2>2, <3>8 DEF T
  <2> QED
    BY <2>4, <2>5
<1>4. D(Cardinality(S)) = SUBSET S /\ Cardinality(S) \in Nat
  BY FS_Subset, FS_CardinalityType
<1>5. \E h : Sums(h, f, SUBSET S)
  BY <1>3, <1>4
<1>6. Sums(g, f, SUBSET S)
  BY <1>5 DEF partial
<1> HIDE DEF g
<1>7. \A s \in SUBSET S : g[s] = IF s = {} THEN 0 ELSE f[pick(s)] + g[s \ {pick(s)}]
  BY <1>6 DEF Sums
<1> QED
  BY <1>1, <1>7 DEF g

LEMMA SumInt ==
  ASSUME NEW S, IsFiniteSet(S), NEW f, \A x \in S : f[x] \in Int
  PROVE  /\ SumFunctionOnSet(f, S) \in Int
         /\ (\A x \in S : f[x] \in Nat) => SumFunctionOnSet(f, S) \in Nat
<1> DEFINE g == partial(f, S)
<1>1. /\ SumFunctionOnSet(f, S) = g[S] /\ g[{}] = 0
      /\ \A s \in SUBSET S : s # {} => g[s] = f[pick(s)] + g[s \ {pick(s)}]
  BY SumLoop
<1> HIDE DEF g
<1> DEFINE T == {s \in SUBSET S : ~(g[s] \in Int /\ ((\A x \in S : f[x] \in Nat) => g[s] \in Nat))}
<1>2. T = {}
  <2> SUFFICES ASSUME T # {} PROVE FALSE
    OBVIOUS
  <2>0. T \subseteq SUBSET S
    OBVIOUS
  <2> HIDE DEF T
  <2>1. PICK s \in T : \A t \in T : t \subseteq s => t = s
    BY ONLY <2>0, T # {}, IsFiniteSet(S), MinimalExists
  <2>2. s \in SUBSET S /\ s # {}
    BY <1>1, <2>0 DEF T
  <2>3. s \ {pick(s)} \in SUBSET S /\ s \ {pick(s)} \notin T /\ pick(s) \in S
    BY <2>1, <2>2, PickFacts
  <2>4. g[s] = f[pick(s)] + g[s \ {pick(s)}] /\ f[pick(s)] \in Int
    BY <1>1, <2>2, <2>3
  <2>5. /\ g[s \ {pick(s)}] \in Int
        /\ (\A x \in S : f[x] \in Nat) => g[s \ {pick(s)}] \in Nat /\ f[pick(s)] \in Nat
    BY <2>3 DEF T
  <2>6. g[s] \in Int /\ ((\A x \in S : f[x] \in Nat) => g[s] \in Nat)
    BY ONLY <2>4, <2>5
  <2> QED
    BY <2>2, <2>6 DEF T
<1> QED
  BY <1>1, <1>2

LEMMA SumAdds ==
  ASSUME NEW S, IsFiniteSet(S), NEW f, NEW d, NEW e,
         \A x \in S : f[x] \in Int /\ d[x] \in Int /\ e[x] = f[x] + d[x]
  PROVE  SumFunctionOnSet(e, S) = SumFunctionOnSet(f, S) + SumFunctionOnSet(d, S)
<1> DEFINE g == partial(f, S)
           h == partial(d, S)
           k == partial(e, S)
<1>1. /\ SumFunctionOnSet(f, S) = g[S] /\ g[{}] = 0
      /\ \A s \in SUBSET S : s # {} => g[s] = f[pick(s)] + g[s \ {pick(s)}]
  BY SumLoop
<1>2. /\ SumFunctionOnSet(d, S) = h[S] /\ h[{}] = 0
      /\ \A s \in SUBSET S : s # {} => h[s] = d[pick(s)] + h[s \ {pick(s)}]
  BY SumLoop
<1>3. /\ SumFunctionOnSet(e, S) = k[S] /\ k[{}] = 0
      /\ \A s \in SUBSET S : s # {} => k[s] = e[pick(s)] + k[s \ {pick(s)}]
  BY SumLoop
<1> HIDE DEF g, h, k
<1> DEFINE T == {s \in SUBSET S : ~(g[s] \in Int /\ h[s] \in Int /\ k[s] = g[s] + h[s])}
<1>4. T = {}
  <2> SUFFICES ASSUME T # {} PROVE FALSE
    OBVIOUS
  <2>0. T \subseteq SUBSET S
    OBVIOUS
  <2> HIDE DEF T
  <2>1. PICK s \in T : \A t \in T : t \subseteq s => t = s
    BY ONLY <2>0, T # {}, IsFiniteSet(S), MinimalExists
  <2>2. s \in SUBSET S /\ s # {}
    <3>1. {} \notin T
      <4>1. g[{}] = 0 /\ h[{}] = 0 /\ k[{}] = 0
        BY <1>1, <1>2, <1>3
      <4> QED
        BY ONLY <4>1 DEF T
    <3> QED
      BY <2>0, <3>1
  <2>3. s \ {pick(s)} \in SUBSET S /\ s \ {pick(s)} \notin T /\ pick(s) \in S
    BY <2>1, <2>2, PickFacts
  <2>4. /\ g[s] = f[pick(s)] + g[s \ {pick(s)}] /\ h[s] = d[pick(s)] + h[s \ {pick(s)}]
        /\ k[s] = e[pick(s)] + k[s \ {pick(s)}]
    BY <1>1, <1>2, <1>3, <2>2
  <2>5. /\ g[s \ {pick(s)}] \in Int /\ h[s \ {pick(s)}] \in Int
        /\ k[s \ {pick(s)}] = g[s \ {pick(s)}] + h[s \ {pick(s)}]
    BY <2>3 DEF T
  <2> QED
    BY <2>3, <2>4, <2>5 DEF T
<1> QED
  BY <1>1, <1>2, <1>3, <1>4

LEMMA SumGrows ==
  ASSUME NEW S, IsFiniteSet(S), NEW f, NEW d,
         \A x \in S : f[x] \in Int /\ d[x] \in Int /\ f[x] <= d[x]
  PROVE  SumFunctionOnSet(f, S) <= SumFunctionOnSet(d, S)
<1> DEFINE e == [x \in S |-> d[x] - f[x]]
<1>1. \A x \in S : e[x] \in Nat /\ e[x] \in Int /\ d[x] = f[x] + e[x]
  OBVIOUS
<1> HIDE DEF e
<1>2. SumFunctionOnSet(e, S) \in Nat /\ SumFunctionOnSet(f, S) \in Int
  BY <1>1, SumInt
<1>3. SumFunctionOnSet(d, S) = SumFunctionOnSet(f, S) + SumFunctionOnSet(e, S)
  BY <1>1, SumAdds
<1> QED
  BY <1>2, <1>3

LEMMA SumOne ==
  ASSUME NEW S, IsFiniteSet(S), NEW f, NEW k, NEW n \in Int,
         \A x \in S : f[x] = IF x = k THEN n ELSE 0
  PROVE  SumFunctionOnSet(f, S) = IF k \in S THEN n ELSE 0
<1> DEFINE g == partial(f, S)
<1>1. /\ SumFunctionOnSet(f, S) = g[S] /\ g[{}] = 0
      /\ \A s \in SUBSET S : s # {} => g[s] = f[pick(s)] + g[s \ {pick(s)}]
  BY SumLoop
<1> HIDE DEF g
<1> DEFINE T == {s \in SUBSET S : g[s] # IF k \in s THEN n ELSE 0}
<1>2. T = {}
  <2> SUFFICES ASSUME T # {} PROVE FALSE
    OBVIOUS
  <2>0. T \subseteq SUBSET S
    OBVIOUS
  <2> HIDE DEF T
  <2>1. PICK s \in T : \A t \in T : t \subseteq s => t = s
    BY ONLY <2>0, T # {}, IsFiniteSet(S), MinimalExists
  <2>2. s \in SUBSET S /\ s # {}
    BY <1>1, <2>0 DEF T
  <2>3. s \ {pick(s)} \in SUBSET S /\ s \ {pick(s)} \notin T /\ pick(s) \in S /\ pick(s) \in s
    BY <2>1, <2>2, PickFacts
  <2>4. g[s] = f[pick(s)] + g[s \ {pick(s)}]
    BY <1>1, <2>2
  <2> QED
    BY <2>3, <2>4 DEF T
<1> QED
  BY <1>1, <1>2

-----------------------------------------------------------------------------
(***************************************************************************)
(* Hands between bounds.                                                   *)
(***************************************************************************)

Sum(f, S) == SumFunctionOnSet(f, S)

\* Every total between the sums of two functions is the sum of one between them.
LEMMA Between ==
  ASSUME NEW S, IsFiniteSet(S), NEW a \in [S -> Nat], NEW b \in [S -> Nat],
         \A x \in S : a[x] <= b[x], NEW t \in Nat, Sum(a, S) <= t, t <= Sum(b, S)
  PROVE  \E h \in [S -> Nat] : (\A x \in S : a[x] <= h[x] /\ h[x] <= b[x]) /\ Sum(h, S) = t
<1> DEFINE Has(n) == \E h \in [S -> Nat] :
                        (\A x \in S : a[x] <= h[x] /\ h[x] <= b[x]) /\ Sum(h, S) = n
           T == {n \in Nat : Sum(a, S) <= n /\ n <= Sum(b, S) /\ ~Has(n)}
<1>1. Sum(a, S) \in Nat /\ Sum(b, S) \in Nat
  BY SumInt DEF Sum
<1>2. T = {}
  <2> SUFFICES ASSUME T # {} PROVE FALSE
    OBVIOUS
  <2>1. T \subseteq Nat
    OBVIOUS
  <2> HIDE DEF T
  <2>2. PICK n \in T : \A m \in T : n <= m
    BY ONLY <2>1, T # {}, LeastExists
  <2> HIDE DEF Has
  <2>3. n \in Nat /\ Sum(a, S) <= n /\ n <= Sum(b, S) /\ ~Has(n)
    BY DEF T
  <2>4. Has(Sum(a, S))
    BY DEF Has
  <2>5. n # Sum(a, S)
    BY <2>3, <2>4
  <2>6. n - 1 \in Nat /\ Sum(a, S) <= n - 1 /\ n - 1 <= Sum(b, S) /\ n - 1 \notin T
    BY <1>1, <2>1, <2>2, <2>3, <2>5
  <2>7. Has(n - 1)
    BY <2>6 DEF T
  <2>8. PICK h \in [S -> Nat] : (\A x \in S : a[x] <= h[x] /\ h[x] <= b[x]) /\ Sum(h, S) = n - 1
    BY <2>7 DEF Has
  <2>9. PICK x \in S : h[x] < b[x]
    <3> SUFFICES ASSUME \A x \in S : ~(h[x] < b[x]) PROVE FALSE
      OBVIOUS
    <3>1. \A x \in S : b[x] \in Int /\ h[x] \in Int /\ b[x] <= h[x]
      OBVIOUS
    <3>2. Sum(b, S) <= Sum(h, S)
      BY <3>1, SumGrows DEF Sum
    <3> QED
      BY <1>1, <2>3, <2>8, <3>2
  <2> DEFINE one == [y \in S |-> IF y = x THEN 1 ELSE 0]
             k == [y \in S |-> h[y] + one[y]]
  <2>10. Sum(one, S) = 1
    <3>1. \A y \in S : one[y] = IF y = x THEN 1 ELSE 0
      OBVIOUS
    <3> HIDE DEF one
    <3> QED
      BY <3>1, SumOne DEF Sum
  <2>11. Sum(k, S) = Sum(h, S) + Sum(one, S)
    <3>1. \A y \in S : h[y] \in Int /\ one[y] \in Int /\ k[y] = h[y] + one[y]
      OBVIOUS
    <3> HIDE DEF one, k
    <3> QED
      BY <3>1, SumAdds DEF Sum
  <2>12. k \in [S -> Nat] /\ \A y \in S : a[y] <= k[y] /\ k[y] <= b[y]
    BY <2>8, <2>9
  <2> HIDE DEF k, one
  <2>13. Sum(k, S) = n
    BY <2>3, <2>8, <2>10, <2>11
  <2> QED
    BY <2>3, <2>12, <2>13 DEF Has
<1> QED
  BY <1>2

\* One value changes a sum by its difference.
LEMMA SumChange ==
  ASSUME NEW S, IsFiniteSet(S), NEW f, NEW g, NEW k \in S,
         \A x \in S : f[x] \in Int /\ g[x] \in Int /\ (x # k => g[x] = f[x])
  PROVE  Sum(g, S) = Sum(f, S) - f[k] + g[k] /\ Sum(f, S) \in Int
<1> DEFINE d == [x \in S |-> IF x = k THEN g[k] - f[k] ELSE 0]
<1>1. \A x \in S : f[x] \in Int /\ d[x] \in Int /\ g[x] = f[x] + d[x]
  OBVIOUS
<1>2. \A x \in S : d[x] = IF x = k THEN g[k] - f[k] ELSE 0
  OBVIOUS
<1>3. g[k] - f[k] \in Int /\ f[k] \in Int /\ g[k] \in Int
  OBVIOUS
<1> HIDE DEF d
<1>4. Sum(g, S) = Sum(f, S) + Sum(d, S)
  BY <1>1, SumAdds DEF Sum
<1>5. Sum(d, S) = g[k] - f[k]
  BY <1>2, <1>3, SumOne DEF Sum
<1>6. Sum(f, S) \in Int
  BY SumInt DEF Sum
<1> QED
  BY <1>3, <1>4, <1>5, <1>6

\* The same values have the same sum.
LEMMA SumSame ==
  ASSUME NEW S, IsFiniteSet(S), NEW f, NEW g, \A x \in S : f[x] \in Int /\ g[x] = f[x]
  PROVE  Sum(g, S) = Sum(f, S)
<1>1. Sum(g, S) <= Sum(f, S) /\ Sum(f, S) <= Sum(g, S) /\ Sum(f, S) \in Int /\ Sum(g, S) \in Int
  BY SumGrows, SumInt DEF Sum
<1> QED
  BY <1>1

-----------------------------------------------------------------------------
Counts == [Kinds -> Nat]

\* Bounds on the way to their normal form.
Loose == [total : Int, min : Counts, max : [Kinds -> Int]]

Within(h, b) ==
    /\ h \in Counts /\ Sum(h, Kinds) = b.total
    /\ \A k \in Kinds : b.min[k] <= h[k] /\ h[k] <= b.max[k]

Tight(b) ==
    \A k \in Kinds : /\ \E h \in Counts : Within(h, b) /\ h[k] = b.min[k]
                     /\ \E h \in Counts : Within(h, b) /\ h[k] = b.max[k]

LEMMA SumOfKinds ==
  ASSUME NEW f \in [Kinds -> Int]
  PROVE  SumFunction(f) = Sum(f, Kinds) /\ Sum(f, Kinds) \in Int
BY SumInt, ConfigsAssumption DEF SumFunction, Sum

LEMMA SumOfCounts ==
  ASSUME NEW f \in Counts
  PROVE  /\ SumFunction(f) = Sum(f, Kinds) /\ Sum(f, Kinds) \in Nat
         /\ \A k \in Kinds : f[k] <= Sum(f, Kinds)
<1>1. SumFunction(f) = Sum(f, Kinds) /\ Sum(f, Kinds) \in Nat
  BY SumInt, ConfigsAssumption DEF SumFunction, Sum, Counts
<1>2. ASSUME NEW k \in Kinds PROVE f[k] <= Sum(f, Kinds)
  <2> DEFINE one == [j \in Kinds |-> IF j = k THEN f[k] ELSE 0]
  <2>1. f[k] \in Int /\ \A j \in Kinds : one[j] = IF j = k THEN f[k] ELSE 0
    BY DEF Counts
  <2>2. \A j \in Kinds : one[j] \in Int /\ f[j] \in Int /\ one[j] <= f[j]
    BY DEF Counts
  <2> HIDE DEF one
  <2>3. Sum(one, Kinds) = f[k]
    BY <2>1, SumOne, ConfigsAssumption DEF Sum
  <2>4. Sum(one, Kinds) <= Sum(f, Kinds)
    BY <2>2, SumGrows, ConfigsAssumption DEF Sum
  <2> QED
    BY <2>3, <2>4
<1> QED
  BY <1>1, <1>2

LEMMA HandsAre ==
  ASSUME NEW b \in Loose, NEW h
  PROVE  h \in hands(b) <=> Within(h, b)
<1>1. h \in hands(b) => Within(h, b)
  <2> SUFFICES ASSUME h \in hands(b) PROVE Within(h, b)
    OBVIOUS
  <2>1. h \in [Kinds -> 0..b.total] /\ SumFunction(h) = b.total
    BY DEF hands
  <2>2. h \in Counts
    BY <2>1 DEF Counts, Loose
  <2> QED
    BY <2>1, <2>2, SumOfCounts DEF hands, Within
<1>2. Within(h, b) => h \in hands(b)
  <2> SUFFICES ASSUME Within(h, b) PROVE h \in hands(b)
    OBVIOUS
  <2>1. h \in Counts /\ SumFunction(h) = b.total /\ \A k \in Kinds : h[k] <= b.total
    BY SumOfCounts DEF Within
  <2>2. b.total \in Int
    BY DEF Loose
  <2>3. h \in [Kinds -> 0..b.total]
    BY <2>1, <2>2 DEF Counts
  <2> QED
    BY <2>1, <2>3 DEF hands, Within
<1> QED
  BY <1>1, <1>2

\* What a hand within the bounds leaves for one kind.
LEMMA WithinLeaves ==
  ASSUME NEW b \in Loose, NEW h, Within(h, b), NEW k \in Kinds
  PROVE  /\ b.total - (Sum(b.max, Kinds) - b.max[k]) <= h[k]
         /\ h[k] <= b.total - (Sum(b.min, Kinds) - b.min[k])
<1> DEFINE u == [h EXCEPT ![k] = b.max[k]]
           l == [h EXCEPT ![k] = b.min[k]]
<1>1. /\ h \in [Kinds -> Nat] /\ b.min \in [Kinds -> Nat] /\ b.max \in [Kinds -> Int] /\ b.total \in Int
      /\ IsFiniteSet(Kinds) /\ Sum(h, Kinds) = b.total
  BY ConfigsAssumption DEF Within, Loose, Counts
<1>2. \A j \in Kinds : /\ u[j] \in Int /\ b.max[j] \in Int /\ u[j] <= b.max[j] /\ h[j] \in Int
                       /\ l[j] \in Int /\ b.min[j] \in Int /\ b.min[j] <= l[j]
                       /\ (j # k => u[j] = h[j] /\ l[j] = h[j])
  BY <1>1 DEF Within
<1>3. u[k] = b.max[k] /\ l[k] = b.min[k]
  BY <1>1
<1> HIDE DEF u, l
<1>4. Sum(u, Kinds) = Sum(h, Kinds) - h[k] + u[k]
  <2>1. \A j \in Kinds : h[j] \in Int /\ u[j] \in Int /\ (j # k => u[j] = h[j])
    BY <1>2
  <2>2. IsFiniteSet(Kinds) /\ k \in Kinds
    BY <1>1
  <2> QED
    BY ONLY <2>1, <2>2, SumChange
<1>5. Sum(l, Kinds) = Sum(h, Kinds) - h[k] + l[k]
  <2>1. \A j \in Kinds : h[j] \in Int /\ l[j] \in Int /\ (j # k => l[j] = h[j])
    BY <1>2
  <2>2. IsFiniteSet(Kinds) /\ k \in Kinds
    BY <1>1
  <2> QED
    BY ONLY <2>1, <2>2, SumChange
<1>6. Sum(u, Kinds) <= Sum(b.max, Kinds)
  BY <1>1, <1>2, SumGrows DEF Sum
<1>7. Sum(b.min, Kinds) <= Sum(l, Kinds)
  BY <1>1, <1>2, SumGrows DEF Sum
<1>8. Sum(b.min, Kinds) \in Int /\ Sum(b.max, Kinds) \in Int
  BY <1>1, SumOfKinds
<1> QED
  BY <1>1, <1>2, <1>3, <1>4, <1>5, <1>6, <1>7, <1>8

LEMMA TightenedIs ==
  ASSUME NEW b \in Loose
  PROVE  /\ tightened(b) \in Loose /\ tightened(b).total = b.total
         /\ \A k \in Kinds :
              /\ tightened(b).min[k] = larger(b.min[k], b.total - (Sum(b.max, Kinds) - b.max[k]))
              /\ tightened(b).max[k] = smaller(b.max[k], b.total - (Sum(b.min, Kinds) - b.min[k]))
<1>1. /\ b.min \in [Kinds -> Nat] /\ b.min \in [Kinds -> Int] /\ b.max \in [Kinds -> Int] /\ b.total \in Int
  BY DEF Loose, Counts
<1>2. /\ SumFunction(b.min) = Sum(b.min, Kinds) /\ SumFunction(b.max) = Sum(b.max, Kinds)
      /\ Sum(b.min, Kinds) \in Int /\ Sum(b.max, Kinds) \in Int
  BY <1>1, SumOfKinds
<1>3. \A k \in Kinds :
        /\ larger(b.min[k], b.total - (Sum(b.max, Kinds) - b.max[k])) \in Nat
        /\ smaller(b.max[k], b.total - (Sum(b.min, Kinds) - b.min[k])) \in Int
  BY <1>1, <1>2 DEF larger, smaller
<1> QED
  BY <1>1, <1>2, <1>3 DEF tightened, Loose, Counts

\* A round leaves the same hands.
LEMMA SameHands ==
  ASSUME NEW b \in Loose, NEW h
  PROVE  Within(h, b) <=> Within(h, tightened(b))
<1>1. Within(h, b) => Within(h, tightened(b))
  <2> SUFFICES ASSUME Within(h, b) PROVE Within(h, tightened(b))
    OBVIOUS
  <2>1. \A k \in Kinds : /\ b.total - (Sum(b.max, Kinds) - b.max[k]) <= h[k]
                         /\ h[k] <= b.total - (Sum(b.min, Kinds) - b.min[k])
    BY WithinLeaves
  <2> QED
    BY <2>1, TightenedIs DEF Within, larger, smaller
<1>2. Within(h, tightened(b)) => Within(h, b)
  <2> SUFFICES ASSUME Within(h, tightened(b)) PROVE Within(h, b)
    OBVIOUS
  <2>1. /\ Sum(b.min, Kinds) \in Int /\ Sum(b.max, Kinds) \in Int /\ b.total \in Int
        /\ \A k \in Kinds : b.min[k] \in Int /\ b.max[k] \in Int /\ b.min[k] \in Nat
    BY SumOfKinds DEF Loose, Counts
  <2>2. h \in Counts /\ \A k \in Kinds : h[k] \in Int
    BY DEF Within, Counts
  <2>3. \A k \in Kinds : b.min[k] <= h[k] /\ h[k] <= b.max[k]
    BY <2>1, <2>2, TightenedIs DEF Within, larger, smaller
  <2> QED
    BY <2>2, <2>3, TightenedIs DEF Within
<1> QED
  BY <1>1, <1>2

\* After a round every least and every greatest count is that of some hand.
LEMMA RoundIsTight ==
  ASSUME NEW b \in Loose, NEW g, Within(g, b)
  PROVE  Tight(tightened(b))
<1>0. /\ b.min \in [Kinds -> Nat] /\ b.max \in [Kinds -> Int] /\ b.total \in Int /\ IsFiniteSet(Kinds)
      /\ g \in [Kinds -> Nat] /\ Sum(g, Kinds) = b.total /\ b.total \in Nat
      /\ \A k \in Kinds : b.min[k] <= g[k] /\ g[k] <= b.max[k]
  BY ConfigsAssumption, SumOfCounts DEF Within, Loose, Counts
<1>1. b.max \in [Kinds -> Nat]
  BY <1>0
<1>2. Sum(b.min, Kinds) \in Int /\ Sum(b.max, Kinds) \in Int
  BY <1>0, SumOfKinds
<1>3. ASSUME NEW k \in Kinds, NEW m \in Nat, b.min[k] <= m, m <= b.max[k],
             b.total - (Sum(b.max, Kinds) - b.max[k]) <= m,
             m <= b.total - (Sum(b.min, Kinds) - b.min[k])
      PROVE  \E h \in Counts : Within(h, b) /\ h[k] = m
  <2> DEFINE l == [b.min EXCEPT ![k] = m]
             u == [b.max EXCEPT ![k] = m]
  <2>1. /\ l \in [Kinds -> Nat] /\ u \in [Kinds -> Nat] /\ l[k] = m /\ u[k] = m
        /\ \A j \in Kinds : l[j] <= u[j] /\ b.min[j] <= l[j] /\ u[j] <= b.max[j]
    <3>1. \A j \in Kinds : b.min[j] <= b.max[j] /\ b.min[j] \in Nat /\ b.max[j] \in Nat
      BY <1>0, <1>1
    <3> QED
      BY <1>0, <1>1, <1>3, <3>1
  <2>2. \A j \in Kinds : j # k => l[j] = b.min[j] /\ u[j] = b.max[j]
    BY <1>0, <1>1
  <2> HIDE DEF l, u
  <2>3. Sum(l, Kinds) = Sum(b.min, Kinds) - b.min[k] + m
    <3>1. \A j \in Kinds : b.min[j] \in Int /\ l[j] \in Int /\ (j # k => l[j] = b.min[j])
      BY <1>0, <2>1, <2>2
    <3>2. IsFiniteSet(Kinds)
      BY <1>0
    <3>3. Sum(l, Kinds) = Sum(b.min, Kinds) - b.min[k] + l[k]
      <4> DEFINE p == b.min
      <4>1. \A j \in Kinds : p[j] \in Int /\ l[j] \in Int /\ (j # k => l[j] = p[j])
        BY <3>1
      <4> HIDE DEF p
      <4>2. Sum(l, Kinds) = Sum(p, Kinds) - p[k] + l[k]
        BY ONLY <3>2, <4>1, k \in Kinds, SumChange
      <4> QED
        BY <4>2 DEF p
    <3> QED
      BY <2>1, <3>3
  <2>4. Sum(u, Kinds) = Sum(b.max, Kinds) - b.max[k] + m
    <3>1. \A j \in Kinds : b.max[j] \in Int /\ u[j] \in Int /\ (j # k => u[j] = b.max[j])
      BY <1>0, <2>1, <2>2
    <3>2. IsFiniteSet(Kinds)
      BY <1>0
    <3>3. Sum(u, Kinds) = Sum(b.max, Kinds) - b.max[k] + u[k]
      <4> DEFINE p == b.max
      <4>1. \A j \in Kinds : p[j] \in Int /\ u[j] \in Int /\ (j # k => u[j] = p[j])
        BY <3>1
      <4> HIDE DEF p
      <4>2. Sum(u, Kinds) = Sum(p, Kinds) - p[k] + u[k]
        BY ONLY <3>2, <4>1, k \in Kinds, SumChange
      <4> QED
        BY <4>2 DEF p
    <3> QED
      BY <2>1, <3>3
  <2>5. Sum(l, Kinds) <= b.total /\ b.total <= Sum(u, Kinds)
    <3>1. b.min[k] \in Int /\ b.max[k] \in Int
      BY <1>0
    <3> QED
      BY <1>0, <1>2, <1>3, <2>3, <2>4, <3>1
  <2>6. PICK h \in [Kinds -> Nat] :
          (\A j \in Kinds : l[j] <= h[j] /\ h[j] <= u[j]) /\ Sum(h, Kinds) = b.total
    <3>1. \A j \in Kinds : l[j] <= u[j]
      BY <2>1
    <3>2. l \in [Kinds -> Nat] /\ u \in [Kinds -> Nat] /\ IsFiniteSet(Kinds) /\ b.total \in Nat
      BY <1>0, <2>1
    <3> QED
      BY ONLY <2>5, <3>1, <3>2, Between
  <2>7. h[k] = m
    <3>1. m <= h[k] /\ h[k] <= m /\ h[k] \in Nat
      BY <2>1, <2>6
    <3> QED
      BY <3>1
  <2>8. \A j \in Kinds : b.min[j] <= h[j] /\ h[j] <= b.max[j]
    <3>1. \A j \in Kinds : /\ b.min[j] \in Nat /\ l[j] \in Nat /\ h[j] \in Nat /\ u[j] \in Nat
                           /\ b.max[j] \in Nat
      BY <1>0, <1>1, <2>1
    <3> QED
      BY <2>1, <2>6, <3>1
  <2> QED
    BY <2>6, <2>7, <2>8 DEF Within, Counts
<1>4. ASSUME NEW k \in Kinds
      PROVE  \E h \in Counts : Within(h, tightened(b)) /\ h[k] = tightened(b).min[k]
  <2> DEFINE m == tightened(b).min[k]
  <2>1. /\ m = larger(b.min[k], b.total - (Sum(b.max, Kinds) - b.max[k]))
        /\ b.min[k] \in Nat /\ b.max[k] \in Nat /\ g[k] \in Nat /\ b.min[k] <= g[k] /\ g[k] <= b.max[k]
        /\ b.total - (Sum(b.max, Kinds) - b.max[k]) <= g[k]
        /\ g[k] <= b.total - (Sum(b.min, Kinds) - b.min[k])
    BY <1>0, <1>1, TightenedIs, WithinLeaves
  <2> HIDE DEF m
  <2>2. /\ m \in Nat /\ b.min[k] <= m /\ m <= b.max[k]
        /\ b.total - (Sum(b.max, Kinds) - b.max[k]) <= m
        /\ m <= b.total - (Sum(b.min, Kinds) - b.min[k])
    BY <1>0, <1>2, <2>1 DEF larger
  <2>3. \E h \in Counts : Within(h, b) /\ h[k] = m
    BY <1>3, <2>2
  <2> QED
    BY <2>3, SameHands DEF m
<1>5. ASSUME NEW k \in Kinds
      PROVE  \E h \in Counts : Within(h, tightened(b)) /\ h[k] = tightened(b).max[k]
  <2> DEFINE m == tightened(b).max[k]
  <2>1. /\ m = smaller(b.max[k], b.total - (Sum(b.min, Kinds) - b.min[k]))
        /\ b.min[k] \in Nat /\ b.max[k] \in Nat /\ g[k] \in Nat /\ b.min[k] <= g[k] /\ g[k] <= b.max[k]
        /\ b.total - (Sum(b.max, Kinds) - b.max[k]) <= g[k]
        /\ g[k] <= b.total - (Sum(b.min, Kinds) - b.min[k])
    BY <1>0, <1>1, TightenedIs, WithinLeaves
  <2> HIDE DEF m
  <2>2. /\ m \in Nat /\ b.min[k] <= m /\ m <= b.max[k]
        /\ b.total - (Sum(b.max, Kinds) - b.max[k]) <= m
        /\ m <= b.total - (Sum(b.min, Kinds) - b.min[k])
    BY <1>0, <1>2, <2>1 DEF smaller
  <2>3. \E h \in Counts : Within(h, b) /\ h[k] = m
    BY <1>3, <2>2
  <2> QED
    BY <2>3, SameHands DEF m
<1> QED
  BY <1>4, <1>5 DEF Tight

\* The rounds of normalizeBounds, one after the other.
LEMMA RoundsLoop ==
  ASSUME NEW b
  PROVE  \E round : /\ normalizeBounds(b) = round[Cardinality(Kinds)]
                    /\ \A i \in 0..Cardinality(Kinds) :
                          round[i] = IF i = 0 THEN b ELSE tightened(round[i - 1])
<1> DEFINE N == Cardinality(Kinds)
           D(n) == 0..n
           A(x) == tightened(x)
           Rounds(f, n) == f = [i \in D(n) |-> IF i = 0 THEN b ELSE A(f[i - 1])]
           round == CHOOSE f : Rounds(f, N)
<1>1. normalizeBounds(b) = round[N]
  BY DEF normalizeBounds
<1>2. N \in Nat
  BY ConfigsAssumption, FS_CardinalityType
<1> HIDE DEF A, Rounds, N
<1>3. \E f : Rounds(f, N)
  <2> DEFINE T == {k \in Nat : ~ \E f : Rounds(f, k)}
  <2>1. SUFFICES ASSUME T # {} PROVE FALSE
    BY <1>2
  <2>2. T \subseteq Nat
    OBVIOUS
  <2> HIDE DEF T
  <2>3. PICK k \in T : \A j \in T : k <= j
    BY ONLY <2>1, <2>2, LeastExists
  <2>4. k \in Nat
    BY <2>2, <2>3
  <2>5. CASE k = 0
    <3> DEFINE f == [i \in D(0) |-> b]
    <3>1. D(0) = {0}
      OBVIOUS
    <3>2. Rounds(f, 0)
      BY <3>1 DEF Rounds
    <3> QED
      BY <2>3, <2>5, <3>2 DEF T
  <2>6. CASE k > 0
    <3>1. k - 1 \in Nat /\ k - 1 \notin T
      BY <2>3, <2>4, <2>6
    <3>2. PICK f : Rounds(f, k - 1)
      BY <3>1 DEF T
    <3> DEFINE g == [i \in D(k) |-> IF i < k THEN f[i] ELSE A(f[k - 1])]
    <3>3. ASSUME NEW i \in D(k)
          PROVE  g[i] = IF i = 0 THEN b ELSE A(g[i - 1])
      <4>1. CASE i < k
        <5>1. i \in D(k - 1) /\ g[i] = f[i]
          BY <2>4, <3>1, <4>1
        <5>2. f[i] = IF i = 0 THEN b ELSE A(f[i - 1])
          BY <3>2, <5>1 DEF Rounds
        <5>3. i # 0 => g[i - 1] = f[i - 1]
          BY <2>4, <4>1
        <5> QED
          BY <5>1, <5>2, <5>3
      <4>2. CASE ~(i < k)
        <5>1. i = k /\ i # 0 /\ k - 1 \in D(k) /\ k - 1 < k
          BY <2>4, <2>6, <3>1, <4>2
        <5> QED
          BY <5>1
      <4> QED
        BY <4>1, <4>2
    <3>4. Rounds(g, k)
      <4> DEFINE t == [i \in D(k) |-> IF i = 0 THEN b ELSE A(g[i - 1])]
      <4>1. \A i \in D(k) : g[i] = t[i]
        BY <3>3
      <4> QED
        BY <4>1 DEF Rounds
    <3> HIDE DEF g
    <3> QED
      BY <2>3, <2>4, <3>4 DEF T
  <2> QED
    BY <2>4, <2>5, <2>6
<1>4. Rounds(round, N)
  BY <1>3
<1> HIDE DEF round
<1>5. \A i \in D(N) : round[i] = IF i = 0 THEN b ELSE A(round[i - 1])
  BY <1>4 DEF Rounds
<1> QED
  BY <1>1, <1>5 DEF A, N

\* Bounds in their normal form.
Enclosing == [total : Nat, min : Counts, max : Counts]
Sound(b) == b \in Enclosing /\ Tight(b)

\* normalizeBounds keeps every hand that was possible, and makes the bounds tight.
LEMMA Normalized ==
  ASSUME NEW b \in Loose, NEW g, Within(g, b)
  PROVE  Within(g, normalizeBounds(b)) /\ Sound(normalizeBounds(b))
<1> DEFINE n == Cardinality(Kinds)
<1>0. PICK step : /\ normalizeBounds(b) = step[n]
                  /\ \A i \in 0..n : step[i] = IF i = 0 THEN b ELSE tightened(step[i - 1])
  BY RoundsLoop
<1> DEFINE Good(i) == /\ step[i] \in Loose /\ Within(g, step[i])
                      /\ i # 0 => Tight(step[i])
           T == {i \in 0..n : ~Good(i)}
<1>1. n \in Nat /\ n # 0
  BY ConfigsAssumption, FS_CardinalityType, FS_EmptySet
<1>2. normalizeBounds(b) = step[n]
  BY <1>0
<1>3. \A i \in 0..n : step[i] = IF i = 0 THEN b ELSE tightened(step[i - 1])
  BY <1>0
<1> HIDE DEF n
<1>4. T = {}
  <2> SUFFICES ASSUME T # {} PROVE FALSE
    OBVIOUS
  <2>1. T \subseteq Nat
    BY <1>1
  <2> HIDE DEF T
  <2>2. PICK i \in T : \A m \in T : i <= m
    BY ONLY <2>1, T # {}, LeastExists
  <2>3. i \in 0..n /\ ~Good(i)
    BY DEF T
  <2>4. CASE i = 0
    <3>1. step[i] = b
      BY <1>3, <2>3, <2>4
    <3> QED
      BY <2>3, <2>4, <3>1
  <2>5. CASE i # 0
    <3>1. i - 1 \in 0..n /\ i - 1 \notin T
      BY <1>1, <2>1, <2>2, <2>3, <2>5
    <3>2. Good(i - 1)
      BY <3>1 DEF T
    <3>3. step[i] = tightened(step[i - 1])
      BY <1>3, <2>3, <2>5
    <3>4. step[i - 1] \in Loose /\ Within(g, step[i - 1])
      BY <3>2
    <3>5. step[i] \in Loose
      BY ONLY <3>3, <3>4, TightenedIs
    <3>6. Within(g, step[i])
      BY ONLY <3>3, <3>4, SameHands
    <3>7. Tight(step[i])
      BY ONLY <3>3, <3>4, RoundIsTight
    <3> QED
      BY <2>3, <3>5, <3>6, <3>7
  <2> QED
    BY <2>4, <2>5
<1>5. Good(n)
  BY <1>1, <1>4
<1>6. step[n] \in Loose /\ Within(g, step[n]) /\ Tight(step[n])
  BY <1>1, <1>5
<1>7. step[n] \in Enclosing
  <2> DEFINE c == step[n]
  <2> HIDE DEF c
  <2>1. c \in Loose /\ Within(g, c)
    BY <1>6 DEF c
  <2>2. c.total \in Nat /\ \A k \in Kinds : c.max[k] \in Nat
    <3>1. g \in Counts /\ Sum(g, Kinds) = c.total
      BY <2>1 DEF Within
    <3>2. c.total \in Nat
      BY <3>1, SumOfCounts
    <3>3. \A k \in Kinds : c.max[k] \in Int /\ g[k] \in Nat /\ g[k] <= c.max[k]
      BY <2>1 DEF Within, Loose, Counts
    <3> QED
      BY <3>2, <3>3
  <2>3. c \in Enclosing
    BY <2>1, <2>2 DEF Loose, Enclosing, Counts
  <2> QED
    BY <2>3 DEF c
<1> QED
  BY <1>2, <1>6, <1>7 DEF Sound

LEMMA EnclosingIsLoose ==
  ASSUME NEW b \in Enclosing
  PROVE  b \in Loose
BY DEF Enclosing, Loose, Counts

\* A price can be paid within the bounds when some possible hand can pay it.
LEMMA AffordIsPossible ==
  ASSUME NEW b \in Enclosing, NEW g, Within(g, b), NEW cost \in Counts
  PROVE  canAfford(b, cost) <=> \E h \in Counts : Within(h, b) /\ \A k \in Kinds : cost[k] <= h[k]
<1> DEFINE l == [k \in Kinds |-> larger(b.min[k], cost[k])]
<1>0. /\ b.min \in Counts /\ b.max \in Counts /\ b.total \in Nat /\ IsFiniteSet(Kinds)
      /\ g \in Counts /\ Sum(g, Kinds) = b.total
      /\ \A k \in Kinds : b.min[k] <= g[k] /\ g[k] <= b.max[k]
  BY ConfigsAssumption DEF Within, Enclosing
<1>1. l \in Counts /\ \A k \in Kinds : l[k] = larger(b.min[k], cost[k])
  BY <1>0 DEF larger, Counts
<1>2. canAfford(b, cost) <=> feasible(b) /\ (\A k \in Kinds : cost[k] <= b.max[k]) /\ SumFunction(l) <= b.total
  BY DEF canAfford
<1> HIDE DEF l
<1>3. SumFunction(l) = Sum(l, Kinds)
  BY <1>1, SumOfCounts
<1>4. ASSUME canAfford(b, cost)
      PROVE  \E h \in Counts : Within(h, b) /\ \A k \in Kinds : cost[k] <= h[k]
  <2>1. \A k \in Kinds : l[k] <= b.max[k] /\ b.min[k] <= l[k] /\ cost[k] <= l[k]
    <3>1. \A k \in Kinds : b.min[k] <= b.max[k] /\ cost[k] <= b.max[k]
      BY <1>2, <1>4 DEF feasible
    <3>2. \A k \in Kinds : b.min[k] \in Nat /\ cost[k] \in Nat
      BY <1>0 DEF Counts
    <3> QED
      BY <1>1, <3>1, <3>2 DEF larger
  <2>2. Sum(l, Kinds) <= b.total /\ b.total <= Sum(b.max, Kinds)
    BY <1>0, <1>2, <1>3, <1>4, SumOfCounts DEF feasible
  <2>3. \A k \in Kinds : l[k] <= b.max[k]
    BY <2>1
  <2>4. l \in [Kinds -> Nat] /\ b.max \in [Kinds -> Nat]
    BY <1>0, <1>1 DEF Counts
  <2>5. IsFiniteSet(Kinds) /\ b.total \in Nat
    BY <1>0
  <2>6. PICK h \in [Kinds -> Nat] :
          (\A k \in Kinds : l[k] <= h[k] /\ h[k] <= b.max[k]) /\ Sum(h, Kinds) = b.total
    BY ONLY <2>2, <2>3, <2>4, <2>5, Between
  <2>7. \A k \in Kinds : b.min[k] <= h[k] /\ cost[k] <= h[k]
    <3>1. \A k \in Kinds : b.min[k] \in Nat /\ cost[k] \in Nat /\ l[k] \in Nat /\ h[k] \in Nat
      BY <1>0, <2>4, <2>6 DEF Counts
    <3> QED
      BY <2>1, <2>6, <3>1
  <2> QED
    BY <2>6, <2>7 DEF Within, Counts
<1>5. ASSUME NEW h \in Counts, Within(h, b), \A k \in Kinds : cost[k] <= h[k]
      PROVE  canAfford(b, cost)
  <2>1. \A k \in Kinds : /\ h[k] \in Nat /\ b.min[k] \in Nat /\ b.max[k] \in Nat /\ cost[k] \in Nat
                         /\ b.min[k] <= h[k] /\ h[k] <= b.max[k] /\ l[k] \in Nat
    BY <1>0, <1>1, <1>5 DEF Within, Counts
  <2>2. \A k \in Kinds : b.min[k] <= b.max[k] /\ cost[k] <= b.max[k] /\ l[k] <= h[k]
    BY <1>1, <1>5, <2>1 DEF larger
  <2>3. Sum(h, Kinds) = b.total
    BY <1>5 DEF Within
  <2>4. Sum(b.min, Kinds) <= Sum(h, Kinds)
    BY <1>0, <2>1, SumGrows DEF Sum
  <2>5. Sum(h, Kinds) <= Sum(b.max, Kinds)
    BY <1>0, <2>1, SumGrows DEF Sum
  <2>6. Sum(l, Kinds) <= Sum(h, Kinds)
    BY <1>0, <2>1, <2>2, SumGrows DEF Sum
  <2> QED
    BY <1>0, <1>2, <1>3, <2>2, <2>3, <2>4, <2>5, <2>6, SumOfCounts DEF feasible
<1> QED
  BY <1>4, <1>5

-----------------------------------------------------------------------------
(***************************************************************************)
(* What happens to a hand happens to its bounds.                           *)
(***************************************************************************)

LEMMA SumOfAdded ==
  ASSUME NEW c \in [Kinds -> Int], NEW d \in [Kinds -> Int]
  PROVE  /\ addCounts(c, d) \in [Kinds -> Int] /\ subtractCounts(c, d) \in [Kinds -> Int]
         /\ Sum(addCounts(c, d), Kinds) = Sum(c, Kinds) + Sum(d, Kinds)
         /\ Sum(subtractCounts(c, d), Kinds) = Sum(c, Kinds) - Sum(d, Kinds)
<1> DEFINE a == addCounts(c, d)
           z == subtractCounts(c, d)
<1>1. /\ a \in [Kinds -> Int] /\ z \in [Kinds -> Int]
      /\ \A k \in Kinds : a[k] = c[k] + d[k] /\ c[k] = z[k] + d[k]
  BY DEF addCounts, subtractCounts
<1>2. IsFiniteSet(Kinds)
  BY ConfigsAssumption
<1> HIDE DEF a, z
<1>3. \A k \in Kinds : c[k] \in Int /\ d[k] \in Int /\ a[k] = c[k] + d[k]
  BY <1>1
<1>4. \A k \in Kinds : z[k] \in Int /\ d[k] \in Int /\ c[k] = z[k] + d[k]
  BY <1>1
<1>5. Sum(a, Kinds) = Sum(c, Kinds) + Sum(d, Kinds)
  BY ONLY <1>2, <1>3, SumAdds DEF Sum
<1>6. Sum(c, Kinds) = Sum(z, Kinds) + Sum(d, Kinds)
  BY ONLY <1>2, <1>4, SumAdds DEF Sum
<1>7. Sum(z, Kinds) \in Int /\ Sum(d, Kinds) \in Int
  BY <1>1, SumOfKinds
<1> QED
  BY <1>1, <1>5, <1>6, <1>7 DEF a, z

LEMMA SumOfOnly ==
  ASSUME NEW k \in Kinds, NEW n \in Nat
  PROVE  /\ only(k, n) \in Counts /\ Sum(only(k, n), Kinds) = n
         /\ \A j \in Kinds : only(k, n)[j] = IF j = k THEN n ELSE 0
<1> DEFINE o == only(k, n)
<1>1. o \in Counts /\ \A j \in Kinds : o[j] = IF j = k THEN n ELSE 0
  BY DEF only, zeroCounts, Counts
<1> HIDE DEF o
<1>2. \A j \in Kinds : o[j] = IF j = k THEN n ELSE 0
  BY <1>1
<1>3. n \in Int /\ IsFiniteSet(Kinds)
  BY ConfigsAssumption
<1>4. Sum(o, Kinds) = IF k \in Kinds THEN n ELSE 0
  BY ONLY <1>2, <1>3, SumOne DEF Sum
<1> QED
  BY <1>1, <1>4 DEF o

LEMMA GainKnownFollows ==
  ASSUME NEW b \in Enclosing, NEW h, Within(h, b), NEW c \in Counts
  PROVE  Within(addCounts(h, c), gainKnown(b, c)) /\ Sound(gainKnown(b, c))
<1> DEFINE l == [total |-> b.total + SumFunction(c),
                 min |-> addCounts(b.min, c), max |-> addCounts(b.max, c)]
           g == addCounts(h, c)
<1>1. /\ h \in Counts /\ b.min \in Counts /\ b.max \in Counts /\ b.total \in Nat
      /\ \A k \in Kinds : b.min[k] <= h[k] /\ h[k] <= b.max[k]
      /\ Sum(h, Kinds) = b.total /\ SumFunction(c) = Sum(c, Kinds) /\ Sum(c, Kinds) \in Nat
  BY SumOfCounts DEF Within, Enclosing
<1>2. l \in Loose /\ g \in Counts
  BY <1>1 DEF Loose, Counts, addCounts
<1>3. Sum(g, Kinds) = l.total
  <2>1. h \in [Kinds -> Int] /\ c \in [Kinds -> Int]
    BY <1>1 DEF Counts
  <2> QED
    BY <1>1, <2>1, SumOfAdded
<1>4. \A k \in Kinds : l.min[k] <= g[k] /\ g[k] <= l.max[k]
  BY <1>1 DEF addCounts, Counts
<1>5. Within(g, l)
  BY <1>2, <1>3, <1>4 DEF Within
<1>6. gainKnown(b, c) = normalizeBounds(l)
  BY DEF gainKnown
<1> HIDE DEF l
<1> QED
  BY <1>2, <1>5, <1>6, Normalized DEF g

LEMMA LoseKnownFollows ==
  ASSUME NEW b \in Enclosing, NEW h, Within(h, b), NEW c \in Counts,
         \A k \in Kinds : c[k] <= h[k]
  PROVE  Within(subtractCounts(h, c), loseKnown(b, c)) /\ Sound(loseKnown(b, c))
<1> DEFINE l == [total |-> b.total - SumFunction(c),
                 min |-> [k \in Kinds |-> larger(0, b.min[k] - c[k])],
                 max |-> subtractCounts(b.max, c)]
           g == subtractCounts(h, c)
<1>1. /\ h \in Counts /\ b.min \in Counts /\ b.max \in Counts /\ b.total \in Nat
      /\ \A k \in Kinds : b.min[k] <= h[k] /\ h[k] <= b.max[k]
      /\ Sum(h, Kinds) = b.total /\ SumFunction(c) = Sum(c, Kinds) /\ Sum(c, Kinds) \in Nat
  BY SumOfCounts DEF Within, Enclosing
<1>2. l \in Loose /\ g \in Counts
  BY <1>1 DEF Loose, Counts, subtractCounts, larger
<1>3. Sum(g, Kinds) = l.total
  <2>1. h \in [Kinds -> Int] /\ c \in [Kinds -> Int]
    BY <1>1 DEF Counts
  <2> QED
    BY <1>1, <2>1, SumOfAdded
<1>4. \A k \in Kinds : l.min[k] <= g[k] /\ g[k] <= l.max[k]
  BY <1>1 DEF subtractCounts, Counts, larger
<1>5. Within(g, l)
  BY <1>2, <1>3, <1>4 DEF Within
<1>6. loseKnown(b, c) = normalizeBounds(l)
  BY DEF loseKnown
<1> HIDE DEF l
<1> QED
  BY <1>2, <1>5, <1>6, Normalized DEF g

LEMMA EnclosingChanges ==
  ASSUME NEW b \in Enclosing, NEW n, NEW v
  PROVE  /\ [b EXCEPT !.total = n, !.max = v] = [total |-> n, min |-> b.min, max |-> v]
         /\ [b EXCEPT !.total = n, !.min = v] = [total |-> n, min |-> v, max |-> b.max]
         /\ [b EXCEPT !.min = n, !.max = v] = [total |-> b.total, min |-> n, max |-> v]
<1>1. [b EXCEPT !.total = n, !.max = v] = [total |-> n, min |-> b.min, max |-> v]
  <2> DEFINE c == [b EXCEPT !.total = n]
  <2>1. c = [total |-> n, min |-> b.min, max |-> b.max]
    BY DEF Enclosing
  <2> HIDE DEF c
  <2>2. DOMAIN c = {"total", "min", "max"} /\ c.total = n /\ c.min = b.min
    BY ONLY <2>1
  <2>3. [c EXCEPT !.max = v] = [total |-> n, min |-> b.min, max |-> v]
    BY ONLY <2>2
  <2> QED
    BY <2>3 DEF c
<1>2. [b EXCEPT !.total = n, !.min = v] = [total |-> n, min |-> v, max |-> b.max]
  <2> DEFINE c == [b EXCEPT !.total = n]
  <2>1. c = [total |-> n, min |-> b.min, max |-> b.max]
    BY DEF Enclosing
  <2> HIDE DEF c
  <2>2. DOMAIN c = {"total", "min", "max"} /\ c.total = n /\ c.max = b.max
    BY ONLY <2>1
  <2>3. [c EXCEPT !.min = v] = [total |-> n, min |-> v, max |-> b.max]
    BY ONLY <2>2
  <2> QED
    BY <2>3 DEF c
<1>3. [b EXCEPT !.min = n, !.max = v] = [total |-> b.total, min |-> n, max |-> v]
  <2> DEFINE c == [b EXCEPT !.min = n]
  <2>1. c = [total |-> b.total, min |-> n, max |-> b.max]
    BY DEF Enclosing
  <2> HIDE DEF c
  <2>2. DOMAIN c = {"total", "min", "max"} /\ c.min = n /\ c.total = b.total
    BY ONLY <2>1
  <2>3. [c EXCEPT !.max = v] = [total |-> b.total, min |-> n, max |-> v]
    BY ONLY <2>2
  <2> QED
    BY <2>3 DEF c
<1> QED
  BY <1>1, <1>2, <1>3

\* A card of a kind that nobody else knows comes or goes.
LEMMA HiddenFollows ==
  ASSUME NEW b \in Enclosing, NEW h, Within(h, b), NEW k \in Kinds
  PROVE  /\ Within(addCounts(h, only(k, 1)), gainHidden(b, 1)) /\ Sound(gainHidden(b, 1))
         /\ h[k] > 0 => /\ Within(subtractCounts(h, only(k, 1)), loseHidden(b, 1))
                        /\ Sound(loseHidden(b, 1))
<1> DEFINE l == [b EXCEPT !.total = @ + 1, !.max = [j \in Kinds |-> @[j] + 1]]
           m == [b EXCEPT !.total = @ - 1, !.min = [j \in Kinds |-> larger(0, @[j] - 1)]]
           o == only(k, 1)
           g == addCounts(h, o)
           f == subtractCounts(h, o)
<1>1. /\ h \in Counts /\ b.min \in Counts /\ b.max \in Counts /\ b.total \in Nat
      /\ \A j \in Kinds : b.min[j] <= h[j] /\ h[j] <= b.max[j]
      /\ Sum(h, Kinds) = b.total
  BY DEF Within, Enclosing
<1>2. o \in Counts /\ Sum(o, Kinds) = 1 /\ \A j \in Kinds : o[j] = IF j = k THEN 1 ELSE 0
  BY SumOfOnly
<1> HIDE DEF o
<1>3. /\ Sum(g, Kinds) = b.total + 1 /\ Sum(f, Kinds) = b.total - 1
  <2>1. h \in [Kinds -> Int] /\ o \in [Kinds -> Int]
    BY <1>1, <1>2 DEF Counts
  <2> QED
    BY <1>1, <1>2, <2>1, SumOfAdded
<1>4. /\ l.total = b.total + 1 /\ l.min = b.min /\ l.max = [j \in Kinds |-> b.max[j] + 1]
      /\ m.total = b.total - 1 /\ m.min = [j \in Kinds |-> larger(0, b.min[j] - 1)] /\ m.max = b.max
  BY DEF Enclosing
<1>5. l \in Loose
  <2>1. l = [total |-> b.total + 1, min |-> b.min, max |-> [j \in Kinds |-> b.max[j] + 1]]
    <3> DEFINE v == [j \in Kinds |-> b.max[j] + 1]
    <3>1. l = [b EXCEPT !.total = b.total + 1, !.max = v]
      OBVIOUS
    <3> HIDE DEF l, v
    <3>2. l = [total |-> b.total + 1, min |-> b.min, max |-> v]
      BY <3>1, EnclosingChanges
    <3> QED
      BY <3>2 DEF v
  <2>2. [j \in Kinds |-> b.max[j] + 1] \in [Kinds -> Int] /\ b.total + 1 \in Int
    BY <1>1 DEF Counts
  <2> QED
    BY ONLY <1>1, <2>1, <2>2 DEF Loose
<1>6. m \in Loose
  <2>1. m = [total |-> b.total - 1, min |-> [j \in Kinds |-> larger(0, b.min[j] - 1)], max |-> b.max]
    BY EnclosingChanges
  <2>2. [j \in Kinds |-> larger(0, b.min[j] - 1)] \in Counts /\ b.total - 1 \in Int
        /\ b.max \in [Kinds -> Int]
    BY <1>1 DEF Counts, larger
  <2> QED
    BY ONLY <1>1, <2>1, <2>2 DEF Loose
<1>7. gainHidden(b, 1) = normalizeBounds(l) /\ loseHidden(b, 1) = normalizeBounds(m)
  BY DEF gainHidden, loseHidden
<1> HIDE DEF l, m
<1>8. Within(g, l)
  <2>1. g \in Counts /\ \A j \in Kinds : l.min[j] <= g[j] /\ g[j] <= l.max[j]
    BY <1>1, <1>2, <1>4 DEF addCounts, Counts
  <2> QED
    BY <1>3, <1>4, <2>1 DEF Within
<1>9. h[k] > 0 => Within(f, m)
  <2> SUFFICES ASSUME h[k] > 0 PROVE Within(f, m)
    OBVIOUS
  <2>1. f \in Counts /\ \A j \in Kinds : m.min[j] <= f[j] /\ f[j] <= m.max[j]
    <3>1. \A j \in Kinds : f[j] \in Nat /\ larger(0, b.min[j] - 1) <= f[j] /\ f[j] <= b.max[j]
      BY <1>1, <1>2 DEF subtractCounts, Counts, larger
    <3>2. f = [j \in Kinds |-> f[j]]
      BY DEF subtractCounts
    <3> HIDE DEF f
    <3>3. f \in Counts
      BY <3>1, <3>2 DEF Counts
    <3> QED
      BY <1>4, <3>1, <3>3
  <2> QED
    BY <1>3, <1>4, <2>1 DEF Within
<1> HIDE DEF f, g
<1>10. Within(g, normalizeBounds(l)) /\ Sound(normalizeBounds(l))
  BY ONLY <1>5, <1>8, Normalized
<1>11. h[k] > 0 => Within(f, normalizeBounds(m)) /\ Sound(normalizeBounds(m))
  BY ONLY <1>6, <1>9, Normalized
<1> QED
  BY <1>7, <1>10, <1>11 DEF f, g, o

\* The exact count of a kind is opened.
LEMMA RevealFollows ==
  ASSUME NEW b \in Enclosing, NEW h, Within(h, b), NEW k \in Kinds
  PROVE  Within(h, revealExact(b, k, h[k])) /\ Sound(revealExact(b, k, h[k]))
<1> DEFINE l == [b EXCEPT !.min[k] = h[k], !.max[k] = h[k]]
<1>1. /\ h \in Counts /\ b.min \in Counts /\ b.max \in Counts /\ b.total \in Nat
      /\ \A j \in Kinds : b.min[j] <= h[j] /\ h[j] <= b.max[j]
      /\ Sum(h, Kinds) = b.total
  BY DEF Within, Enclosing
<1>2. l = [total |-> b.total, min |-> [b.min EXCEPT ![k] = h[k]], max |-> [b.max EXCEPT ![k] = h[k]]]
  <2> DEFINE n == [b.min EXCEPT ![k] = h[k]]
             v == [b.max EXCEPT ![k] = h[k]]
  <2>1. l = [b EXCEPT !.min = n, !.max = v]
    OBVIOUS
  <2> HIDE DEF l, n, v
  <2>2. l = [total |-> b.total, min |-> n, max |-> v]
    BY <2>1, EnclosingChanges
  <2> QED
    BY <2>2 DEF n, v
<1>3. revealExact(b, k, h[k]) = normalizeBounds(l)
  BY DEF revealExact
<1> HIDE DEF l
<1>4. l \in Loose
  BY <1>1, <1>2 DEF Loose, Counts
<1>5. \A j \in Kinds : l.min[j] <= h[j] /\ h[j] <= l.max[j]
  BY <1>1, <1>2 DEF Counts
<1>6. Within(h, l)
  BY <1>1, <1>2, <1>5 DEF Within
<1>7. Within(h, normalizeBounds(l)) /\ Sound(normalizeBounds(l))
  BY ONLY <1>4, <1>6, Normalized
<1> QED
  BY <1>3, <1>7

\* A hand that is public.
LEMMA ExactIsSound ==
  ASSUME NEW c \in Counts
  PROVE  Within(c, exactBounds(c)) /\ Sound(exactBounds(c))
<1> DEFINE b == exactBounds(c)
<1>1. b.total = Sum(c, Kinds) /\ b.min = c /\ b.max = c /\ b \in Enclosing
  BY SumOfCounts DEF exactBounds, Enclosing
<1> HIDE DEF b
<1>2. Within(c, b)
  BY <1>1 DEF Within, Counts
<1> QED
  BY <1>1, <1>2 DEF Sound, Tight, b

-----------------------------------------------------------------------------
(***************************************************************************)
(* The stack of phases: one phase of the turn and, on it, at most one that *)
(* a development card has opened.                                          *)
(***************************************************************************)

RobberFrame(f, a, S) ==
    \/ f.id = "moveRobber"
    \/ f.id = "steal" /\ f.targets \subseteq S \ {a}
    \/ f.id = "stealResult" /\ f.victim \in S \ {a}

BottomFrame(f, a, S) ==
    \/ f.id \in {"preRoll", "dice", "main"}
    \/ f.id = "discard" /\ f.remaining \subseteq S
    \/ RobberFrame(f, a, S) /\ f.returnTo = "main"

UpperFrame(f, a, S) ==
    \/ RobberFrame(f, a, S) /\ f.returnTo = "pop"
    \/ f.id \in {"drawDev", "roadBuilding"}
    \/ f.id = "monopoly" /\ f.resource \in Kinds /\ f.remaining \subseteq S \ {a}

OneFrame(t, S) == t.phase = <<t.phase[1]>> /\ BottomFrame(t.phase[1], t.active, S)

TwoFrames(t, S) ==
    /\ t.phase = <<t.phase[1], t.phase[2]>>
    /\ t.phase[1].id \in {"preRoll", "main"}
    /\ UpperFrame(t.phase[2], t.active, S)

GoodTurn(t, S) ==
    /\ DOMAIN t = {"active", "phase", "devPlayed"}
    /\ t.active \in S
    /\ OneFrame(t, S) \/ TwoFrames(t, S)

\* The ends of short sequences.
LEMMA ShortAppend ==
  ASSUME NEW f, NEW g
  PROVE  Append(<<g>>, f) = <<g, f>>
<1> DEFINE S == {f, g}
           s == <<g>>
           u == Append(s, f)
           v == <<g, f>>
<1>1. s \in Seq(S) /\ Len(s) = 1 /\ s[1] = g
  OBVIOUS
<1>2. v \in Seq(S) /\ Len(v) = 2 /\ v[1] = g /\ v[2] = f
  OBVIOUS
<1>7. f \in S
  OBVIOUS
<1> HIDE DEF S, s
<1>3. u \in Seq(S) /\ Len(u) = 2 /\ u[1] = g /\ u[2] = f
  <2>0. s \in Seq(S)
    BY <1>1
  <2>1. /\ u \in Seq(S) /\ Len(u) = Len(s) + 1 /\ u[Len(s) + 1] = f
        /\ \A i \in 1..Len(s) : u[i] = s[i]
    BY ONLY <2>0, <1>7, AppendProperties
  <2> HIDE DEF u
  <2>2. 1 \in 1..1
    OBVIOUS
  <2> QED
    BY ONLY <1>1, <2>1, <2>2
<1> HIDE DEF u, v
<1>4. \A i \in 1..Len(u) : u[i] = v[i]
  <2>1. 1..2 = {1, 2}
    OBVIOUS
  <2> QED
    BY ONLY <1>2, <1>3, <2>1
<1>5. Len(u) = Len(v)
  BY <1>2, <1>3
<1>6. u = v
  BY ONLY <1>2, <1>3, <1>4, <1>5, SeqEqual
<1> QED
  BY <1>6 DEF u, v, s

LEMMA ShortFront ==
  ASSUME NEW f, NEW g
  PROVE  /\ Front(<<g, f>>) = <<g>> /\ Append(Front(<<g>>), f) = <<f>>
<1>0. Len(<<g, f>>) - 1 = 1
  OBVIOUS
<1>1. SubSeq(<<g, f>>, 1, 1) = <<g>>
  <2> DEFINE s == <<g, f>>
             u == SubSeq(s, 1, 1)
             v == <<g>>
  <2>1. s[1] = g /\ v \in Seq({g}) /\ Len(v) = 1 /\ v[1] = g
    OBVIOUS
  <2> HIDE DEF s, v
  <2>2. \A i \in 1..1 : s[i] \in {g}
    BY <2>1
  <2>3. /\ u \in Seq({g}) /\ Len(u) = 1
        /\ \A i \in 1..1 : u[i] = s[i]
    BY <2>2, SubSeqProperties
  <2> HIDE DEF u
  <2>4. Len(u) = Len(v) /\ \A i \in 1..Len(u) : u[i] = v[i]
    BY <2>1, <2>3
  <2>5. u = v
    BY <2>1, <2>3, <2>4, SeqEqual
  <2> QED
    BY <2>5 DEF u, v, s
<1>2. Len(<<g>>) - 1 = 0
  OBVIOUS
<1>3. SubSeq(<<g>>, 1, 0) = <<>>
  BY SubSeqEmpty
<1>4. Front(<<g, f>>) = <<g>> /\ Front(<<g>>) = <<>>
  BY <1>0, <1>1, <1>2, <1>3 DEF Front
<1>5. Append(<<>>, f) = <<f>>
  OBVIOUS
<1> QED
  BY <1>4, <1>5, ShortAppend

LEMMA TopIs ==
    /\ OneFrame(turn, Seats) => top = turn.phase[1]
    /\ TwoFrames(turn, Seats) => top = turn.phase[2]
<1>1. ASSUME NEW f PROVE Last(<<f>>) = f
  BY DEF Last
<1>2. ASSUME NEW f, NEW g PROVE Last(<<f, g>>) = g
  BY DEF Last
<1> QED
  BY <1>1, <1>2 DEF top, OneFrame, TwoFrames

LEMMA Replacing ==
  ASSUME GoodTurn(turn, Seats), NEW f
  PROVE  /\ DOMAIN replaceTop(f) = {"active", "phase", "devPlayed"}
         /\ replaceTop(f).active = turn.active
         /\ OneFrame(turn, Seats) => replaceTop(f).phase = <<f>>
         /\ TwoFrames(turn, Seats) => replaceTop(f).phase = <<turn.phase[1], f>>
<1>1. ASSUME NEW g PROVE Append(Front(<<g>>), f) = <<f>>
  BY ShortFront
<1>2. ASSUME NEW g, NEW h PROVE Append(Front(<<g, h>>), f) = <<g, f>>
  <2>1. Front(<<g, h>>) = <<g>>
    BY ShortFront
  <2> QED
    BY <2>1, ShortAppend
<1>3. /\ DOMAIN replaceTop(f) = {"active", "phase", "devPlayed"}
      /\ replaceTop(f).active = turn.active
      /\ replaceTop(f).phase = Append(Front(turn.phase), f)
  BY DEF replaceTop, GoodTurn
<1> QED
  BY <1>1, <1>2, <1>3 DEF OneFrame, TwoFrames

LEMMA Pushing ==
  ASSUME GoodTurn(turn, Seats), OneFrame(turn, Seats), NEW f
  PROVE  /\ DOMAIN pushPhase(f) = {"active", "phase", "devPlayed"}
         /\ pushPhase(f).active = turn.active
         /\ pushPhase(f).phase = <<turn.phase[1], f>>
<1>1. ASSUME NEW g PROVE Append(<<g>>, f) = <<g, f>>
  BY ShortAppend
<1>2. /\ DOMAIN pushPhase(f) = {"active", "phase", "devPlayed"}
      /\ pushPhase(f).active = turn.active
      /\ pushPhase(f).phase = Append(turn.phase, f)
  BY DEF pushPhase, GoodTurn
<1> QED
  BY <1>1, <1>2 DEF OneFrame

LEMMA Popping ==
  ASSUME GoodTurn(turn, Seats), TwoFrames(turn, Seats)
  PROVE  /\ DOMAIN popPhase = {"active", "phase", "devPlayed"}
         /\ popPhase.active = turn.active
         /\ popPhase.phase = <<turn.phase[1]>>
<1>1. ASSUME NEW g, NEW h PROVE Front(<<g, h>>) = <<g>>
  BY ShortFront
<1>2. /\ DOMAIN popPhase = {"active", "phase", "devPlayed"}
      /\ popPhase.active = turn.active
      /\ popPhase.phase = Front(turn.phase)
  BY DEF popPhase, GoodTurn
<1> QED
  BY <1>1, <1>2 DEF TwoFrames

\* What the phase on top says of the stack under it.
LEMMA TopTells ==
  ASSUME GoodTurn(turn, Seats)
  PROVE  /\ top.id \in {"preRoll", "dice", "main", "discard"} => OneFrame(turn, Seats)
         /\ top.id \in {"drawDev", "roadBuilding", "monopoly"} => TwoFrames(turn, Seats)
         /\ top.id = "discard" => top.remaining \subseteq Seats
         /\ top.id = "monopoly" => top.resource \in Kinds /\ top.remaining \subseteq Seats \ {active}
         /\ top.id = "steal" => top.targets \subseteq Seats \ {active}
         /\ top.id = "stealResult" => top.victim \in Seats \ {active}
         /\ top.id \in {"moveRobber", "steal", "stealResult"} =>
              /\ OneFrame(turn, Seats) => top.returnTo = "main"
              /\ TwoFrames(turn, Seats) => top.returnTo = "pop"
<1>1. CASE OneFrame(turn, Seats)
  <2>1. top = turn.phase[1] /\ BottomFrame(top, active, Seats)
    BY <1>1, TopIs DEF OneFrame, active
  <2>2. ~TwoFrames(turn, Seats)
    <3>1. ASSUME NEW f, NEW g, NEW h PROVE <<f>> # <<g, h>>
      OBVIOUS
    <3> QED
      BY <1>1, <3>1 DEF OneFrame, TwoFrames
  <2> QED
    BY <1>1, <2>1, <2>2 DEF BottomFrame, RobberFrame
<1>2. CASE TwoFrames(turn, Seats)
  <2>1. top = turn.phase[2] /\ UpperFrame(top, active, Seats)
    BY <1>2, TopIs DEF TwoFrames, active
  <2>2. ~OneFrame(turn, Seats)
    <3>1. ASSUME NEW f, NEW g, NEW h PROVE <<f>> # <<g, h>>
      OBVIOUS
    <3> QED
      BY <1>2, <3>1 DEF OneFrame, TwoFrames
  <2> QED
    BY <1>2, <2>1, <2>2 DEF UpperFrame, RobberFrame
<1> QED
  BY <1>1, <1>2 DEF GoodTurn

LEMMA NotBoth ==
  OneFrame(turn, Seats) => ~TwoFrames(turn, Seats)
<1>1. ASSUME NEW f, NEW g, NEW h PROVE <<f>> # <<g, h>>
  OBVIOUS
<1> QED
  BY <1>1 DEF OneFrame, TwoFrames

\* The phase on top gives way to another.
LEMMA ReplacedIsGood ==
  ASSUME GoodTurn(turn, Seats), NEW f,
         OneFrame(turn, Seats) => BottomFrame(f, active, Seats),
         TwoFrames(turn, Seats) => UpperFrame(f, active, Seats)
  PROVE  /\ GoodTurn(replaceTop(f), Seats)
         /\ TwoFrames(turn, Seats) => replaceTop(f).phase[1] = turn.phase[1]
<1> DEFINE t == replaceTop(f)
<1>1. /\ DOMAIN t = {"active", "phase", "devPlayed"} /\ t.active = active
      /\ OneFrame(turn, Seats) => t.phase = <<f>>
      /\ TwoFrames(turn, Seats) => t.phase = <<turn.phase[1], f>>
  BY Replacing DEF active
<1> HIDE DEF t
<1>2. CASE OneFrame(turn, Seats)
  <2>1. t.phase = <<f>>
    BY <1>1, <1>2
  <2>2. OneFrame(t, Seats)
    BY <1>1, <1>2, <2>1 DEF OneFrame
  <2>3. ~TwoFrames(turn, Seats)
    <3>1. ASSUME NEW e, NEW g, NEW h PROVE <<e>> # <<g, h>>
      OBVIOUS
    <3> QED
      BY <1>2, <3>1 DEF OneFrame, TwoFrames
  <2> QED
    BY <1>1, <2>2, <2>3 DEF GoodTurn, active, t
<1>3. CASE TwoFrames(turn, Seats)
  <2>1. t.phase = <<turn.phase[1], f>>
    BY <1>1, <1>3
  <2>2. TwoFrames(t, Seats)
    BY <1>1, <1>3, <2>1 DEF TwoFrames
  <2> QED
    BY <1>1, <2>1, <2>2 DEF GoodTurn, active, t
<1> QED
  BY <1>2, <1>3 DEF GoodTurn

LEMMA PushedIsGood ==
  ASSUME GoodTurn(turn, Seats), top.id \in {"preRoll", "main"}, NEW f, UpperFrame(f, active, Seats)
  PROVE  GoodTurn(pushPhase(f), Seats) /\ pushPhase(f).phase[1] = turn.phase[1]
<1> DEFINE t == pushPhase(f)
<1>1. OneFrame(turn, Seats) /\ top = turn.phase[1]
  BY TopTells, TopIs
<1>2. DOMAIN t = {"active", "phase", "devPlayed"} /\ t.active = active /\ t.phase = <<turn.phase[1], f>>
  BY <1>1, Pushing DEF active
<1> HIDE DEF t
<1>3. TwoFrames(t, Seats)
  BY <1>1, <1>2 DEF TwoFrames
<1> QED
  BY <1>2, <1>3 DEF GoodTurn, active, t

LEMMA PoppedIsGood ==
  ASSUME GoodTurn(turn, Seats), TwoFrames(turn, Seats)
  PROVE  GoodTurn(popPhase, Seats) /\ popPhase.phase[1] = turn.phase[1]
<1> DEFINE t == popPhase
<1>1. DOMAIN t = {"active", "phase", "devPlayed"} /\ t.active = active /\ t.phase = <<turn.phase[1]>>
  BY Popping DEF active
<1> HIDE DEF t
<1>2. OneFrame(t, Seats)
  BY <1>1 DEF OneFrame, TwoFrames, BottomFrame
<1> QED
  BY <1>1, <1>2 DEF GoodTurn, active, t

\* A robber's phase ends: in the phase of the turn, or on top of it.
LEMMA ResumedIsGood ==
  ASSUME GoodTurn(turn, Seats), top.id \in {"moveRobber", "steal", "stealResult"}
  PROVE  /\ GoodTurn(resume(top.returnTo), Seats)
         /\ TwoFrames(turn, Seats) => resume(top.returnTo).phase[1] = turn.phase[1]
<1>1. CASE OneFrame(turn, Seats) /\ ~TwoFrames(turn, Seats)
  <2>1. resume(top.returnTo) = replaceTop(frame("main"))
    BY <1>1, TopTells DEF resume
  <2>2. BottomFrame(frame("main"), active, Seats)
    BY DEF BottomFrame, frame
  <2> QED
    BY <1>1, <2>1, <2>2, ReplacedIsGood
<1>2. CASE TwoFrames(turn, Seats)
  <2>1. resume(top.returnTo) = popPhase
    BY <1>2, TopTells DEF resume
  <2> QED
    BY <1>2, <2>1, PoppedIsGood
<1> QED
  BY <1>1, <1>2 DEF GoodTurn

-----------------------------------------------------------------------------
(***************************************************************************)
(* The hands of all seats.                                                 *)
(***************************************************************************)

\* What there is of a kind.
InPlay(hd, bk, k, S) == bk[k] + Sum([s \in S |-> hd[s][k]], S)

GoodHands(hd, bd, bk, c, S) ==
    /\ bk \in Counts /\ hd \in [S -> Counts] /\ bd \in [S -> Enclosing]
    /\ \A s \in S : Within(hd[s], bd[s]) /\ Tight(bd[s])
    /\ \A k \in Kinds : InPlay(hd, bk, k, S) = InPlay(c.hands, c.bank, k, S)

\* One seat deals with the bank.
LEMMA OneHand ==
  ASSUME NEW c, NEW S, IsFiniteSet(S), NEW hd, NEW bd, NEW bk, GoodHands(hd, bd, bk, c, S),
         NEW s \in S, NEW h \in Counts, NEW b, Within(h, b), Sound(b), NEW e \in Counts,
         \A k \in Kinds : e[k] + h[k] = bk[k] + hd[s][k]
  PROVE  GoodHands([hd EXCEPT ![s] = h], [bd EXCEPT ![s] = b], e, c, S)
<1> DEFINE g == [hd EXCEPT ![s] = h]
           d == [bd EXCEPT ![s] = b]
<1>1. bk \in Counts /\ hd \in [S -> Counts] /\ bd \in [S -> Enclosing]
  BY DEF GoodHands
<1>2. /\ g \in [S -> Counts] /\ d \in [S -> Enclosing] /\ g[s] = h /\ d[s] = b
      /\ \A t \in S : t # s => g[t] = hd[t] /\ d[t] = bd[t]
  BY <1>1 DEF Sound
<1> HIDE DEF g, d
<1>3. \A t \in S : Within(g[t], d[t]) /\ Tight(d[t])
  BY <1>2 DEF GoodHands, Sound
<1>4. ASSUME NEW k \in Kinds
      PROVE  InPlay(g, e, k, S) = InPlay(hd, bk, k, S)
  <2> DEFINE p == [t \in S |-> hd[t][k]]
             q == [t \in S |-> g[t][k]]
  <2>1. \A t \in S : p[t] \in Int /\ q[t] \in Int /\ (t # s => q[t] = p[t])
    BY <1>1, <1>2 DEF Counts
  <2>2. p[s] = hd[s][k] /\ q[s] = h[k]
    BY <1>2
  <2> HIDE DEF p, q
  <2>3. Sum(q, S) = Sum(p, S) - p[s] + q[s] /\ Sum(p, S) \in Int
    BY ONLY <2>1, IsFiniteSet(S), s \in S, SumChange
  <2>4. e[k] \in Int /\ h[k] \in Int /\ bk[k] \in Int /\ hd[s][k] \in Int
    BY <1>1 DEF Counts
  <2>5. e[k] + Sum(q, S) = bk[k] + Sum(p, S)
    BY <2>2, <2>3, <2>4
  <2> QED
    BY <2>5 DEF InPlay, p, q
<1>5. \A k \in Kinds : InPlay(g, e, k, S) = InPlay(c.hands, c.bank, k, S)
  BY <1>4 DEF GoodHands
<1> QED
  BY <1>2, <1>3, <1>5 DEF GoodHands, g, d

\* Two seats deal with each other.
LEMMA TwoHands ==
  ASSUME NEW c, NEW S, IsFiniteSet(S), NEW hd, NEW bd, NEW bk, GoodHands(hd, bd, bk, c, S),
         NEW s \in S, NEW h \in Counts, NEW b, Within(h, b), Sound(b),
         NEW t \in S, t # s, NEW i \in Counts, NEW a, Within(i, a), Sound(a),
         \A k \in Kinds : h[k] + i[k] = hd[s][k] + hd[t][k]
  PROVE  GoodHands([hd EXCEPT ![s] = h, ![t] = i], [bd EXCEPT ![s] = b, ![t] = a], bk, c, S)
<1> DEFINE g == [hd EXCEPT ![s] = h]
           j == [g EXCEPT ![t] = i]
           d == [bd EXCEPT ![s] = b]
           f == [d EXCEPT ![t] = a]
<1>1. bk \in Counts /\ hd \in [S -> Counts] /\ bd \in [S -> Enclosing]
  BY DEF GoodHands
<1>2. /\ g \in [S -> Counts] /\ d \in [S -> Enclosing] /\ g[s] = h /\ d[s] = b
      /\ \A r \in S : r # s => g[r] = hd[r] /\ d[r] = bd[r]
  BY <1>1 DEF Sound
<1> HIDE DEF g, d
<1>3. /\ j \in [S -> Counts] /\ f \in [S -> Enclosing] /\ j[t] = i /\ f[t] = a
      /\ \A r \in S : r # t => j[r] = g[r] /\ f[r] = d[r]
  BY <1>2 DEF Sound
<1> HIDE DEF j, f
<1>4. \A r \in S : Within(j[r], f[r]) /\ Tight(f[r])
  BY <1>2, <1>3 DEF GoodHands, Sound
<1>5. ASSUME NEW k \in Kinds
      PROVE  InPlay(j, bk, k, S) = InPlay(hd, bk, k, S)
  <2> DEFINE p == [r \in S |-> hd[r][k]]
             q == [r \in S |-> g[r][k]]
             u == [r \in S |-> j[r][k]]
  <2>1. \A r \in S : p[r] \in Int /\ q[r] \in Int /\ (r # s => q[r] = p[r])
    BY <1>1, <1>2 DEF Counts
  <2>2. \A r \in S : q[r] \in Int /\ u[r] \in Int /\ (r # t => u[r] = q[r])
    BY <1>2, <1>3 DEF Counts
  <2>3. p[s] = hd[s][k] /\ q[s] = h[k] /\ q[t] = hd[t][k] /\ u[t] = i[k]
    BY <1>2, <1>3
  <2> HIDE DEF p, q, u
  <2>4. Sum(q, S) = Sum(p, S) - p[s] + q[s] /\ Sum(p, S) \in Int
    BY ONLY <2>1, IsFiniteSet(S), s \in S, SumChange
  <2>5. Sum(u, S) = Sum(q, S) - q[t] + u[t] /\ Sum(q, S) \in Int
    BY ONLY <2>2, IsFiniteSet(S), t \in S, SumChange
  <2>6. i[k] \in Int /\ h[k] \in Int /\ hd[s][k] \in Int /\ hd[t][k] \in Int
    BY <1>1 DEF Counts
  <2>7. Sum(u, S) = Sum(p, S)
    <3>1. h[k] + i[k] = hd[s][k] + hd[t][k]
      OBVIOUS
    <3>2. Sum(u, S) = Sum(p, S) - hd[s][k] + h[k] - hd[t][k] + i[k]
      BY ONLY <2>3, <2>4, <2>5, <2>6
    <3> QED
      BY ONLY <2>4, <2>6, <3>1, <3>2
  <2> QED
    BY <2>7 DEF InPlay, p, u
<1>6. \A k \in Kinds : InPlay(j, bk, k, S) = InPlay(c.hands, c.bank, k, S)
  BY <1>5 DEF GoodHands
<1>7. GoodHands(j, f, bk, c, S)
  BY <1>1, <1>3, <1>4, <1>6 DEF GoodHands
<1>8. [hd EXCEPT ![s] = h, ![t] = i] = j /\ [bd EXCEPT ![s] = b, ![t] = a] = f
  BY DEF g, j, d, f
<1> QED
  BY <1>7, <1>8

\* All seats are paid by the bank.
LEMMA AllHands ==
  ASSUME NEW c, NEW S, IsFiniteSet(S), NEW hd, NEW bd, NEW bk, GoodHands(hd, bd, bk, c, S),
         NEW paid \in [S -> Counts], NEW g, g = [s \in S |-> addCounts(hd[s], paid[s])],
         NEW d, d = [s \in S |-> gainKnown(bd[s], paid[s])],
         NEW e \in Counts, \A k \in Kinds : e[k] = bk[k] - Sum([s \in S |-> paid[s][k]], S)
  PROVE  GoodHands(g, d, e, c, S)
<1>1. bk \in Counts /\ hd \in [S -> Counts] /\ bd \in [S -> Enclosing]
  BY DEF GoodHands
<1>2. ASSUME NEW s \in S
      PROVE  /\ g[s] \in Counts /\ d[s] \in Enclosing /\ Within(g[s], d[s]) /\ Tight(d[s])
  <2>1. bd[s] \in Enclosing /\ Within(hd[s], bd[s]) /\ paid[s] \in Counts
    BY <1>1 DEF GoodHands
  <2>2. Within(addCounts(hd[s], paid[s]), gainKnown(bd[s], paid[s])) /\ Sound(gainKnown(bd[s], paid[s]))
    BY ONLY <2>1, GainKnownFollows
  <2> QED
    BY <2>2 DEF Sound, Within
<1>3. g \in [S -> Counts] /\ d \in [S -> Enclosing]
  BY <1>2
<1>4. ASSUME NEW k \in Kinds
      PROVE  InPlay(g, e, k, S) = InPlay(hd, bk, k, S)
  <2> DEFINE p == [s \in S |-> hd[s][k]]
             q == [s \in S |-> paid[s][k]]
             u == [s \in S |-> g[s][k]]
  <2>1. \A s \in S : p[s] \in Int /\ q[s] \in Int /\ u[s] = p[s] + q[s]
    BY <1>1 DEF Counts, addCounts
  <2>2. e[k] = bk[k] - Sum(q, S)
    OBVIOUS
  <2> HIDE DEF p, q, u
  <2>3. Sum(u, S) = Sum(p, S) + Sum(q, S)
    BY ONLY <2>1, IsFiniteSet(S), SumAdds DEF Sum
  <2>4. Sum(p, S) \in Int /\ Sum(q, S) \in Int
    BY ONLY <2>1, IsFiniteSet(S), SumInt DEF Sum
  <2>5. bk[k] \in Int
    BY <1>1 DEF Counts
  <2>6. e[k] + Sum(u, S) = bk[k] + Sum(p, S)
    BY <2>2, <2>3, <2>4, <2>5
  <2> QED
    BY <2>6 DEF InPlay, p, u
<1>5. \A k \in Kinds : InPlay(g, e, k, S) = InPlay(c.hands, c.bank, k, S)
  BY <1>4 DEF GoodHands
<1> QED
  BY <1>2, <1>3, <1>5 DEF GoodHands

-----------------------------------------------------------------------------
(***************************************************************************)
(* The offers, and the inductive invariant.                                *)
(***************************************************************************)

GoodOffer(o, a, S) ==
    /\ DOMAIN o = {"proposer", "give", "want", "to", "acceptedBy", "declinedBy", "valid"}
    /\ o.proposer \in S /\ o.give \in Counts /\ o.want \in Counts /\ o.to \subseteq S
    /\ o.proposer \notin o.to
    /\ o.acceptedBy \cap o.declinedBy = {}
    /\ o.acceptedBy \cup o.declinedBy \subseteq (IF o.proposer = a THEN o.to ELSE {})
    /\ o.proposer # a => o.to = {a}

GoodOffers(os, a, S) ==
    /\ \A o \in os : GoodOffer(o, a, S)
    /\ \A o1, o2 \in os : o1.proposer = o2.proposer => o1 = o2

GameInv ==
    /\ config \in Configs
    /\ GoodTurn(turn, Seats)
    /\ GoodHands(hand, bounds, bank, config, Seats)
    /\ GoodOffers(offers, active, Seats)
    /\ offers # {} => turn.phase[1].id = "main"
    /\ \A o \in offers : o.valid = canAfford(bounds[o.proposer], o.give)

\* Another phase of the same turn.
Follows(t) ==
    /\ GoodTurn(t, Seats) /\ t.active = active
    /\ turn.phase[1].id = "main" => t.phase[1].id = "main"

LEMMA SeatsFacts ==
  ASSUME config \in Configs
  PROVE  /\ IsFiniteSet(Seats) /\ 0 \in Seats /\ config.seats \in Nat /\ config.seats > 0
         /\ config.bank \in Counts /\ config.hands \in [Seats -> Counts]
         /\ config.cost \in Counts
         /\ \A s \in config.sides : s.give \in Counts /\ s.want \in Counts
         /\ \A h \in Hexes : config.yield[h] \in [Seats -> Counts]
<1>1. config.seats \in Nat /\ config.seats > 0 /\ 0 \in Int /\ config.seats - 1 \in Int
  BY ConfigsAssumption
<1>2. IsFiniteSet(Seats)
  BY <1>1, FS_Interval DEF Seats
<1> QED
  BY <1>1, <1>2, ConfigsAssumption DEF Seats, Counts, Hexes

LEMMA ReplacedFollows ==
  ASSUME GoodTurn(turn, Seats), top.id # "main", NEW f,
         OneFrame(turn, Seats) => BottomFrame(f, active, Seats),
         TwoFrames(turn, Seats) => UpperFrame(f, active, Seats)
  PROVE  Follows(replaceTop(f))
<1>1. GoodTurn(replaceTop(f), Seats) /\ (TwoFrames(turn, Seats) => replaceTop(f).phase[1] = turn.phase[1])
  BY ReplacedIsGood
<1>2. replaceTop(f).active = active
  BY Replacing DEF active
<1>3. OneFrame(turn, Seats) => turn.phase[1].id # "main"
  BY TopIs
<1> QED
  BY <1>1, <1>2, <1>3 DEF Follows, GoodTurn

LEMMA PushedFollows ==
  ASSUME GoodTurn(turn, Seats), top.id \in {"preRoll", "main"}, NEW f, UpperFrame(f, active, Seats)
  PROVE  Follows(pushPhase(f))
<1>1. pushPhase(f).active = active
  BY Pushing, TopTells DEF active
<1> QED
  BY <1>1, PushedIsGood DEF Follows

LEMMA PoppedFollows ==
  ASSUME GoodTurn(turn, Seats), TwoFrames(turn, Seats)
  PROVE  Follows(popPhase)
<1>1. popPhase.active = active
  BY Popping DEF active
<1> QED
  BY <1>1, PoppedIsGood DEF Follows

LEMMA ResumedFollows ==
  ASSUME GoodTurn(turn, Seats), top.id \in {"moveRobber", "steal", "stealResult"}
  PROVE  Follows(resume(top.returnTo))
<1>1. resume(top.returnTo).active = active
  <2>1. resume(top.returnTo) = replaceTop(frame("main"))
       \/ (TwoFrames(turn, Seats) /\ resume(top.returnTo) = popPhase)
    <3>1. OneFrame(turn, Seats) => resume(top.returnTo) = replaceTop(frame("main"))
      BY TopTells DEF resume
    <3>2. TwoFrames(turn, Seats) => resume(top.returnTo) = popPhase
      BY TopTells DEF resume
    <3>3. OneFrame(turn, Seats) \/ TwoFrames(turn, Seats)
      BY DEF GoodTurn
    <3> QED
      BY ONLY <3>1, <3>2, <3>3
  <2> QED
    BY <2>1, Replacing, Popping DEF active
<1>2. GoodTurn(resume(top.returnTo), Seats)
  BY ResumedIsGood
<1>3. TwoFrames(turn, Seats) => resume(top.returnTo).phase[1] = turn.phase[1]
  BY ResumedIsGood
<1>4. OneFrame(turn, Seats) => turn.phase[1].id # "main"
  BY TopIs
<1> QED
  BY <1>1, <1>2, <1>3, <1>4 DEF Follows, GoodTurn

\* A card is played in the turn.
LEMMA PlayedFollows ==
  ASSUME NEW t, Follows(t)
  PROVE  Follows([t EXCEPT !.devPlayed = TRUE])
<1> DEFINE u == [t EXCEPT !.devPlayed = TRUE]
<1>1. DOMAIN u = DOMAIN t /\ u.active = t.active /\ u.phase = t.phase
  BY DEF Follows, GoodTurn
<1> HIDE DEF u
<1> QED
  BY <1>1 DEF Follows, GoodTurn, OneFrame, TwoFrames, u

LEMMA StayFollows ==
  ASSUME GoodTurn(turn, Seats)
  PROVE  Follows(turn)
BY DEF Follows, active

LEMMA Finalized ==
  ASSUME NEW os, NEW a, NEW S, GoodOffers(os, a, S), finalize(os)
  PROVE  /\ GoodOffers(offers', a, S) /\ (offers' # {} => os # {})
         /\ \A o \in offers' : o.valid = canAfford(bounds'[o.proposer], o.give)
<1> DEFINE V(o) == canAfford(bounds'[o.proposer], o.give)
           new(o) == [o EXCEPT !.valid = V(o)]
<1>1. offers' = {new(o) : o \in os}
  BY DEF finalize
<1>2. ASSUME NEW o \in os
      PROVE  /\ GoodOffer(new(o), a, S) /\ new(o).proposer = o.proposer /\ new(o).give = o.give
             /\ new(o).valid = V(o)
  <2>1. GoodOffer(o, a, S)
    BY DEF GoodOffers
  <2> HIDE DEF V
  <2>2. /\ DOMAIN new(o) = DOMAIN o /\ new(o).proposer = o.proposer /\ new(o).give = o.give
        /\ new(o).want = o.want /\ new(o).to = o.to /\ new(o).acceptedBy = o.acceptedBy
        /\ new(o).declinedBy = o.declinedBy
    BY <2>1 DEF GoodOffer
  <2>3. new(o).valid = V(o)
    BY <2>1 DEF GoodOffer
  <2> HIDE DEF new
  <2> QED
    BY <2>1, <2>2, <2>3 DEF GoodOffer
<1> HIDE DEF V, new
<1>3. \A o \in offers' : GoodOffer(o, a, S) /\ o.valid = V(o)
  <2> SUFFICES ASSUME NEW n \in offers' PROVE GoodOffer(n, a, S) /\ n.valid = V(n)
    OBVIOUS
  <2>1. PICK o \in os : n = new(o)
    BY <1>1
  <2>2. V(n) = V(o)
    BY <1>2, <2>1 DEF V
  <2> QED
    BY <1>2, <2>1, <2>2
<1>4. \A o1, o2 \in offers' : o1.proposer = o2.proposer => o1 = o2
  BY <1>1, <1>2 DEF GoodOffers
<1> QED
  BY <1>1, <1>3, <1>4 DEF GoodOffers, V

\* What a step of a turn keeps.
LEMMA StepKeeps ==
  ASSUME GameInv, config' = config, Follows(turn'),
         GoodHands(hand', bounds', bank', config, Seats),
         NEW os, GoodOffers(os, active, Seats), finalize(os),
         os # {} => offers # {} \/ top.id = "main"
  PROVE  GameInv'
<1>1. Seats' = Seats /\ active' = active
  BY DEF Seats, active, Follows
<1>2. /\ GoodOffers(offers', active, Seats) /\ (offers' # {} => os # {})
      /\ \A o \in offers' : o.valid = canAfford(bounds'[o.proposer], o.give)
  BY Finalized
<1>3. offers' # {} => turn'.phase[1].id = "main"
  <2>1. top.id = "main" => turn.phase[1].id = "main"
    BY TopTells, TopIs DEF GameInv
  <2> QED
    BY <1>2, <2>1 DEF GameInv, Follows
<1>4. config' \in Configs /\ GoodTurn(turn', Seats')
  BY <1>1 DEF GameInv, Follows
<1>5. GoodHands(hand', bounds', bank', config', Seats') /\ GoodOffers(offers', active', Seats')
  BY <1>1, <1>2
<1> QED
  BY <1>2, <1>3, <1>4, <1>5 DEF GameInv

-----------------------------------------------------------------------------
(***************************************************************************)
(* The steps.                                                              *)
(***************************************************************************)

\* A step that moves no card.
LEMMA HandsStayGood ==
  ASSUME GameInv, handsStay
  PROVE  GoodHands(hand', bounds', bank', config, Seats)
BY DEF GameInv, handsStay

\* What a seat can pay it has.
LEMMA PaysFromHand ==
  ASSUME GameInv, NEW s \in Seats, NEW cost \in Counts, pays(s, cost)
  PROVE  \A k \in Kinds : cost[k] <= hand[s][k]
<1>1. Within(hand[s], bounds[s]) /\ bounds[s] \in Enclosing
  BY DEF GameInv, GoodHands
<1>2. \A k \in Kinds : /\ bounds[s].min[k] <= hand[s][k] /\ bounds[s].min[k] \in Nat
                       /\ hand[s][k] \in Nat /\ cost[k] \in Nat
  BY <1>1 DEF Within, Enclosing, Counts
<1> QED
  BY <1>2 DEF pays

\* A seat gives and gets known cards: a build, a discard, a maritime trade.
LEMMA ExchangeKeeps ==
  ASSUME GameInv, NEW s \in Seats, NEW given \in Counts, NEW got \in Counts,
         \A k \in Kinds : given[k] <= hand[s][k], bankHas(got), exchangeBank(s, given, got)
  PROVE  GoodHands(hand', bounds', bank', config, Seats)
<1> DEFINE h == addCounts(subtractCounts(hand[s], given), got)
           b == gainKnown(loseKnown(bounds[s], given), got)
           e == subtractCounts(addCounts(bank, given), got)
<1>1. /\ IsFiniteSet(Seats) /\ GoodHands(hand, bounds, bank, config, Seats)
      /\ bank \in Counts /\ hand[s] \in Counts /\ bounds[s] \in Enclosing /\ Within(hand[s], bounds[s])
      /\ hand \in [Seats -> Counts] /\ bounds \in [Seats -> Enclosing]
  BY SeatsFacts DEF GameInv, GoodHands
<1>2. /\ Within(subtractCounts(hand[s], given), loseKnown(bounds[s], given))
      /\ Sound(loseKnown(bounds[s], given))
  BY <1>1, LoseKnownFollows
<1>3. Within(h, b) /\ Sound(b)
  <2>1. loseKnown(bounds[s], given) \in Enclosing
    BY <1>2 DEF Sound
  <2> QED
    BY ONLY <1>2, <2>1, got \in Counts, GainKnownFollows
<1>4. h \in Counts /\ e \in Counts /\ \A k \in Kinds : e[k] + h[k] = bank[k] + hand[s][k]
  <2>1. \A k \in Kinds : /\ given[k] \in Nat /\ got[k] \in Nat /\ bank[k] \in Nat /\ hand[s][k] \in Nat
                         /\ given[k] <= hand[s][k] /\ got[k] <= bank[k]
    BY <1>1 DEF Counts, bankHas
  <2> QED
    BY <2>1 DEF addCounts, subtractCounts, Counts
<1>5. hand' = [hand EXCEPT ![s] = h] /\ bounds' = [bounds EXCEPT ![s] = b] /\ bank' = e
  BY <1>1 DEF exchangeBank, exchanged
<1> HIDE DEF h, b, e
<1>6. GoodHands([hand EXCEPT ![s] = h], [bounds EXCEPT ![s] = b], e, config, Seats)
  BY ONLY <1>1, <1>3, <1>4, s \in Seats, OneHand
<1> QED
  BY <1>5, <1>6

LEMMA ZeroFacts ==
  zeroCounts \in Counts /\ \A k \in Kinds : zeroCounts[k] = 0
BY DEF zeroCounts, Counts

\* A payment to the bank.
LEMMA PaymentKeeps ==
  ASSUME GameInv, NEW s \in Seats, NEW c \in Counts, pays(s, c), exchangeBank(s, c, zeroCounts)
  PROVE  GoodHands(hand', bounds', bank', config, Seats)
<1>1. bank \in Counts
  BY DEF GameInv, GoodHands
<1>2. bankHas(zeroCounts)
  BY <1>1, ZeroFacts DEF bankHas, Counts
<1>3. \A k \in Kinds : c[k] <= hand[s][k]
  BY PaysFromHand
<1> QED
  BY <1>2, <1>3, ZeroFacts, ExchangeKeeps

LEMMA DiscardFrameIsGood ==
  ASSUME NEW R, R \subseteq Seats
  PROVE  BottomFrame(discardFrame(R), active, Seats)
BY DEF discardFrame, robberStepFrame, frame, BottomFrame, RobberFrame

LEMMA RollDiceKeeps ==
  ASSUME GameInv, NEW s, RollDice(s)
  PROVE  GameInv'
<1>1. GoodTurn(turn, Seats) /\ OneFrame(turn, Seats) /\ top.id # "main"
  BY TopTells DEF GameInv, RollDice
<1>2. BottomFrame(frame("dice"), active, Seats) /\ ~TwoFrames(turn, Seats)
  BY <1>1, NotBoth DEF BottomFrame, frame
<1>3. Follows(turn')
  BY <1>1, <1>2, ReplacedFollows DEF RollDice
<1>4. GoodHands(hand', bounds', bank', config, Seats)
  BY HandsStayGood DEF RollDice
<1>5. GoodOffers(offers, active, Seats) /\ finalize(offers) /\ config' = config
  BY DEF GameInv, RollDice
<1> QED
  BY <1>3, <1>4, <1>5, StepKeeps

\* The bank pays no more than it has.
LEMMA ProductionIsPaid ==
  ASSUME GameInv, NEW x \in Hexes
  PROVE  /\ productionPayments(x) \in [Seats -> Counts]
         /\ \A k \in Kinds :
              /\ Sum([s \in Seats |-> productionPayments(x)[s][k]], Seats) \in Nat
              /\ Sum([s \in Seats |-> productionPayments(x)[s][k]], Seats) <= bank[k]
<1> DEFINE demand == IF x = robberHex THEN [s \in Seats |-> zeroCounts] ELSE config.yield[x]
           total(k) == SumFunction([s \in Seats |-> demand[s][k]])
           paid == productionPayments(x)
<1>1. demand \in [Seats -> Counts] /\ bank \in Counts /\ IsFiniteSet(Seats)
  BY SeatsFacts, ZeroFacts DEF GameInv, GoodHands
<1>2. paid = [s \in Seats |-> [k \in Kinds |->
                 IF total(k) <= bank[k] THEN demand[s][k]
                 ELSE IF demand[s][k] = total(k) THEN bank[k] ELSE 0]]
  BY DEF productionPayments
<1> HIDE DEF demand, paid
<1>3. paid \in [Seats -> Counts]
  BY <1>1, <1>2 DEF Counts
<1>4. ASSUME NEW k \in Kinds
      PROVE  /\ Sum([s \in Seats |-> paid[s][k]], Seats) \in Nat
             /\ Sum([s \in Seats |-> paid[s][k]], Seats) <= bank[k]
  <2> DEFINE p == [s \in Seats |-> paid[s][k]]
             d == [s \in Seats |-> demand[s][k]]
  <2>1. /\ \A s \in Seats : p[s] \in Nat /\ d[s] \in Nat /\ p[s] \in Int /\ d[s] \in Int
        /\ \A s \in Seats : p[s] = IF total(k) <= bank[k] THEN d[s]
                                   ELSE IF d[s] = total(k) THEN bank[k] ELSE 0
        /\ bank[k] \in Nat
    BY <1>1, <1>2, <1>3 DEF Counts
  <2>2. total(k) = Sum(d, Seats)
    BY DEF SumFunction, Sum
  <2> HIDE DEF p, d, total
  <2>3. Sum(p, Seats) \in Nat /\ Sum(d, Seats) \in Nat
    BY ONLY <1>1, <2>1, SumInt DEF Sum
  <2>4. CASE total(k) <= bank[k]
    <3>1. \A s \in Seats : d[s] \in Int /\ p[s] = d[s]
      BY <2>1, <2>4
    <3>2. Sum(p, Seats) = Sum(d, Seats)
      BY ONLY <1>1, <3>1, SumSame
    <3> QED
      BY <2>2, <2>3, <2>4, <3>2 DEF p
  <2>5. CASE ~(total(k) <= bank[k]) /\ \E t \in Seats : d[t] = total(k)
    <3>1. PICK t \in Seats : d[t] = total(k)
      BY <2>5
    <3>2. total(k) \in Nat /\ total(k) > 0
      BY <2>1, <2>2, <2>3, <2>5
    <3>3. ASSUME NEW s \in Seats, s # t
          PROVE  d[s] # total(k)
      <4> SUFFICES ASSUME d[s] = total(k) PROVE FALSE
        OBVIOUS
      <4> DEFINE q == [r \in Seats |-> IF r = t THEN total(k) ELSE 0]
                 u == [r \in Seats |-> IF r = s THEN total(k) ELSE q[r]]
      <4>1. /\ \A r \in Seats : q[r] = IF r = t THEN total(k) ELSE 0
            /\ \A r \in Seats : q[r] \in Int /\ u[r] \in Int /\ u[r] <= d[r] /\ (r # s => u[r] = q[r])
            /\ q[s] = 0 /\ u[s] = total(k)
        BY <2>1, <3>1, <3>2, <3>3
      <4> HIDE DEF q, u
      <4>2. total(k) \in Int
        BY <3>2
      <4>3. Sum(q, Seats) = total(k)
        <5>1. \A r \in Seats : q[r] = IF r = t THEN total(k) ELSE 0
          BY <4>1
        <5> QED
          BY <1>1, <4>2, <5>1, SumOne DEF Sum
      <4>4. Sum(u, Seats) = Sum(q, Seats) - q[s] + u[s]
        <5>1. \A r \in Seats : q[r] \in Int /\ u[r] \in Int /\ (r # s => u[r] = q[r])
          BY <4>1
        <5>2. IsFiniteSet(Seats)
          BY <1>1
        <5> QED
          BY ONLY <5>1, <5>2, s \in Seats, SumChange
      <4>5. Sum(u, Seats) <= Sum(d, Seats)
        <5>1. \A r \in Seats : u[r] \in Int /\ d[r] \in Int /\ u[r] <= d[r]
          BY <2>1, <4>1
        <5>2. IsFiniteSet(Seats)
          BY <1>1
        <5> QED
          BY ONLY <5>1, <5>2, SumGrows DEF Sum
      <4> QED
        BY <2>2, <3>2, <4>1, <4>3, <4>4, <4>5
    <3>4. \A s \in Seats : p[s] = IF s = t THEN bank[k] ELSE 0
      BY <2>1, <2>5, <3>1, <3>3
    <3>5. bank[k] \in Int /\ IsFiniteSet(Seats)
      BY <1>1, <2>1
    <3>6. Sum(p, Seats) = bank[k]
      BY <3>4, <3>5, SumOne DEF Sum
    <3> QED
      BY <2>1, <2>3, <3>6 DEF p
  <2>6. CASE ~(total(k) <= bank[k]) /\ ~ \E t \in Seats : d[t] = total(k)
    <3>1. \A s \in Seats : p[s] = IF s = -1 THEN 0 ELSE 0
      BY <2>1, <2>6
    <3>2. 0 \in Int /\ IsFiniteSet(Seats)
      BY <1>1
    <3>3. Sum(p, Seats) = IF -1 \in Seats THEN 0 ELSE 0
      BY ONLY <3>1, <3>2, SumOne DEF Sum
    <3> QED
      BY <2>1, <2>3, <3>3 DEF p
  <2> QED
    BY <2>4, <2>5, <2>6
<1> QED
  BY <1>3, <1>4 DEF paid

LEMMA ProduceKeeps ==
  ASSUME GameInv, NEW x \in Hexes, Produce(x)
  PROVE  GameInv'
<1>1. GoodTurn(turn, Seats) /\ OneFrame(turn, Seats) /\ top.id # "main" /\ ~TwoFrames(turn, Seats)
  BY TopTells, NotBoth DEF GameInv, Produce
<1>2. BottomFrame(frame("main"), active, Seats)
  BY DEF BottomFrame, frame
<1>3. Follows(turn')
  BY <1>1, <1>2, ReplacedFollows DEF Produce
<1> DEFINE paid == productionPayments(x)
<1>4. /\ paid \in [Seats -> Counts]
      /\ \A k \in Kinds : /\ Sum([s \in Seats |-> paid[s][k]], Seats) \in Nat
                          /\ Sum([s \in Seats |-> paid[s][k]], Seats) <= bank[k]
  BY ProductionIsPaid
<1>5. /\ hand' = [s \in Seats |-> addCounts(hand[s], paid[s])]
      /\ bounds' = [s \in Seats |-> gainKnown(bounds[s], paid[s])]
      /\ bank' = [k \in Kinds |-> bank[k] - SumFunction([s \in Seats |-> paid[s][k]])]
  BY DEF Produce
<1> HIDE DEF paid
<1>6. \A k \in Kinds : bank'[k] = bank[k] - Sum([s \in Seats |-> paid[s][k]], Seats)
  BY <1>5 DEF SumFunction, Sum
<1>7. bank' \in Counts
  <2>1. bank \in Counts
    BY DEF GameInv, GoodHands
  <2>2. \A k \in Kinds : bank[k] - Sum([s \in Seats |-> paid[s][k]], Seats) \in Nat
    BY <1>4, <2>1 DEF Counts
  <2> QED
    BY <1>5, <1>6, <2>2 DEF Counts
<1>8. GoodHands(hand, bounds, bank, config, Seats) /\ IsFiniteSet(Seats)
  BY SeatsFacts DEF GameInv
<1>9. GoodHands(hand', bounds', bank', config, Seats)
  BY ONLY <1>4, <1>5, <1>6, <1>7, <1>8, AllHands
<1>10. GoodOffers(offers, active, Seats) /\ finalize(offers) /\ config' = config
  BY DEF GameInv, Produce
<1> QED
  BY <1>3, <1>9, <1>10, StepKeeps

LEMMA SevenKeeps ==
  ASSUME GameInv, Seven
  PROVE  GameInv'
<1> DEFINE R == {s \in Seats : bounds[s].total > config.limit /\ bounds[s].total \div 2 > 0}
<1>1. GoodTurn(turn, Seats) /\ OneFrame(turn, Seats) /\ top.id # "main" /\ ~TwoFrames(turn, Seats)
  BY TopTells, NotBoth DEF GameInv, Seven
<1>2. turn' = replaceTop(discardFrame(R))
  BY DEF Seven
<1>3. R \subseteq Seats
  OBVIOUS
<1> HIDE DEF R
<1>4. BottomFrame(discardFrame(R), active, Seats)
  BY <1>3, DiscardFrameIsGood
<1>5. Follows(turn')
  BY <1>1, <1>2, <1>4, ReplacedFollows
<1>6. GoodHands(hand', bounds', bank', config, Seats)
  BY HandsStayGood DEF Seven
<1>7. GoodOffers(offers, active, Seats) /\ finalize(offers) /\ config' = config
  BY DEF GameInv, Seven
<1> QED
  BY <1>5, <1>6, <1>7, StepKeeps

LEMMA DiscardKeeps ==
  ASSUME GameInv, NEW s, NEW c \in Counts, Discard(s, c)
  PROVE  GameInv'
<1>1. /\ GoodTurn(turn, Seats) /\ OneFrame(turn, Seats) /\ top.id # "main" /\ ~TwoFrames(turn, Seats)
      /\ top.remaining \subseteq Seats /\ s \in Seats
  BY TopTells, NotBoth DEF GameInv, Discard
<1>2. BottomFrame(discardFrame(top.remaining \ {s}), active, Seats)
  BY <1>1, DiscardFrameIsGood
<1>3. Follows(turn')
  BY <1>1, <1>2, ReplacedFollows DEF Discard
<1>4. GoodHands(hand', bounds', bank', config, Seats)
  BY <1>1, PaymentKeeps DEF Discard
<1>5. GoodOffers(offers, active, Seats) /\ finalize(offers) /\ config' = config
  BY DEF GameInv, Discard
<1> QED
  BY <1>3, <1>4, <1>5, StepKeeps

\* The greedy choice is a number of each kind.
LEMMA GreedyIsCounts ==
  ASSUME NEW c \in Counts, NEW n \in Int
  PROVE  greedyCards(c, n) \in Counts
<1> DEFINE before(k) == {j \in Kinds : c[j] > c[k] \/ (c[j] = c[k] /\ j < k)}
<1>1. ASSUME NEW k \in Kinds
      PROVE  smaller(c[k], larger(0, n - SumFunctionOnSet(c, before(k)))) \in Nat
  <2>1. before(k) \subseteq Kinds /\ IsFiniteSet(before(k))
    BY ConfigsAssumption, FS_Subset
  <2>2. \A j \in before(k) : c[j] \in Int
    BY <2>1 DEF Counts
  <2> HIDE DEF before
  <2>3. SumFunctionOnSet(c, before(k)) \in Int
    BY <2>1, <2>2, SumInt
  <2> QED
    BY <2>3 DEF smaller, larger, Counts
<1>2. greedyCards(c, n) = [k \in Kinds |-> smaller(c[k], larger(0, n - SumFunctionOnSet(c, before(k))))]
  BY DEF greedyCards
<1> QED
  BY <1>1, <1>2 DEF Counts

LEMMA OwnDiscardKeeps ==
  ASSUME GameInv, NEW s \in Seats, TimedDiscard(s) \/ DeterministicDiscard(s)
  PROVE  GameInv'
<1>1. hand[s] \in Counts /\ bounds[s].min \in Counts /\ bounds[s].total \div 2 \in Int
  <2>1. hand[s] \in Counts /\ bounds[s] \in Enclosing
    BY DEF GameInv, GoodHands
  <2>2. bounds[s].min \in Counts /\ bounds[s].total \in Nat
    BY <2>1 DEF Enclosing
  <2> QED
    BY <2>1, <2>2
<1>2. timedDiscard(s) \in Counts /\ greedyCards(bounds[s].min, bounds[s].total \div 2) \in Counts
  BY <1>1, GreedyIsCounts DEF timedDiscard
<1>3. Discard(s, timedDiscard(s)) \/ Discard(s, greedyCards(bounds[s].min, bounds[s].total \div 2))
  BY DEF TimedDiscard, DeterministicDiscard
<1> QED
  BY <1>2, <1>3, DiscardKeeps

LEMMA MoveRobberKeeps ==
  ASSUME GameInv, NEW s, NEW x, MoveRobber(s, x)
  PROVE  GameInv'
<1>1. /\ GoodTurn(turn, Seats) /\ top.id = "moveRobber"
      /\ OneFrame(turn, Seats) => top.returnTo = "main"
      /\ TwoFrames(turn, Seats) => top.returnTo = "pop"
  BY TopTells DEF GameInv, MoveRobber
<1> DEFINE f == [id |-> "steal", targets |-> robberTargets(x), returnTo |-> top.returnTo]
<1>2. ASSUME turn' = resume(top.returnTo)
      PROVE  Follows(turn')
  BY <1>1, <1>2, ResumedFollows
<1>3. ASSUME turn' = replaceTop(f)
      PROVE  Follows(turn')
  <2>1. robberTargets(x) \subseteq Seats \ {active}
    BY DEF robberTargets, occupants
  <2>2. OneFrame(turn, Seats) => BottomFrame(f, active, Seats)
    BY <1>1, <2>1 DEF BottomFrame, RobberFrame
  <2>3. TwoFrames(turn, Seats) => UpperFrame(f, active, Seats)
    BY <1>1, <2>1 DEF UpperFrame, RobberFrame
  <2> HIDE DEF f
  <2> QED
    BY <1>1, <1>3, <2>2, <2>3, ReplacedFollows
<1>4. Follows(turn')
  BY <1>2, <1>3 DEF MoveRobber
<1>5. GoodHands(hand', bounds', bank', config, Seats)
  BY HandsStayGood DEF MoveRobber
<1>6. GoodOffers(offers, active, Seats) /\ finalize(offers) /\ config' = config
  BY DEF GameInv, MoveRobber
<1> QED
  BY <1>4, <1>5, <1>6, StepKeeps

LEMMA StealKeeps ==
  ASSUME GameInv, NEW s, NEW victim, Steal(s, victim)
  PROVE  GameInv'
<1>1. /\ GoodTurn(turn, Seats) /\ top.id = "steal" /\ victim \in Seats \ {active}
      /\ OneFrame(turn, Seats) => top.returnTo = "main"
      /\ TwoFrames(turn, Seats) => top.returnTo = "pop"
  BY TopTells DEF GameInv, Steal
<1> DEFINE f == [id |-> "stealResult", victim |-> victim, returnTo |-> top.returnTo]
<1>2. OneFrame(turn, Seats) => BottomFrame(f, active, Seats)
  BY <1>1 DEF BottomFrame, RobberFrame
<1>3. TwoFrames(turn, Seats) => UpperFrame(f, active, Seats)
  BY <1>1 DEF UpperFrame, RobberFrame
<1>4. turn' = replaceTop(f)
  BY DEF Steal
<1> HIDE DEF f
<1>5. Follows(turn')
  BY <1>1, <1>2, <1>3, <1>4, ReplacedFollows
<1>6. GoodHands(hand', bounds', bank', config, Seats)
  BY HandsStayGood DEF Steal
<1>7. GoodOffers(offers, active, Seats) /\ finalize(offers) /\ config' = config
  BY DEF GameInv, Steal
<1> QED
  BY <1>5, <1>6, <1>7, StepKeeps

\* A card of one kind less, or more.
LEMMA OneCardChanges ==
  ASSUME NEW h \in Counts, NEW k \in Kinds, NEW n \in Nat
  PROVE  /\ [h EXCEPT ![k] = @ - n] = subtractCounts(h, only(k, n))
         /\ [h EXCEPT ![k] = @ + n] = addCounts(h, only(k, n))
<1> DEFINE o == only(k, n)
<1>1. \A j \in Kinds : o[j] = IF j = k THEN n ELSE 0
  BY SumOfOnly
<1> HIDE DEF o
<1>2. [h EXCEPT ![k] = @ - n] = subtractCounts(h, o)
  <2> DEFINE x == [h EXCEPT ![k] = @ - n]
  <2>1. x = [j \in Kinds |-> x[j]] /\ \A j \in Kinds : x[j] = h[j] - o[j]
    <3>1. \A j \in Kinds : h[j] \in Nat
      BY DEF Counts
    <3>2. DOMAIN h = Kinds
      BY DEF Counts
    <3>3. x = [j \in Kinds |-> IF j = k THEN h[k] - n ELSE h[j]]
      BY ONLY <3>2
    <3> HIDE DEF x
    <3> QED
      BY ONLY <1>1, <3>1, <3>3
  <2> HIDE DEF x
  <2>2. x = subtractCounts(h, o)
    BY <2>1 DEF subtractCounts
  <2> QED
    BY <2>2 DEF x
<1>3. [h EXCEPT ![k] = @ + n] = addCounts(h, o)
  <2> DEFINE x == [h EXCEPT ![k] = @ + n]
  <2>1. x = [j \in Kinds |-> x[j]] /\ \A j \in Kinds : x[j] = h[j] + o[j]
    <3>1. \A j \in Kinds : h[j] \in Nat
      BY DEF Counts
    <3>2. DOMAIN h = Kinds
      BY DEF Counts
    <3>3. x = [j \in Kinds |-> IF j = k THEN h[k] + n ELSE h[j]]
      BY ONLY <3>2
    <3> HIDE DEF x
    <3> QED
      BY ONLY <1>1, <3>1, <3>3
  <2> HIDE DEF x
  <2>2. x = addCounts(h, o)
    BY <2>1 DEF addCounts
  <2> QED
    BY <2>2 DEF x
<1> QED
  BY <1>2, <1>3 DEF o

\* Cards of one kind go from a seat to another.
LEMMA TransferKeeps ==
  ASSUME GameInv, NEW s \in Seats, NEW t \in Seats, t # s, NEW k \in Kinds, NEW n \in Nat,
         n <= hand[s][k],
         hand' = [hand EXCEPT ![s] = subtractCounts(hand[s], only(k, n)),
                              ![t] = addCounts(hand[t], only(k, n))],
         NEW b, Within(subtractCounts(hand[s], only(k, n)), b), Sound(b),
         NEW a, Within(addCounts(hand[t], only(k, n)), a), Sound(a),
         bounds' = [bounds EXCEPT ![s] = b, ![t] = a], bank' = bank
  PROVE  GoodHands(hand', bounds', bank', config, Seats)
<1> DEFINE o == only(k, n)
           h == subtractCounts(hand[s], o)
           i == addCounts(hand[t], o)
<1>1. /\ IsFiniteSet(Seats) /\ GoodHands(hand, bounds, bank, config, Seats)
      /\ hand[s] \in Counts /\ hand[t] \in Counts
  BY SeatsFacts DEF GameInv, GoodHands
<1>2. o \in Counts /\ \A j \in Kinds : o[j] = IF j = k THEN n ELSE 0
  BY SumOfOnly
<1> HIDE DEF o
<1>3. h \in Counts /\ i \in Counts /\ \A j \in Kinds : h[j] + i[j] = hand[s][j] + hand[t][j]
  <2>1. \A j \in Kinds : hand[s][j] \in Nat /\ hand[t][j] \in Nat /\ o[j] \in Nat /\ o[j] <= hand[s][j]
    BY <1>1, <1>2 DEF Counts
  <2> QED
    BY <2>1 DEF addCounts, subtractCounts, Counts
<1>4. /\ hand' = [hand EXCEPT ![s] = h, ![t] = i] /\ Within(h, b) /\ Sound(b) /\ Within(i, a) /\ Sound(a)
  BY DEF o
<1> HIDE DEF h, i
<1>5. GoodHands([hand EXCEPT ![s] = h, ![t] = i], [bounds EXCEPT ![s] = b, ![t] = a], bank, config, Seats)
  BY ONLY <1>1, <1>3, <1>4, s \in Seats, t \in Seats, t # s, TwoHands
<1> QED
  BY <1>4, <1>5

LEMMA StealResultKeeps ==
  ASSUME GameInv, NEW k \in Kinds, NEW known \in BOOLEAN, StealResult(k, known)
  PROVE  GameInv'
<1> DEFINE s == top.victim
           o == only(k, 1)
           b == IF known THEN loseKnown(bounds[s], o) ELSE loseHidden(bounds[s], 1)
           a == IF known THEN gainKnown(bounds[active], o) ELSE gainHidden(bounds[active], 1)
<1>1. /\ GoodTurn(turn, Seats) /\ top.id = "stealResult" /\ s \in Seats /\ active \in Seats /\ s # active
  BY TopTells DEF GameInv, StealResult, GoodTurn, active
<1>2. /\ bounds' = [bounds EXCEPT ![s] = b, ![active] = a]
      /\ hand' = [hand EXCEPT ![s][k] = @ - 1, ![active][k] = @ + 1]
      /\ hand[s][k] > 0 /\ bank' = bank /\ turn' = resume(top.returnTo)
      /\ finalize(offers) /\ config' = config
  BY <1>1 DEF StealResult, transferBounds
<1> HIDE DEF s
<1>3. /\ hand \in [Seats -> Counts] /\ bounds \in [Seats -> Enclosing]
      /\ Within(hand[s], bounds[s]) /\ Within(hand[active], bounds[active])
      /\ hand[s] \in Counts /\ hand[active] \in Counts
      /\ bounds[s] \in Enclosing /\ bounds[active] \in Enclosing
  BY <1>1 DEF GameInv, GoodHands
<1>4. o \in Counts /\ \A j \in Kinds : o[j] = IF j = k THEN 1 ELSE 0
  BY SumOfOnly
<1>5. Within(subtractCounts(hand[s], o), b) /\ Sound(b)
  <2>1. \A j \in Kinds : o[j] <= hand[s][j]
    BY <1>2, <1>3, <1>4 DEF Counts
  <2>2. CASE known
    BY <1>3, <1>4, <2>1, <2>2, LoseKnownFollows
  <2>3. CASE ~known
    BY <1>2, <1>3, <2>3, HiddenFollows
  <2> QED
    BY <2>2, <2>3
<1>6. Within(addCounts(hand[active], o), a) /\ Sound(a)
  <2>1. CASE known
    BY <1>3, <1>4, <2>1, GainKnownFollows
  <2>2. CASE ~known
    BY <1>3, <2>2, HiddenFollows
  <2> QED
    BY <2>1, <2>2
<1>7. hand' = [hand EXCEPT ![s] = subtractCounts(hand[s], o), ![active] = addCounts(hand[active], o)]
  <2>1. hand' = [hand EXCEPT ![s] = [hand[s] EXCEPT ![k] = @ - 1], ![active] = [hand[active] EXCEPT ![k] = @ + 1]]
    BY <1>1, <1>2, <1>3
  <2>2. /\ [hand[s] EXCEPT ![k] = @ - 1] = subtractCounts(hand[s], o)
        /\ [hand[active] EXCEPT ![k] = @ + 1] = addCounts(hand[active], o)
    BY <1>3, OneCardChanges
  <2> HIDE DEF o
  <2> QED
    BY <2>1, <2>2
<1>8. 1 <= hand[s][k]
  BY <1>2, <1>3 DEF Counts
<1> HIDE DEF a, b
<1>9. GoodHands(hand', bounds', bank', config, Seats)
  BY <1>1, <1>2, <1>5, <1>6, <1>7, <1>8, TransferKeeps
<1>10. Follows(turn')
  BY <1>1, <1>2, ResumedFollows
<1>11. GoodOffers(offers, active, Seats)
  BY DEF GameInv
<1> QED
  BY <1>2, <1>9, <1>10, <1>11, StepKeeps

\* Steps that only pay: the phase stays, or a drawn card is waited for.
LEMMA BuildKeeps ==
  ASSUME GameInv, Build \/ BuyDevCard
  PROVE  GameInv'
<1>1. GoodTurn(turn, Seats) /\ active \in Seats /\ config.cost \in Counts /\ top.id = "main"
  BY SeatsFacts DEF GameInv, GoodTurn, active, Build, BuyDevCard
<1>2. GoodHands(hand', bounds', bank', config, Seats)
  BY <1>1, PaymentKeeps DEF Build, BuyDevCard
<1>3. Follows(turn')
  <2>1. ASSUME turn' = turn PROVE Follows(turn')
    BY <1>1, <2>1, StayFollows
  <2>2. UpperFrame(frame("drawDev"), active, Seats)
    BY DEF UpperFrame, frame
  <2>3. ASSUME turn' = pushPhase(frame("drawDev")) PROVE Follows(turn')
    BY <1>1, <2>2, <2>3, PushedFollows
  <2> QED
    BY <2>1, <2>3 DEF Build, BuyDevCard
<1>4. GoodOffers(offers, active, Seats) /\ finalize(offers) /\ config' = config
  BY DEF GameInv, Build, BuyDevCard
<1> QED
  BY <1>2, <1>3, <1>4, StepKeeps

LEMMA CardDealtKeeps ==
  ASSUME GameInv, NEW c, CardDealt(c)
  PROVE  GameInv'
<1>1. GoodTurn(turn, Seats) /\ TwoFrames(turn, Seats)
  BY TopTells DEF GameInv, CardDealt
<1>2. Follows(turn')
  BY <1>1, PoppedFollows DEF CardDealt
<1>3. GoodHands(hand', bounds', bank', config, Seats)
  BY HandsStayGood DEF CardDealt
<1>4. GoodOffers(offers, active, Seats) /\ finalize(offers) /\ config' = config
  BY DEF GameInv, CardDealt
<1> QED
  BY <1>2, <1>3, <1>4, StepKeeps

LEMMA RevealedFollows ==
  ASSUME GameInv, NEW c, revealed(c)
  PROVE  /\ Follows(playedAlone)
         /\ \A f : UpperFrame(f, active, Seats) => Follows(playedWith(f))
<1>1. GoodTurn(turn, Seats) /\ top.id \in {"preRoll", "main"}
  BY DEF GameInv, revealed
<1>2. Follows(playedAlone)
  BY <1>1, StayFollows, PlayedFollows DEF playedAlone
<1>3. ASSUME NEW f, UpperFrame(f, active, Seats) PROVE Follows(playedWith(f))
  BY <1>1, <1>3, PushedFollows, PlayedFollows DEF playedWith
<1> QED
  BY <1>2, <1>3

LEMMA PlayCardKeeps ==
  ASSUME GameInv, PlayKnight \/ PlayRoadBuilding \/ \E k \in Kinds : PlayMonopoly(k)
  PROVE  GameInv'
<1>1. Follows(turn')
  <2>1. ASSUME PlayKnight PROVE Follows(turn')
    <3>1. UpperFrame([id |-> "moveRobber", returnTo |-> "pop"], active, Seats)
      BY DEF UpperFrame, RobberFrame
    <3> QED
      BY <2>1, <3>1, RevealedFollows DEF PlayKnight
  <2>2. ASSUME PlayRoadBuilding PROVE Follows(turn')
    <3>1. UpperFrame([id |-> "roadBuilding", remaining |-> 2], active, Seats)
      BY DEF UpperFrame
    <3> QED
      BY <2>2, <3>1, RevealedFollows DEF PlayRoadBuilding
  <2>3. ASSUME NEW k \in Kinds, PlayMonopoly(k) PROVE Follows(turn')
    <3> DEFINE R == {s \in Seats \ {active} : bounds[s].max[k] > 0}
               f == [id |-> "monopoly", resource |-> k, remaining |-> R]
    <3>1. UpperFrame(f, active, Seats)
      BY DEF UpperFrame
    <3>2. turn' = playedAlone \/ turn' = playedWith(f)
      BY <2>3 DEF PlayMonopoly
    <3>3. revealed("monopoly")
      BY <2>3 DEF PlayMonopoly
    <3> HIDE DEF f
    <3> QED
      BY <3>1, <3>2, <3>3, RevealedFollows
  <2> QED
    BY <2>1, <2>2, <2>3
<1>2. GoodHands(hand', bounds', bank', config, Seats)
  BY HandsStayGood DEF PlayKnight, PlayRoadBuilding, PlayMonopoly
<1>3. GoodOffers(offers, active, Seats) /\ finalize(offers) /\ config' = config
  BY DEF GameInv, PlayKnight, PlayRoadBuilding, PlayMonopoly
<1> QED
  BY <1>1, <1>2, <1>3, StepKeeps

LEMMA FreeRoadKeeps ==
  ASSUME GameInv, PlaceFreeRoad \/ \E s \in Seats : SkipRoadBuilding(s)
  PROVE  GameInv'
<1>1. /\ GoodTurn(turn, Seats) /\ TwoFrames(turn, Seats) /\ ~OneFrame(turn, Seats)
      /\ top.id = "roadBuilding"
  BY TopTells, NotBoth DEF GameInv, PlaceFreeRoad, SkipRoadBuilding
<1>2. ASSUME turn' = popPhase PROVE Follows(turn')
  BY <1>1, <1>2, PoppedFollows
<1> DEFINE f == [top EXCEPT !.remaining = @ - 1]
<1>3. ASSUME turn' = replaceTop(f) PROVE Follows(turn')
  <2>1. UpperFrame(f, active, Seats)
    <3>1. f.id = top.id
      OBVIOUS
    <3> HIDE DEF f
    <3> QED
      BY <1>1, <3>1 DEF UpperFrame
  <2> HIDE DEF f
  <2> QED
    BY <1>1, <1>3, <2>1, ReplacedFollows
<1>4. Follows(turn')
  BY <1>2, <1>3 DEF PlaceFreeRoad, SkipRoadBuilding
<1>5. GoodHands(hand', bounds', bank', config, Seats)
  BY HandsStayGood DEF PlaceFreeRoad, SkipRoadBuilding
<1>6. GoodOffers(offers, active, Seats) /\ finalize(offers) /\ config' = config
  BY DEF GameInv, PlaceFreeRoad, SkipRoadBuilding
<1> QED
  BY <1>4, <1>5, <1>6, StepKeeps

LEMMA YearOfPlentyKeeps ==
  ASSUME GameInv, NEW c \in Counts, PlayYearOfPlenty(c)
  PROVE  GameInv'
<1> DEFINE got == Pointwise(c, bank, smaller)
<1>1. /\ bank \in Counts /\ hand \in [Seats -> Counts] /\ active \in Seats
  BY DEF GameInv, GoodHands, GoodTurn, active
<1>2. got \in Counts /\ bankHas(got)
  <2>1. got = [k \in Kinds |-> smaller(c[k], bank[k])]
    BY DEF Pointwise, Counts
  <2>2. \A k \in Kinds : smaller(c[k], bank[k]) \in Nat /\ smaller(c[k], bank[k]) <= bank[k]
    BY <1>1 DEF smaller, Counts
  <2> HIDE DEF got
  <2> QED
    BY <2>1, <2>2 DEF bankHas, Counts
<1>3. exchangeBank(active, zeroCounts, got)
  BY DEF PlayYearOfPlenty
<1> HIDE DEF got
<1>4. \A k \in Kinds : zeroCounts[k] <= hand[active][k]
  <2>1. hand[active] \in Counts
    BY <1>1
  <2> QED
    BY <2>1, ZeroFacts DEF Counts
<1>5. GoodHands(hand', bounds', bank', config, Seats)
  BY <1>1, <1>2, <1>3, <1>4, ZeroFacts, ExchangeKeeps
<1>6. Follows(turn')
  BY RevealedFollows DEF PlayYearOfPlenty
<1>7. GoodOffers(offers, active, Seats) /\ finalize(offers) /\ config' = config
  BY DEF GameInv, PlayYearOfPlenty
<1> QED
  BY <1>5, <1>6, <1>7, StepKeeps

LEMMA RevealCountKeeps ==
  ASSUME GameInv, NEW s, RevealCount(s)
  PROVE  GameInv'
<1> DEFINE k == top.resource
           n == hand[s][k]
           o == only(k, n)
           r == revealExact(bounds[s], k, n)
           b == loseKnown(r, o)
           a == gainKnown(bounds[active], o)
<1>1. /\ GoodTurn(turn, Seats) /\ TwoFrames(turn, Seats) /\ ~OneFrame(turn, Seats)
      /\ top.id = "monopoly" /\ k \in Kinds /\ top.remaining \subseteq Seats \ {active}
      /\ s \in Seats /\ active \in Seats /\ s # active
  BY TopTells, NotBoth DEF GameInv, RevealCount, GoodTurn, active
<1>2. /\ bounds' = [bounds EXCEPT ![s] = b, ![active] = a]
      /\ hand' = [hand EXCEPT ![s][k] = 0, ![active][k] = @ + n]
      /\ turn' = popPhase \/ turn' = replaceTop([top EXCEPT !.remaining = @ \ {s}])
      /\ bank' = bank /\ finalize(offers) /\ config' = config
  BY <1>1 DEF RevealCount
<1> HIDE DEF k
<1>3. /\ hand \in [Seats -> Counts] /\ bounds \in [Seats -> Enclosing]
      /\ Within(hand[s], bounds[s]) /\ Within(hand[active], bounds[active])
      /\ hand[s] \in Counts /\ hand[active] \in Counts /\ n \in Nat
      /\ bounds[s] \in Enclosing /\ bounds[active] \in Enclosing
  BY <1>1 DEF GameInv, GoodHands, Counts
<1>4. o \in Counts /\ \A j \in Kinds : o[j] = IF j = k THEN n ELSE 0
  BY <1>1, <1>3, SumOfOnly
<1>5. Within(hand[s], r) /\ Sound(r)
  BY <1>1, <1>3, RevealFollows
<1> HIDE DEF o, r
<1>6. Within(subtractCounts(hand[s], o), b) /\ Sound(b)
  <2>1. \A j \in Kinds : o[j] <= hand[s][j]
    BY <1>3, <1>4 DEF Counts
  <2>2. r \in Enclosing
    BY <1>5 DEF Sound
  <2> QED
    BY <1>4, <1>5, <2>1, <2>2, LoseKnownFollows
<1>7. Within(addCounts(hand[active], o), a) /\ Sound(a)
  BY <1>3, <1>4, GainKnownFollows
<1>8. hand' = [hand EXCEPT ![s] = subtractCounts(hand[s], o), ![active] = addCounts(hand[active], o)]
  <2>1. hand' = [hand EXCEPT ![s] = [hand[s] EXCEPT ![k] = 0], ![active] = [hand[active] EXCEPT ![k] = @ + n]]
    BY <1>1, <1>2, <1>3
  <2>2. /\ [hand[s] EXCEPT ![k] = @ - n] = subtractCounts(hand[s], o)
        /\ [hand[active] EXCEPT ![k] = @ + n] = addCounts(hand[active], o)
    BY <1>1, <1>3, OneCardChanges DEF o
  <2>3. [hand[s] EXCEPT ![k] = 0] = [hand[s] EXCEPT ![k] = @ - n]
    <3>1. hand[s][k] - n = 0
      BY <1>3
    <3> QED
      BY <3>1
  <2> QED
    BY <2>1, <2>2, <2>3
<1>9. n <= hand[s][k]
  BY <1>3
<1> HIDE DEF a, b, n
<1>10. GoodHands(hand', bounds', bank', config, Seats)
  BY <1>1, <1>2, <1>3, <1>6, <1>7, <1>8, <1>9, TransferKeeps DEF o
<1>11. Follows(turn')
  <2> DEFINE f == [top EXCEPT !.remaining = @ \ {s}]
  <2>1. UpperFrame(top, active, Seats)
    BY <1>1, TopIs DEF TwoFrames, active
  <2>2. UpperFrame(f, active, Seats)
    <3>1. /\ f.id = top.id /\ f.resource = top.resource
          /\ f.remaining = top.remaining \ {s} \/ f.remaining = top.remaining
      OBVIOUS
    <3> HIDE DEF f
    <3> QED
      BY <1>1, <3>1 DEF UpperFrame, k
  <2> HIDE DEF f
  <2>3. turn' = popPhase \/ turn' = replaceTop(f)
    BY <1>2 DEF f
  <2> QED
    BY <1>1, <2>2, <2>3, PoppedFollows, ReplacedFollows
<1>12. GoodOffers(offers, active, Seats)
  BY DEF GameInv
<1> QED
  BY <1>2, <1>10, <1>11, <1>12, StepKeeps

LEMMA MaritimeTradeKeeps ==
  ASSUME GameInv, NEW give \in Counts, NEW want \in Counts, MaritimeTrade(give, want)
  PROVE  GameInv'
<1>1. active \in Seats /\ GoodTurn(turn, Seats)
  BY DEF GameInv, GoodTurn, active
<1>2. \A k \in Kinds : give[k] <= hand[active][k]
  BY <1>1, PaysFromHand DEF MaritimeTrade
<1>3. GoodHands(hand', bounds', bank', config, Seats)
  BY <1>1, <1>2, ExchangeKeeps DEF MaritimeTrade
<1>4. Follows(turn') /\ GoodOffers(offers, active, Seats) /\ finalize(offers) /\ config' = config
  BY <1>1, StayFollows DEF GameInv, MaritimeTrade
<1> QED
  BY <1>3, <1>4, StepKeeps

\* Steps of the main phase that only open, answer or close offers.
LEMMA OffersKeep ==
  ASSUME GameInv, top.id = "main", handsStay, config' = config, turn' = turn,
         NEW os, GoodOffers(os, active, Seats), finalize(os)
  PROVE  GameInv'
<1>1. Follows(turn')
  BY StayFollows DEF GameInv
<1>2. GoodHands(hand', bounds', bank', config, Seats)
  BY HandsStayGood
<1> QED
  BY <1>1, <1>2, StepKeeps

\* A new offer of a seat in place of its last one.
LEMMA OpenedIsGood ==
  ASSUME GameInv, NEW s \in Seats, NEW side \in config.sides, NEW to, to \subseteq Seats, s \notin to,
         s # active => to = {active}
  PROVE  GoodOffers(opened(s, side, to), active, Seats)
<1> DEFINE n == [proposer |-> s, give |-> side.give, want |-> side.want, to |-> to,
                 acceptedBy |-> {}, declinedBy |-> {}, valid |-> TRUE]
<1>1. GoodOffer(n, active, Seats) /\ n.proposer = s
  <2>1. side.give \in Counts /\ side.want \in Counts
    BY SeatsFacts DEF GameInv
  <2> QED
    BY <2>1 DEF GoodOffer
<1>2. opened(s, side, to) = {o \in offers : o.proposer # s} \cup {n}
  BY DEF opened
<1> HIDE DEF n
<1>3. GoodOffers(offers, active, Seats)
  BY DEF GameInv
<1> QED
  BY <1>1, <1>2, <1>3 DEF GoodOffers

\* An offer with an answer more.
LEMMA AcceptedIsGood ==
  ASSUME NEW a, NEW S, NEW o, GoodOffer(o, a, S), NEW s, o.proposer = a, s \in o.to, s \notin o.declinedBy,
         NEW n, n = [o EXCEPT !.acceptedBy = @ \cup {s}]
  PROVE  GoodOffer(n, a, S) /\ n.proposer = o.proposer
<1>1. /\ DOMAIN n = DOMAIN o /\ n.proposer = o.proposer /\ n.give = o.give /\ n.want = o.want
      /\ n.to = o.to /\ n.acceptedBy = o.acceptedBy \cup {s} /\ n.declinedBy = o.declinedBy
  BY DEF GoodOffer
<1> QED
  BY <1>1 DEF GoodOffer

LEMMA DeclinedIsGood ==
  ASSUME NEW a, NEW S, NEW o, GoodOffer(o, a, S), NEW s, o.proposer = a, s \in o.to, s \notin o.acceptedBy,
         NEW n, n = [o EXCEPT !.declinedBy = @ \cup {s}]
  PROVE  GoodOffer(n, a, S) /\ n.proposer = o.proposer
<1>1. /\ DOMAIN n = DOMAIN o /\ n.proposer = o.proposer /\ n.give = o.give /\ n.want = o.want
      /\ n.to = o.to /\ n.acceptedBy = o.acceptedBy /\ n.declinedBy = o.declinedBy \cup {s}
  BY DEF GoodOffer
<1> QED
  BY <1>1 DEF GoodOffer

\* Some offers give way to changed ones of the same proposers.
LEMMA ChangedIsGood ==
  ASSUME NEW os, NEW a, NEW S, GoodOffers(os, a, S), NEW old, old \subseteq os, NEW new,
         \A n \in new : GoodOffer(n, a, S),
         \A n \in new : \E o \in old : n.proposer = o.proposer,
         \A n1, n2 \in new : n1.proposer = n2.proposer => n1 = n2
  PROVE  GoodOffers((os \ old) \cup new, a, S)
<1>1. ASSUME NEW o1 \in os \ old, NEW o2 \in new PROVE o1.proposer # o2.proposer
  BY DEF GoodOffers
<1> QED
  BY <1>1 DEF GoodOffers

LEMMA OpenKeeps ==
  ASSUME GameInv,
         \/ \E side \in config.sides, to \in SUBSET Seats : OfferTrade(side, to)
         \/ \E s \in Seats, side \in config.sides : ProposeTrade(s, side)
  PROVE  GameInv'
<1>1. active \in Seats
  BY DEF GameInv, GoodTurn, active
<1>2. ASSUME NEW side \in config.sides, NEW to \in SUBSET Seats, OfferTrade(side, to)
      PROVE  GameInv'
  <2>1. GoodOffers(opened(active, side, to), active, Seats)
    BY <1>1, <1>2, OpenedIsGood DEF OfferTrade
  <2> QED
    BY <1>2, <2>1, OffersKeep DEF OfferTrade
<1>3. ASSUME NEW s \in Seats, NEW side \in config.sides, ProposeTrade(s, side)
      PROVE  GameInv'
  <2>1. GoodOffers(opened(s, side, {active}), active, Seats)
    <3>1. {active} \subseteq Seats /\ s \notin {active}
      BY <1>1, <1>3 DEF ProposeTrade
    <3> QED
      BY <3>1, OpenedIsGood
  <2> QED
    BY <1>3, <2>1, OffersKeep DEF ProposeTrade
<1> QED
  BY <1>2, <1>3

LEMMA AnswerKeeps ==
  ASSUME GameInv, NEW s, NEW o, NEW accept, RespondTrade(s, o, accept) \/ CancelTrade(s, o)
  PROVE  GameInv'
<1>1. GoodOffers(offers, active, Seats) /\ o \in offers /\ GoodOffer(o, active, Seats)
  BY DEF GameInv, GoodOffers, RespondTrade, CancelTrade, unanswered
<1>2. GoodOffers(offers \ {o}, active, Seats)
  BY <1>1 DEF GoodOffers
<1>3. ASSUME NEW n, GoodOffer(n, active, Seats), n.proposer = o.proposer
      PROVE  GoodOffers((offers \ {o}) \cup {n}, active, Seats)
  BY <1>1, <1>3, ChangedIsGood
<1> DEFINE ya == [o EXCEPT !.acceptedBy = @ \cup {s}]
           no == [o EXCEPT !.declinedBy = @ \cup {s}]
           un == [o EXCEPT !.acceptedBy = @ \ {s}, !.declinedBy = @ \cup {s}]
<1>4. CASE RespondTrade(s, o, accept)
  <2>1. o.proposer = active /\ s \in o.to /\ s \notin o.acceptedBy /\ s \notin o.declinedBy
    BY <1>4 DEF RespondTrade, unanswered
  <2>2. /\ GoodOffer(ya, active, Seats) /\ ya.proposer = o.proposer
        /\ GoodOffer(no, active, Seats) /\ no.proposer = o.proposer
    <3>1. ya = [o EXCEPT !.acceptedBy = @ \cup {s}] /\ no = [o EXCEPT !.declinedBy = @ \cup {s}]
      OBVIOUS
    <3> HIDE DEF ya, no
    <3>2. GoodOffer(ya, active, Seats) /\ ya.proposer = o.proposer
      BY ONLY <1>1, <2>1, <3>1, AcceptedIsGood
    <3>3. GoodOffer(no, active, Seats) /\ no.proposer = o.proposer
      BY ONLY <1>1, <2>1, <3>1, DeclinedIsGood
    <3> QED
      BY <3>2, <3>3
  <2>3. /\ top.id = "main" /\ handsStay /\ config' = config /\ turn' = turn
        /\ finalize((offers \ {o}) \cup {IF accept THEN ya ELSE no})
    BY <1>4 DEF RespondTrade
  <2> HIDE DEF ya, no
  <2>4. GoodOffers((offers \ {o}) \cup {IF accept THEN ya ELSE no}, active, Seats)
    BY <1>3, <2>2
  <2> QED
    BY <2>3, <2>4, OffersKeep
<1>5. CASE CancelTrade(s, o)
  <2>1. top.id = "main" /\ handsStay /\ config' = config /\ turn' = turn
    BY <1>5 DEF CancelTrade
  <2>2. CASE finalize(offers \ {o})
    BY <1>2, <2>1, <2>2, OffersKeep
  <2>3. CASE s \in o.acceptedBy /\ finalize((offers \ {o}) \cup {un})
    <3>1. GoodOffer(un, active, Seats) /\ un.proposer = o.proposer
      <4>1. un = [o EXCEPT !.acceptedBy = @ \ {s}, !.declinedBy = @ \cup {s}]
        OBVIOUS
      <4> HIDE DEF un
      <4>2. s \in o.acceptedBy
        BY <2>3
      <4>3. /\ DOMAIN un = DOMAIN o /\ un.proposer = o.proposer /\ un.give = o.give /\ un.want = o.want
            /\ un.to = o.to /\ un.acceptedBy = o.acceptedBy \ {s}
            /\ un.declinedBy = o.declinedBy \cup {s}
        BY <1>1, <4>1 DEF GoodOffer
      <4> QED
        BY <1>1, <4>2, <4>3 DEF GoodOffer
    <3> HIDE DEF un
    <3>2. GoodOffers((offers \ {o}) \cup {un}, active, Seats)
      BY <1>3, <3>1
    <3> QED
      BY <2>1, <2>3, <3>2, OffersKeep
  <2> QED
    BY <1>5, <2>2, <2>3 DEF CancelTrade
<1> QED
  BY <1>4, <1>5

LEMMA DeclineAllKeeps ==
  ASSUME GameInv, NEW s, DeclineAll(s)
  PROVE  GameInv'
<1> DEFINE no(o) == [o EXCEPT !.declinedBy = @ \cup {s}]
           old == unanswered(s)
           new == {no(o) : o \in old}
<1>1. GoodOffers(offers, active, Seats) /\ old \subseteq offers
  BY DEF GameInv, unanswered
<1>2. ASSUME NEW o \in old
      PROVE  GoodOffer(no(o), active, Seats) /\ no(o).proposer = o.proposer
  <2>1. o.proposer = active /\ s \in o.to /\ s \notin o.acceptedBy /\ GoodOffer(o, active, Seats)
    BY <1>1 DEF unanswered, GoodOffers
  <2> DEFINE n == no(o)
  <2>2. n = [o EXCEPT !.declinedBy = @ \cup {s}]
    OBVIOUS
  <2> HIDE DEF n
  <2>3. GoodOffer(n, active, Seats) /\ n.proposer = o.proposer
    BY ONLY <2>1, <2>2, DeclinedIsGood
  <2> QED
    BY <2>3 DEF n
<1>3. /\ top.id = "main" /\ handsStay /\ config' = config /\ turn' = turn
      /\ finalize((offers \ old) \cup new)
  BY DEF DeclineAll
<1> HIDE DEF no, old
<1>4. /\ \A n \in new : GoodOffer(n, active, Seats)
      /\ \A n \in new : \E o \in old : n.proposer = o.proposer
      /\ \A n1, n2 \in new : n1.proposer = n2.proposer => n1 = n2
  <2>1. \A o1, o2 \in old : o1.proposer = o2.proposer => o1 = o2
    BY <1>1 DEF GoodOffers
  <2> QED
    BY <1>2, <2>1
<1> HIDE DEF new
<1>5. GoodOffers((offers \ old) \cup new, active, Seats)
  BY ONLY <1>1, <1>4, ChangedIsGood
<1> QED
  BY <1>3, <1>5, OffersKeep

LEMMA ConfirmKeeps ==
  ASSUME GameInv, NEW o, NEW other \in Seats, ConfirmTrade(o, other)
  PROVE  GameInv'
<1> DEFINE r == IF o.proposer = active THEN other ELSE active
           p == o.proposer
           h == addCounts(subtractCounts(hand[p], o.give), o.want)
           i == addCounts(subtractCounts(hand[r], o.want), o.give)
           b == gainKnown(loseKnown(bounds[p], o.give), o.want)
           a == loseKnown(gainKnown(bounds[r], o.give), o.want)
<1>1. /\ GoodOffers(offers, active, Seats) /\ GoodOffer(o, active, Seats) /\ o \in offers
      /\ GoodTurn(turn, Seats) /\ GoodHands(hand, bounds, bank, config, Seats)
      /\ active \in Seats /\ IsFiniteSet(Seats)
  BY SeatsFacts DEF GameInv, GoodOffers, GoodTurn, active, ConfirmTrade
<1>2. p \in Seats /\ r \in Seats /\ r # p /\ o.give \in Counts /\ o.want \in Counts
  BY <1>1 DEF GoodOffer, ConfirmTrade, counterparty
<1>3. pays(p, o.give) /\ pays(r, o.want)
  BY DEF ConfirmTrade
<1>4. /\ hand' = [hand EXCEPT ![p] = addCounts(subtractCounts(@, o.give), o.want),
                              ![r] = addCounts(subtractCounts(@, o.want), o.give)]
      /\ bounds' = [bounds EXCEPT ![p] = gainKnown(loseKnown(@, o.give), o.want),
                                  ![r] = loseKnown(gainKnown(@, o.give), o.want)]
      /\ finalize(offers \ {o}) /\ top.id = "main"
      /\ config' = config /\ turn' = turn /\ bank' = bank
  BY DEF ConfirmTrade
<1> HIDE DEF r, p
<1>5. /\ hand[p] \in Counts /\ hand[r] \in Counts /\ Within(hand[p], bounds[p])
      /\ Within(hand[r], bounds[r]) /\ bounds[p] \in Enclosing /\ bounds[r] \in Enclosing
      /\ hand \in [Seats -> Counts] /\ bounds \in [Seats -> Enclosing]
  BY <1>1, <1>2 DEF GoodHands
<1>6. \A k \in Kinds : o.give[k] <= hand[p][k] /\ o.want[k] <= hand[r][k]
  BY <1>2, <1>3, PaysFromHand
<1>7. Within(h, b) /\ Sound(b)
  <2>1. /\ Within(subtractCounts(hand[p], o.give), loseKnown(bounds[p], o.give))
        /\ Sound(loseKnown(bounds[p], o.give))
    BY <1>2, <1>5, <1>6, LoseKnownFollows
  <2>2. loseKnown(bounds[p], o.give) \in Enclosing
    BY <2>1 DEF Sound
  <2> QED
    BY ONLY <1>2, <2>1, <2>2, GainKnownFollows
<1>8. Within(i, a) /\ Sound(a)
  <2> DEFINE g == addCounts(hand[r], o.give)
  <2>1. Within(g, gainKnown(bounds[r], o.give)) /\ Sound(gainKnown(bounds[r], o.give))
    BY <1>2, <1>5, GainKnownFollows
  <2>2. gainKnown(bounds[r], o.give) \in Enclosing
    BY <2>1 DEF Sound
  <2>3. (\A k \in Kinds : o.want[k] <= g[k]) /\ subtractCounts(g, o.want) = i
    <3>1. \A k \in Kinds : /\ o.want[k] \in Nat /\ o.give[k] \in Nat /\ hand[r][k] \in Nat
                           /\ o.want[k] <= hand[r][k]
      BY <1>2, <1>5, <1>6 DEF Counts
    <3> QED
      BY <3>1 DEF addCounts, subtractCounts
  <2> HIDE DEF g, i
  <2>4. /\ Within(subtractCounts(g, o.want), loseKnown(gainKnown(bounds[r], o.give), o.want))
        /\ Sound(loseKnown(gainKnown(bounds[r], o.give), o.want))
    BY <1>2, <2>1, <2>2, <2>3, LoseKnownFollows
  <2> QED
    BY <2>3, <2>4
<1>9. h \in Counts /\ i \in Counts /\ \A k \in Kinds : h[k] + i[k] = hand[p][k] + hand[r][k]
  <2>1. \A k \in Kinds : /\ o.want[k] \in Nat /\ o.give[k] \in Nat /\ hand[r][k] \in Nat
                         /\ hand[p][k] \in Nat /\ o.give[k] <= hand[p][k] /\ o.want[k] <= hand[r][k]
    BY <1>2, <1>5, <1>6 DEF Counts
  <2> QED
    BY <2>1 DEF addCounts, subtractCounts, Counts
<1>10. hand' = [hand EXCEPT ![p] = h, ![r] = i] /\ bounds' = [bounds EXCEPT ![p] = b, ![r] = a]
  BY <1>2, <1>4, <1>5
<1> HIDE DEF h, i, a, b
<1>11. GoodHands([hand EXCEPT ![p] = h, ![r] = i], [bounds EXCEPT ![p] = b, ![r] = a], bank, config, Seats)
  BY ONLY <1>1, <1>2, <1>7, <1>8, <1>9, TwoHands
<1>12. GoodHands(hand', bounds', bank', config, Seats)
  BY <1>4, <1>10, <1>11
<1>13. GoodOffers(offers \ {o}, active, Seats) /\ Follows(turn')
  BY <1>1, <1>4, StayFollows DEF GoodOffers
<1> QED
  BY <1>1, <1>4, <1>12, <1>13, StepKeeps

LEMMA EndTurnKeeps ==
  ASSUME GameInv, NEW s, EndTurn(s)
  PROVE  GameInv'
<1>1. Seats' = Seats /\ config' = config /\ handsStay
  BY DEF Seats, EndTurn
<1>2. turn' = [active |-> nextSeat, phase |-> <<frame("preRoll")>>, devPlayed |-> FALSE]
  BY DEF EndTurn
<1>3. nextSeat \in Seats
  <2>1. active \in Seats /\ config.seats \in Nat /\ config.seats > 0
    BY SeatsFacts DEF GameInv, GoodTurn, active
  <2> QED
    BY <2>1 DEF nextSeat, Seats
<1>4. GoodTurn(turn', Seats)
  <2> DEFINE t == turn'
             f == frame("preRoll")
  <2>1. DOMAIN t = {"active", "phase", "devPlayed"} /\ t.active = nextSeat /\ t.phase = <<f>>
    BY <1>2
  <2>2. f.id = "preRoll"
    BY DEF frame
  <2> HIDE DEF t, f
  <2>3. OneFrame(t, Seats)
    BY <2>1, <2>2 DEF OneFrame, BottomFrame
  <2> QED
    BY <1>3, <2>1, <2>3 DEF GoodTurn, t
<1>5. offers' = {}
  BY DEF EndTurn, finalize
<1>6. GoodHands(hand', bounds', bank', config', Seats')
  BY <1>1, HandsStayGood
<1> QED
  BY <1>1, <1>4, <1>5, <1>6 DEF GameInv, GoodOffers

-----------------------------------------------------------------------------
LEMMA GameInvInitial ==
  GameInit => GameInv
<1> SUFFICES ASSUME GameInit PROVE GameInv
  OBVIOUS
<1>1. /\ config \in Configs /\ bank = config.bank /\ hand = config.hands /\ offers = {}
      /\ bounds = [s \in Seats |-> exactBounds(hand[s])]
      /\ turn = [active |-> 0, phase |-> <<frame("preRoll")>>, devPlayed |-> FALSE]
  BY DEF GameInit
<1>2. hand \in [Seats -> Counts] /\ bank \in Counts /\ 0 \in Seats
  BY <1>1, SeatsFacts
<1>3. GoodTurn(turn, Seats)
  <2> DEFINE t == turn
             f == frame("preRoll")
  <2>1. DOMAIN t = {"active", "phase", "devPlayed"} /\ t.active = 0 /\ t.phase = <<f>>
    BY <1>1
  <2>2. f.id = "preRoll"
    BY DEF frame
  <2> HIDE DEF t, f
  <2>3. OneFrame(t, Seats)
    BY <2>1, <2>2 DEF OneFrame, BottomFrame
  <2> QED
    BY <1>2, <2>1, <2>3 DEF GoodTurn, t
<1>4. \A s \in Seats : bounds[s] \in Enclosing /\ Within(hand[s], bounds[s]) /\ Tight(bounds[s])
  BY <1>1, <1>2, ExactIsSound DEF Sound
<1>5. GoodHands(hand, bounds, bank, config, Seats)
  BY <1>1, <1>2, <1>4 DEF GoodHands
<1> QED
  BY <1>1, <1>3, <1>5 DEF GameInv, GoodOffers

LEMMA CountsUpTo ==
  ASSUME NEW m, NEW c \in [Kinds -> 0..m]
  PROVE  c \in Counts
<1>1. \A k \in Kinds : c[k] \in 0..m
  OBVIOUS
<1>2. \A i \in 0..m : i \in Nat
  OBVIOUS
<1> QED
  BY <1>1, <1>2 DEF Counts

LEMMA TimeoutKeeps ==
  ASSUME GameInv, NEW s \in Seats, Timeout(s)
  PROVE  GameInv'
BY RollDiceKeeps, MoveRobberKeeps, StealKeeps, OwnDiscardKeeps, FreeRoadKeeps, EndTurnKeeps,
   DeclineAllKeeps DEF Timeout

LEMMA CommandsKeep ==
  ASSUME GameInv, Commands
  PROVE  GameInv'
<1>1. ASSUME NEW s \in Seats, RollDice(s) \/ EndTurn(s) \/ SkipRoadBuilding(s)
      PROVE  GameInv'
  BY <1>1, RollDiceKeeps, EndTurnKeeps, FreeRoadKeeps
<1>2. ASSUME NEW s \in Seats, NEW c \in [Kinds -> 0..Max({bounds[t].total : t \in Seats})], Discard(s, c)
      PROVE  GameInv'
  <2>1. c \in Counts
    BY CountsUpTo
  <2> QED
    BY <1>2, <2>1, DiscardKeeps
<1>3. ASSUME NEW c \in pairsOfCards, PlayYearOfPlenty(c)
      PROVE  GameInv'
  <2>1. c \in Counts
    BY DEF pairsOfCards, Counts
  <2> QED
    BY <1>3, <2>1, YearOfPlentyKeeps
<1>4. ASSUME NEW k \in Kinds, NEW l \in Kinds, MaritimeTrade(only(k, config.rate), only(l, 1))
      PROVE  GameInv'
  <2>1. config.rate \in Nat
    BY ConfigsAssumption DEF GameInv
  <2>2. only(k, config.rate) \in Counts /\ only(l, 1) \in Counts
    BY <2>1, SumOfOnly
  <2> QED
    BY <1>4, <2>2, MaritimeTradeKeeps
<1>5. ASSUME \/ \E side \in config.sides, to \in SUBSET Seats : OfferTrade(side, to)
             \/ \E s \in Seats, side \in config.sides : ProposeTrade(s, side)
             \/ \E s \in Seats, o \in offers, accept \in BOOLEAN : RespondTrade(s, o, accept)
             \/ \E o \in offers, other \in Seats : ConfirmTrade(o, other)
             \/ \E s \in Seats, o \in offers : CancelTrade(s, o)
      PROVE  GameInv'
  BY <1>5, OpenKeeps, AnswerKeeps, ConfirmKeeps
<1>6. ASSUME Build \/ BuyDevCard \/ PlayKnight \/ PlayRoadBuilding \/ PlaceFreeRoad
             \/ (\E k \in Kinds : PlayMonopoly(k))
      PROVE  GameInv'
  BY <1>6, BuildKeeps, PlayCardKeeps, FreeRoadKeeps
<1>7. ASSUME (\E s \in Seats, h \in Hexes : MoveRobber(s, h)) \/ \E s \in Seats, victim \in Seats : Steal(s, victim)
      PROVE  GameInv'
  BY <1>7, MoveRobberKeeps, StealKeeps
<1> QED
  BY <1>1, <1>2, <1>3, <1>4, <1>5, <1>6, <1>7 DEF Commands

LEMMA AutomaticKeeps ==
  ASSUME GameInv, Automatic
  PROVE  GameInv'
<1>1. ASSUME NEW h \in Hexes, Produce(h) PROVE GameInv'
  BY <1>1, ProduceKeeps
<1>2. ASSUME Seven PROVE GameInv'
  BY <1>2, SevenKeeps
<1>3. ASSUME NEW k \in Kinds, NEW known \in BOOLEAN, StealResult(k, known) PROVE GameInv'
  BY <1>3, StealResultKeeps
<1>4. ASSUME NEW c \in config.cards, CardDealt(c) PROVE GameInv'
  BY <1>4, CardDealtKeeps
<1>5. ASSUME NEW s \in Seats, RevealCount(s) \/ TimedDiscard(s) \/ Timeout(s) PROVE GameInv'
  BY <1>5, RevealCountKeeps, OwnDiscardKeeps, TimeoutKeeps
<1> QED
  BY <1>1, <1>2, <1>3, <1>4, <1>5 DEF Automatic

LEMMA GameInvStep ==
  GameInv /\ [GameNext]_gameVars => GameInv'
<1> SUFFICES ASSUME GameInv, [GameNext]_gameVars PROVE GameInv'
  OBVIOUS
<1>1. CASE Commands
  BY <1>1, CommandsKeep
<1>2. CASE Automatic
  BY <1>2, AutomaticKeeps
<1>3. CASE \E s \in Seats : Timeout(s)
  BY <1>3, TimeoutKeeps
<1>4. CASE UNCHANGED gameVars
  <2>1. /\ config' = config /\ turn' = turn /\ hand' = hand /\ bounds' = bounds /\ bank' = bank
        /\ offers' = offers
    BY <1>4 DEF gameVars
  <2>2. Seats' = Seats /\ active' = active
    BY <2>1 DEF Seats, active
  <2> QED
    BY <2>1, <2>2 DEF GameInv
<1> QED
  BY <1>1, <1>2, <1>3, <1>4 DEF GameNext

LEMMA BoundsFromInv ==
  GameInv => HandsWithinBounds
<1> SUFFICES ASSUME GameInv PROVE HandsWithinBounds
  OBVIOUS
<1>1. ASSUME NEW s \in Seats
      PROVE  LET b == bounds[s]
                 possible == hands(b)
             IN /\ hand[s] \in possible
                /\ \A k \in Kinds : /\ \E h \in possible : h[k] = b.min[k]
                                  /\ \E h \in possible : h[k] = b.max[k]
                /\ \A side \in config.sides :
                     canAfford(b, side.give)
                         <=> \E h \in possible : \A k \in Kinds : side.give[k] <= h[k]
  <2> DEFINE b == bounds[s]
  <2>1. b \in Enclosing /\ b \in Loose /\ Within(hand[s], b) /\ Tight(b)
    BY EnclosingIsLoose DEF GameInv, GoodHands
  <2> HIDE DEF b
  <2>2. \A h : h \in hands(b) <=> Within(h, b)
    BY <2>1, HandsAre
  <2>3. \A h : Within(h, b) => h \in Counts
    BY DEF Within
  <2>4. hand[s] \in hands(b)
    BY <2>1, <2>2
  <2>5. \A k \in Kinds : /\ \E h \in hands(b) : h[k] = b.min[k]
                         /\ \E h \in hands(b) : h[k] = b.max[k]
    BY <2>1, <2>2 DEF Tight
  <2>6. ASSUME NEW side \in config.sides
        PROVE  canAfford(b, side.give) <=> \E h \in hands(b) : \A k \in Kinds : side.give[k] <= h[k]
    <3>1. side.give \in Counts
      BY SeatsFacts DEF GameInv
    <3>2. canAfford(b, side.give)
             <=> \E h \in Counts : Within(h, b) /\ \A k \in Kinds : side.give[k] <= h[k]
      BY <2>1, <3>1, AffordIsPossible
    <3> QED
      BY <2>2, <2>3, <3>2
  <2> QED
    BY <2>4, <2>5, <2>6 DEF b
<1>2. ASSUME NEW k \in Kinds
      PROVE  bank[k] + SumFunction([s \in Seats |-> hand[s][k]])
                 = config.bank[k] + SumFunction([s \in Seats |-> config.hands[s][k]])
  <2>1. InPlay(hand, bank, k, Seats) = InPlay(config.hands, config.bank, k, Seats)
    BY DEF GameInv, GoodHands
  <2>2. /\ SumFunction([s \in Seats |-> hand[s][k]]) = Sum([s \in Seats |-> hand[s][k]], Seats)
        /\ SumFunction([s \in Seats |-> config.hands[s][k]])
              = Sum([s \in Seats |-> config.hands[s][k]], Seats)
    BY DEF SumFunction, Sum
  <2> QED
    BY <2>1, <2>2 DEF InPlay
<1> QED
  BY <1>1, <1>2 DEF HandsWithinBounds

LEMMA OffersFromInv ==
  GameInv => OffersAreSound
<1> SUFFICES ASSUME GameInv PROVE OffersAreSound
  OBVIOUS
<1>1. ASSUME NEW o \in offers
      PROVE  /\ turn.phase[1].id = "main"
             /\ o.valid = canAfford(bounds[o.proposer], o.give)
             /\ o.proposer \notin o.to
             /\ o.acceptedBy \cap o.declinedBy = {}
             /\ o.acceptedBy \cup o.declinedBy \subseteq (IF o.proposer = active THEN o.to ELSE {})
             /\ o.proposer # active => o.to = {active}
  BY DEF GameInv, GoodOffers, GoodOffer
<1>2. \A o1, o2 \in offers : o1.proposer = o2.proposer => o1 = o2
  BY DEF GameInv, GoodOffers
<1> QED
  BY <1>1, <1>2 DEF OffersAreSound

\* The public bounds of every hand enclose it, are as narrow as bounds can be,
\* judge every price as the possible hands do, and no card is made or lost: for
\* every number of seats, kinds and cards, every board and every sequence of
\* commands, results and timeouts (core/resources/bounds.ts, modules/base).
THEOREM HandsAreEnclosed == GameSpec => []HandsWithinBounds
BY GameInvInitial, GameInvStep, BoundsFromInv, PTL DEF GameSpec

\* An open offer belongs to the turn that is played, says truly whether its
\* proposer can pay it, and holds answers only of those it was made to
\* (modules/base/shared.ts, finalize; modules/base/trade.ts).
THEOREM OffersStaySound == GameSpec => []OffersAreSound
BY GameInvInitial, GameInvStep, OffersFromInv, PTL DEF GameSpec

=============================================================================
