-------------------------- MODULE ConsensusProofs --------------------------
(***************************************************************************)
(* Proofs about Consensus, for any membership, any Byzantine voters, any   *)
(* values and rounds: the reducers implement Agreement, a round is earned, *)
(* and a halt is final.                                                    *)
(*                                                                         *)
(* The argument follows a record through a transition of voter s.  What    *)
(* the record knows of the others is real (Known), its own votes, its      *)
(* proposals and its timers agree with its round and step (Placed), and    *)
(* compared with the record the transition started from it did what        *)
(* Agreement allows one step of s to do (Moves).  Every helper of the      *)
(* reducers keeps these three; a transition that ends is installed, and is *)
(* then one step of Agreement.                                             *)
(*                                                                         *)
(* The second half shows that a voter can always be restarted, that        *)
(* evidence stops the voter it concerns and names nobody wrongly, and that *)
(* one Byzantine voter makes no honest one halt.  restoreConsensusState    *)
(* checks many relations between the fields of a record, and every reducer *)
(* changes several fields.  A further invariant is the list of those       *)
(* relations (Intact), on top of the first half; it is kept by each        *)
(* helper, so that it holds in the middle of a transition too.  It needs   *)
(* no hypothesis, so two of the relations are stated conditionally.  They  *)
(* fail, and restoring with them, where a local policy may decline a value *)
(* between the two votes of a voter (Refusable) or an engine may decline a *)
(* certified value (Rejects).  The last invariant follows what a voter     *)
(* believes of the others (Told): each accusation has a contradiction      *)
(* behind it that only a Byzantine seat can have signed.                   *)
(***************************************************************************)
EXTENDS Consensus, FiniteSetTheorems, SequenceTheorems, WellFoundedInduction, TLAPS

\* The honest voters that run the reducers.
Running == Honest \cap Active

-----------------------------------------------------------------------------
(***************************************************************************)
(* Records.                                                                *)
(***************************************************************************)

Seats == Voters \cup {Proposer(r) : r \in Rounds}
Accused == Accusable \cup {None}
Steps == {"propose", "prevote", "precommit"}
VoteTables == [Phases -> [Voters -> [Rounds -> Ballots \cup {None}]]]
VoteHints == [kind : {"vote"}, round : Rounds, phase : Phases, ballot : Ballots]
ProposalHints == [kind : {"proposal"}, round : Rounds, proposal : Proposals]
HintTables == [Voters -> {NoHint} \cup VoteHints \cup ProposalHints]
ProposalTables == [Rounds -> Seq(Proposals)]
Evidence == [kind : {"prevote", "precommit", "proposal"}, seat : Seats, round : Rounds]
QuorumValues == {NoQuorumValue} \cup [round : Rounds, value : Values]
Halts == {"terminal", "certified-validation", None}

Records ==
    [round : Rounds, step : Steps, inputKnown : BOOLEAN, timers : SUBSET Timers,
     proposals : ProposalTables, votes : VoteTables, hints : HintTables,
     equivocations : SUBSET Evidence, pendingAccusation : Accused, provenOffender : Accused,
     locked : QuorumValues, valid : QuorumValues, decision : Values \cup {None},
     unapplied : Values \cup {None}, halted : Halts]

-----------------------------------------------------------------------------
(***************************************************************************)
(* What a record knows of the other voters.                                *)
(***************************************************************************)

\* The vote of t, seen by voter s who has the given votes in hand.
Cast(s, votes, phase, t, r) ==
    IF t = s THEN votes[phase][s][r] ELSE rec[t].votes[phase][t][r]

\* A certificate that s can rely on.
Backs(s, votes, phase, r, v) ==
    \E signers \in Quorums :
        \A t \in signers \ Byzantine : t \in Active /\ Cast(s, votes, phase, t, r) = v

\* The certificate that a proposal refers to exists.
Backed(s, votes, p) ==
    p.validRound # 0 =>
        /\ p.validRound \in Rounds /\ p.validRound < p.term
        /\ Backs(s, votes, "prevote", p.validRound, p.value)

KnownVotes(s, votes) ==
    \A phase \in Phases, t \in Voters, r \in Rounds :
        t # s /\ t \notin Byzantine /\ votes[phase][t][r] # None
            => t \in Active /\ rec[t].votes[phase][t][r] = votes[phase][t][r]

KnownHint(s, votes, t, hint) ==
    /\ hint.kind = "vote" =>
          /\ t # s
          /\ t \notin Byzantine =>
                t \in Active /\ rec[t].votes[hint.phase][t][hint.round] = hint.ballot
    /\ hint.kind = "proposal" =>
          /\ hint.proposal.term = hint.round
          /\ Backed(s, votes, hint.proposal)
          /\ t \notin Byzantine => t \in Active /\ rec[t].proposals[hint.round] # <<>>

KnownHints(s, votes, hints) == \A t \in Voters : KnownHint(s, votes, t, hints[t])

KnownProposals(s, votes, proposals) ==
    \A r \in Rounds : \A i \in DOMAIN proposals[r] : Backed(s, votes, proposals[r][i])

KnownValid(s, votes, proposals, r, q) ==
    q # NoQuorumValue =>
        /\ q.round <= r
        /\ proposals[q.round] # <<>>
        /\ Backs(s, votes, "prevote", q.round, q.value)

KnownUnapplied(s, votes, v) == v # None => \E r \in Rounds : Backs(s, votes, "precommit", r, v)

Known(s, c) ==
    /\ KnownVotes(s, c.votes)
    /\ KnownHints(s, c.votes, c.hints)
    /\ KnownProposals(s, c.votes, c.proposals)
    /\ KnownValid(s, c.votes, c.proposals, c.round, c.valid)
    /\ KnownUnapplied(s, c.votes, c.unapplied)

-----------------------------------------------------------------------------
(***************************************************************************)
(* What a record holds agrees with its round and its step.                 *)
(***************************************************************************)

\* No vote is ahead of the round, and the own votes of s agree with its step.
NoneAhead(r, votes) ==
    \A phase \in Phases, t \in Voters, q \in Rounds : q > r => votes[phase][t][q] = None

PlacedVotes(s, step, r, votes) ==
    /\ NoneAhead(r, votes)
    /\ step = "propose" => votes["prevote"][s][r] = None /\ votes["precommit"][s][r] = None
    /\ step = "prevote" => votes["prevote"][s][r] # None /\ votes["precommit"][s][r] = None

PlacedProposals(r, proposals) == \A q \in Rounds : q > r => proposals[q] = <<>>

Present(votes, phase, r) == {t \in Voters : votes[phase][t][r] # None}

PlacedTimers(timers, r, votes) ==
    "precommit" \in timers => Cardinality(Present(votes, "precommit", r)) >= Quorum

Placed(s, c) ==
    /\ PlacedVotes(s, c.step, c.round, c.votes)
    /\ PlacedProposals(c.round, c.proposals)
    /\ PlacedTimers(c.timers, c.round, c.votes)

-----------------------------------------------------------------------------
(***************************************************************************)
(* What a transition of s did, from rec[s] to c.                           *)
(***************************************************************************)

\* The rule of Agreement for prevoting v at round r.
Allowed(s, r, v) ==
    \/ rec[s].locked.round = 0
    \/ rec[s].locked.value = v
    \/ \E vr \in Rounds :
          vr >= rec[s].locked.round /\ vr < r /\ Backs(s, rec[s].votes, "prevote", vr, v)

WithBallot(row, r, ballot) == [row EXCEPT ![r] = ballot]

MovesPrevote(s, r, votes) ==
    \/ votes["prevote"][s] = rec[s].votes["prevote"][s]
    \/ /\ rec[s].votes["prevote"][s][r] = None
       /\ \E ballot \in {Nil} \cup {v \in Values : Allowed(s, r, v)} :
             votes["prevote"][s] = WithBallot(rec[s].votes["prevote"][s], r, ballot)

\* Nothing was precommitted yet; nothing was voted yet.
Uncommitted(s, votes, locked) ==
    votes["precommit"][s] = rec[s].votes["precommit"][s] /\ locked = rec[s].locked
Unvoted(s, votes, locked) ==
    votes["prevote"][s] = rec[s].votes["prevote"][s] /\ Uncommitted(s, votes, locked)

MovesPrecommit(s, r, votes, locked) ==
    \/ Uncommitted(s, votes, locked)
    \/ /\ rec[s].votes["precommit"][s][r] = None
       /\ votes["prevote"][s][r] # None
       /\ votes["precommit"][s] = WithBallot(rec[s].votes["precommit"][s], r, Nil)
       /\ locked = rec[s].locked
    \/ /\ rec[s].votes["precommit"][s][r] = None
       /\ votes["prevote"][s][r] # None
       /\ \E v \in Values :
             /\ Backs(s, votes, "prevote", r, v)
             /\ locked = QuorumValue(r, v)
             /\ \E ballot \in {v, Nil} :
                   votes["precommit"][s] = WithBallot(rec[s].votes["precommit"][s], r, ballot)

MovesDecision(s, votes, decision) ==
    \/ decision = rec[s].decision
    \/ /\ rec[s].decision = None
       /\ \E r \in Rounds : Backs(s, votes, "precommit", r, decision)

MovesProposals(s, proposals) ==
    \A r \in Rounds : rec[s].proposals[r] # <<>> => proposals[r] # <<>>

\* Why voter s may stand in round r.
Earned(s, r) ==
    \/ r = rec[s].round
    \/ r = rec[s].round + 1 /\ anyQuorum(rec[s], rec[s].round, "precommit")
    \/ \E t \in Running : rec[t].round >= r
    \/ \E t, u \in Byzantine : t # u

Moves(s, c) ==
    /\ rec[s].round \in Rounds /\ rec[s].round <= c.round /\ Earned(s, c.round)
    /\ MovesPrevote(s, c.round, c.votes)
    /\ MovesPrecommit(s, c.round, c.votes, c.locked)
    /\ MovesDecision(s, c.votes, c.decision)
    /\ MovesProposals(s, c.proposals)
    /\ c.step = "propose" => Unvoted(s, c.votes, c.locked)
    /\ c.step = "prevote" => Uncommitted(s, c.votes, c.locked)

Good(s, c) == c \in Records /\ Known(s, c) /\ Placed(s, c) /\ Moves(s, c)

Inv ==
    /\ excluded \in Exclusions
    /\ rec = [s \in Active |-> rec[s]]
    /\ \A s \in Active : Good(s, rec[s])

-----------------------------------------------------------------------------
(***************************************************************************)
(* Changes that none of this depends on.                                   *)
(***************************************************************************)

\* d differs from c at most in what the arguments below do not look at.
Same(c, d) ==
    /\ d \in Records
    /\ d.round = c.round /\ d.step = c.step /\ d.proposals = c.proposals
    /\ d.votes = c.votes /\ d.hints = c.hints /\ d.locked = c.locked /\ d.valid = c.valid
    /\ d.decision = c.decision /\ d.unapplied \in {None, c.unapplied}
    /\ "precommit" \in d.timers => "precommit" \in c.timers

LEMMA SameGood ==
  ASSUME NEW s, NEW c, NEW d, Good(s, c), Same(c, d)
  PROVE  Good(s, d)
<1>1. Known(s, d)
  BY DEF Good, Same, Known, KnownUnapplied
<1>2. Placed(s, d)
  BY DEF Good, Same, Placed, PlacedTimers
<1>3. Moves(s, d)
  BY DEF Good, Same, Moves
<1> QED
  BY <1>1, <1>2, <1>3 DEF Good, Same

LEMMA SameTwice ==
  ASSUME NEW c, NEW d, NEW e, Same(c, d), Same(d, e)
  PROVE  Same(c, e)
BY DEF Same

LEMMA HaltSame ==
  ASSUME NEW c \in Records
  PROVE  Same(c, c) /\ Same(c, halt(c)) /\ Same(c, terminalFault(c))
<1>1. halt(c) \in Records /\ terminalFault(c) \in Records
  BY DEF Records, halt, terminalFault, Halts
<1> QED
  BY <1>1 DEF Same, halt, terminalFault, Records

LEMMA ThresholdSame ==
  ASSUME NEW s, NEW c \in Records
  PROVE  Same(c, haltIfFaultThresholdExceeded(s, c))
BY HaltSame DEF haltIfFaultThresholdExceeded

LEMMA InputSame ==
  ASSUME NEW c \in Records
  PROVE  Same(c, [c EXCEPT !.inputKnown = TRUE]) /\ Same(c, inputAvailable(c))
<1> DEFINE t == IF c.step = "propose" THEN c.timers \cup {"propose"} ELSE c.timers
<1>1. t \in SUBSET Timers /\ ("precommit" \in t => "precommit" \in c.timers)
  BY DEF Records, Timers
<1>2. inputAvailable(c) \in {c, [c EXCEPT !.inputKnown = TRUE, !.timers = t]}
  BY DEF inputAvailable
<1> HIDE DEF t
<1>3. Same(c, [c EXCEPT !.inputKnown = TRUE, !.timers = t])
  BY <1>1 DEF Same, Records
<1>4. Same(c, [c EXCEPT !.inputKnown = TRUE])
  BY DEF Same, Records
<1> QED
  BY <1>2, <1>3, <1>4, HaltSame

LEMMA RetainSame ==
  ASSUME NEW s, NEW c \in Records, NEW o \in Accusable, NEW foreign
  PROVE  Same(c, retainAccusation(s, c, o, foreign))
<1> DEFINE proven == IF c.provenOffender = None THEN o ELSE c.provenOffender
           kept == [c EXCEPT !.pendingAccusation = o, !.provenOffender = proven]
<1>1. retainAccusation(s, c, o, foreign) \in {terminalFault(c), c, halt(c), kept}
  BY DEF retainAccusation
<1>2. proven \in Accused /\ o \in Accused
  BY DEF Accused, Records
<1> HIDE DEF proven
<1>3. Same(c, kept)
  BY <1>2 DEF Same, Records
<1> QED
  BY <1>1, <1>3, HaltSame

LEMMA ClearSame ==
  ASSUME NEW c \in Records
  PROVE  Same(c, clearStaleAccusation(c))
<1>1. None \in Accused
  BY DEF Accused
<1>2. Same(c, [c EXCEPT !.pendingAccusation = None])
  BY <1>1 DEF Same, Records
<1> QED
  BY <1>2, HaltSame DEF clearStaleAccusation

-----------------------------------------------------------------------------
(***************************************************************************)
(* Facts about the constants.                                              *)
(***************************************************************************)

LEMMA VotersFinite == IsFiniteSet(Voters)
<1>1. PICK n \in Nat : DOMAIN Membership = 1..n
  BY ConsensusAssumption
<1>2. Membership \in Surjection(1..n, Voters)
  BY <1>1, ConsensusAssumption DEF Surjection, Voters
<1>3. IsFiniteSet(1..n)
  BY FS_Interval
<1> QED
  BY <1>2, <1>3, FS_Surjection

LEMMA ActiveVoter ==
  ASSUME NEW s \in Active
  PROVE  s \in Voters /\ s \in Active
BY ConsensusAssumption

LEMMA RunningVoter ==
  ASSUME NEW s \in Running
  PROVE  s \in Voters /\ s \in Active /\ s \in Honest /\ s \notin Byzantine
BY DEF Running, Honest

LEMMA RoundFacts ==
  /\ MaxRound \in Nat /\ 1 \in Rounds /\ 0 \notin Rounds /\ Rounds \subseteq Nat
  /\ Nil \notin Values /\ None \notin Values /\ Nil # None
  /\ Phases = {"prevote", "precommit"} /\ "prevote" \in Phases /\ "precommit" \in Phases
BY ConsensusAssumption DEF Rounds, Phases

-----------------------------------------------------------------------------
(***************************************************************************)
(* Votes are only added.                                                   *)
(***************************************************************************)

Grows(votes, w) ==
    \A phase \in Phases, t \in Voters, r \in Rounds :
        votes[phase][t][r] # None => w[phase][t][r] = votes[phase][t][r]

LEMMA BacksGrows ==
  ASSUME NEW s \in Active, NEW votes, NEW w, Grows(votes, w),
         NEW phase \in Phases, NEW r \in Rounds, NEW v, v # None, Backs(s, votes, phase, r, v)
  PROVE  Backs(s, w, phase, r, v)
<1>1. PICK signers \in Quorums :
        \A t \in signers \ Byzantine : t \in Active /\ Cast(s, votes, phase, t, r) = v
  BY DEF Backs
<1>2. ASSUME NEW t \in signers \ Byzantine PROVE t \in Active /\ Cast(s, w, phase, t, r) = v
  BY <1>1, ActiveVoter DEF Cast, Grows
<1> QED
  BY <1>2 DEF Backs

LEMMA BackedGrows ==
  ASSUME NEW s \in Active, NEW votes, NEW w, Grows(votes, w), NEW p \in Proposals, Backed(s, votes, p)
  PROVE  Backed(s, w, p)
<1> SUFFICES ASSUME p.validRound # 0
             PROVE  /\ p.validRound \in Rounds /\ p.validRound < p.term
                    /\ Backs(s, w, "prevote", p.validRound, p.value)
  BY DEF Backed
<1>1. /\ p.validRound \in Rounds /\ p.validRound < p.term
      /\ Backs(s, votes, "prevote", p.validRound, p.value)
  BY DEF Backed
<1>2. p.value # None
  BY RoundFacts DEF Proposals
<1> QED
  BY <1>1, <1>2, RoundFacts, BacksGrows

LEMMA PresentGrows ==
  ASSUME NEW votes, NEW w, Grows(votes, w), NEW phase \in Phases, NEW r \in Rounds
  PROVE  /\ Cardinality(Present(votes, phase, r)) \in Nat
         /\ Cardinality(Present(w, phase, r)) \in Nat
         /\ Cardinality(Present(votes, phase, r)) <= Cardinality(Present(w, phase, r))
<1>1. Present(votes, phase, r) \subseteq Present(w, phase, r) /\ Present(w, phase, r) \subseteq Voters
  BY DEF Present, Grows
<1> QED
  BY <1>1, VotersFinite, FS_Subset, FS_CardinalityType

LEMMA QuorumInt == Quorum \in Int
<1>1. Cardinality(Voters) \in Nat
  BY VotersFinite, FS_CardinalityType
<1> DEFINE n == Cardinality(Voters)
<1> HIDE DEF n
<1>2. quorumSize(n) \in Int
  BY <1>1 DEF n, quorumSize
<1> QED
  BY <1>2 DEF n, Quorum

\* What a record holds besides votes stands when votes are added.
LEMMA VotesFrame ==
  ASSUME NEW s \in Active, NEW c, Good(s, c), NEW w \in VoteTables, Grows(c.votes, w)
  PROVE  /\ KnownHints(s, w, c.hints)
         /\ KnownProposals(s, w, c.proposals)
         /\ KnownValid(s, w, c.proposals, c.round, c.valid)
         /\ KnownUnapplied(s, w, c.unapplied)
         /\ PlacedTimers(c.timers, c.round, w)
<1>0. c \in Records /\ Known(s, c) /\ Placed(s, c)
  BY DEF Good
<1>1. KnownHints(s, w, c.hints)
  <2> SUFFICES ASSUME NEW t \in Voters PROVE KnownHint(s, w, t, c.hints[t])
    BY DEF KnownHints
  <2>1. KnownHint(s, c.votes, t, c.hints[t])
    BY <1>0 DEF Known, KnownHints
  <2>2. c.hints[t].kind = "proposal" => c.hints[t].proposal \in Proposals
    <3>1. c.hints[t] \in {NoHint} \cup VoteHints \cup ProposalHints
      BY <1>0 DEF Records, HintTables
    <3> QED
      BY <3>1 DEF NoHint, VoteHints, ProposalHints
  <2> QED
    BY <2>1, <2>2, BackedGrows DEF KnownHint
<1>2. KnownProposals(s, w, c.proposals)
  <2> SUFFICES ASSUME NEW r \in Rounds, NEW i \in DOMAIN c.proposals[r]
               PROVE  Backed(s, w, c.proposals[r][i])
    BY DEF KnownProposals
  <2>1. c.proposals[r] \in Seq(Proposals)
    BY <1>0 DEF Records, ProposalTables
  <2>2. c.proposals[r][i] \in Proposals
    BY <2>1
  <2>3. Backed(s, c.votes, c.proposals[r][i])
    BY <1>0 DEF Known, KnownProposals
  <2> QED
    BY <2>2, <2>3, BackedGrows
<1>3. KnownValid(s, w, c.proposals, c.round, c.valid)
  <2>1. c.valid # NoQuorumValue => c.valid.round \in Rounds /\ c.valid.value # None
    BY <1>0, RoundFacts DEF Records, QuorumValues
  <2> QED
    BY <1>0, <2>1, RoundFacts, BacksGrows DEF Known, KnownValid
<1>4. KnownUnapplied(s, w, c.unapplied)
  BY <1>0, RoundFacts, BacksGrows DEF Known, KnownUnapplied
<1>5. PlacedTimers(c.timers, c.round, w)
  <2>1. c.round \in Rounds
    BY <1>0 DEF Records
  <2> DEFINE k == Cardinality(Present(c.votes, "precommit", c.round))
             l == Cardinality(Present(w, "precommit", c.round))
  <2>2. k \in Nat /\ l \in Nat /\ k <= l
    BY <2>1, PresentGrows, RoundFacts
  <2>3. "precommit" \in c.timers => k >= Quorum
    BY <1>0 DEF Placed, PlacedTimers
  <2> HIDE DEF k, l
  <2>4. "precommit" \in c.timers => l >= Quorum
    BY <2>2, <2>3, QuorumInt
  <2> QED
    BY <2>4 DEF PlacedTimers, l
<1> QED
  BY <1>1, <1>2, <1>3, <1>4, <1>5

\* A vote where none was.
WithVote(votes, phase, t, r, ballot) == [votes EXCEPT ![phase][t][r] = ballot]

LEMMA VoteAdded ==
  ASSUME NEW votes \in VoteTables, NEW phase \in Phases, NEW t \in Voters, NEW r \in Rounds,
         votes[phase][t][r] = None, NEW ballot \in Ballots,
         NEW w, w = WithVote(votes, phase, t, r, ballot)
  PROVE  /\ w \in VoteTables
         /\ Grows(votes, w)
         /\ w[phase][t] = WithBallot(votes[phase][t], r, ballot)
         /\ w[phase][t][r] = ballot
         /\ \A f \in Phases, u \in Voters : f # phase \/ u # t => w[f][u] = votes[f][u]
         /\ \A q \in Rounds : q # r => w[phase][t][q] = votes[phase][t][q]
<1>1. /\ votes[phase] \in [Voters -> [Rounds -> Ballots \cup {None}]]
      /\ votes[phase][t] \in [Rounds -> Ballots \cup {None}]
  BY DEF VoteTables
<1> DEFINE row == [votes[phase][t] EXCEPT ![r] = ballot]
           page == [votes[phase] EXCEPT ![t] = row]
<1>2. row \in [Rounds -> Ballots \cup {None}] /\ row[r] = ballot
      /\ \A q \in Rounds : q # r => row[q] = votes[phase][t][q]
  BY <1>1
<1>3. w = [votes EXCEPT ![phase] = page]
  BY DEF WithVote
<1> HIDE DEF row
<1>5. page \in [Voters -> [Rounds -> Ballots \cup {None}]] /\ page[t] = row
      /\ \A u \in Voters : u # t => page[u] = votes[phase][u]
  BY <1>1, <1>2
<1> HIDE DEF page
<1>6. w \in VoteTables /\ w[phase] = page /\ \A f \in Phases : f # phase => w[f] = votes[f]
  BY <1>3, <1>5 DEF VoteTables
<1>7. Grows(votes, w)
  BY <1>2, <1>5, <1>6 DEF Grows
<1> QED
  BY <1>2, <1>5, <1>6, <1>7 DEF row, WithBallot
-----------------------------------------------------------------------------
(***************************************************************************)
(* Recording what others signed.                                           *)
(***************************************************************************)

\* d has the round, the step, the votes and the lock of c.
Untouched(c, d) ==
    d.round = c.round /\ d.step = c.step /\ d.votes = c.votes /\ d.locked = c.locked

LEMMA GoodRecord ==
  ASSUME NEW s \in Active, NEW c, Good(s, c)
  PROVE  /\ c \in Records /\ Known(s, c) /\ Placed(s, c) /\ Moves(s, c)
         /\ c.round \in Rounds /\ c.votes \in VoteTables /\ c.hints \in HintTables
         /\ c.proposals \in ProposalTables
         /\ c.locked \in QuorumValues /\ c.valid \in QuorumValues
         /\ \A phase \in Phases, t \in Voters, r \in Rounds :
               c.votes[phase][t][r] \in Ballots \cup {None}
         /\ \A r \in Rounds : c.proposals[r] \in Seq(Proposals)
<1>1. c \in Records
  BY DEF Good
<1>2. /\ c.round \in Rounds /\ c.votes \in VoteTables /\ c.hints \in HintTables
      /\ c.proposals \in ProposalTables /\ c.locked \in QuorumValues /\ c.valid \in QuorumValues
  BY <1>1 DEF Records
<1> QED
  BY <1>1, <1>2 DEF Good, VoteTables, ProposalTables

\* Votes of others are no move of s.
LEMMA OthersVotesMove ==
  ASSUME NEW s \in Active, NEW c, Good(s, c), NEW w \in VoteTables, Grows(c.votes, w),
         \A f \in Phases : w[f][s] = c.votes[f][s], NoneAhead(c.round, w)
  PROVE  /\ MovesPrevote(s, c.round, w)
         /\ MovesPrecommit(s, c.round, w, c.locked)
         /\ MovesDecision(s, w, c.decision)
         /\ c.step = "propose" => Unvoted(s, w, c.locked)
         /\ c.step = "prevote" => Uncommitted(s, w, c.locked)
         /\ PlacedVotes(s, c.step, c.round, w)
<1>0. c \in Records /\ Moves(s, c) /\ Placed(s, c) /\ c.round \in Rounds
  BY GoodRecord
<1>1. w["prevote"][s] = c.votes["prevote"][s] /\ w["precommit"][s] = c.votes["precommit"][s]
  BY RoundFacts
<1>2. MovesPrevote(s, c.round, w)
  BY <1>0, <1>1 DEF Moves, MovesPrevote
<1>3. MovesPrecommit(s, c.round, w, c.locked)
  <2>1. \A v \in Values : Backs(s, c.votes, "prevote", c.round, v)
                             => Backs(s, w, "prevote", c.round, v)
    BY <1>0, RoundFacts, BacksGrows
  <2>2. MovesPrecommit(s, c.round, c.votes, c.locked)
    BY <1>0 DEF Moves
  <2> QED
    BY <1>1, <2>1, <2>2 DEF MovesPrecommit, Uncommitted
<1>4. MovesDecision(s, w, c.decision)
  <2>1. MovesDecision(s, c.votes, c.decision)
    BY <1>0 DEF Moves
  <2>2. CASE c.decision = None
    BY <2>1, <2>2 DEF MovesDecision
  <2>3. CASE c.decision # None
    <3>1. \A r \in Rounds : Backs(s, c.votes, "precommit", r, c.decision)
                               => Backs(s, w, "precommit", r, c.decision)
      BY <2>3, RoundFacts, BacksGrows
    <3> QED
      BY <2>1, <3>1 DEF MovesDecision
  <2> QED
    BY <2>2, <2>3
<1>5. /\ c.step = "propose" => Unvoted(s, w, c.locked)
      /\ c.step = "prevote" => Uncommitted(s, w, c.locked)
  BY <1>0, <1>1 DEF Moves, Unvoted, Uncommitted
<1>6. PlacedVotes(s, c.step, c.round, w)
  BY <1>0, <1>1 DEF Placed, PlacedVotes
<1> QED
  BY <1>2, <1>3, <1>4, <1>5, <1>6

LEMMA RecordVoteGood ==
  ASSUME NEW s \in Active, NEW c, Good(s, c), NEW t \in Voters, NEW r \in Rounds,
         NEW phase \in Phases, NEW ballot \in Ballots, r <= c.round,
         t # s /\ t \notin Byzantine => t \in Active /\ rec[t].votes[phase][t][r] = ballot,
         t = s => c.votes[phase][s][r] = ballot
  PROVE  Good(s, recordVote(c, t, r, phase, ballot))
<1>0. /\ c \in Records /\ Known(s, c) /\ Placed(s, c) /\ Moves(s, c) /\ c.votes \in VoteTables
      /\ ballot # None
  BY GoodRecord, RoundFacts DEF Ballots
<1>1. CASE c.votes[phase][t][r] = None
  <2> DEFINE w == WithVote(c.votes, phase, t, r, ballot)
             d == [c EXCEPT !.votes = w]
  <2>1. recordVote(c, t, r, phase, ballot) = d
    BY <1>0, <1>1 DEF recordVote, WithVote
  <2>2. /\ w \in VoteTables /\ Grows(c.votes, w) /\ w[phase][t][r] = ballot
        /\ \A f \in Phases, u \in Voters : f # phase \/ u # t => w[f][u] = c.votes[f][u]
        /\ \A q \in Rounds : q # r => w[phase][t][q] = c.votes[phase][t][q]
    <3>1. w = WithVote(c.votes, phase, t, r, ballot)
      OBVIOUS
    <3> HIDE DEF w
    <3> QED
      BY <1>0, <1>1, <3>1, VoteAdded
  <2> HIDE DEF w
  <2>3. t # s
    BY <1>0, <1>1
  <2>4. \A f \in Phases : w[f][s] = c.votes[f][s]
    BY <2>2, <2>3, ActiveVoter
  <2>5. /\ d \in Records /\ d.votes = w /\ d.round = c.round /\ d.step = c.step
        /\ d.proposals = c.proposals /\ d.hints = c.hints /\ d.locked = c.locked
        /\ d.valid = c.valid /\ d.decision = c.decision /\ d.unapplied = c.unapplied
        /\ d.timers = c.timers
    BY <1>0, <2>2 DEF Records
  <2>6. KnownVotes(s, w)
    <3> SUFFICES ASSUME NEW f \in Phases, NEW u \in Voters, NEW q \in Rounds,
                        u # s, u \notin Byzantine, w[f][u][q] # None
                 PROVE  u \in Active /\ rec[u].votes[f][u][q] = w[f][u][q]
      BY DEF KnownVotes
    <3>1. CASE f = phase /\ u = t /\ q = r
      BY <2>2, <3>1
    <3>2. CASE ~(f = phase /\ u = t /\ q = r)
      <4>1. w[f][u][q] = c.votes[f][u][q]
        BY <2>2, <3>2
      <4> QED
        BY <1>0, <4>1 DEF Known, KnownVotes
    <3> QED
      BY <3>1, <3>2
  <2>7. Known(s, d)
    BY <2>2, <2>5, <2>6, VotesFrame DEF Known
  <2>n. NoneAhead(c.round, w)
    <3> SUFFICES ASSUME NEW f \in Phases, NEW u \in Voters, NEW q \in Rounds, q > c.round
                 PROVE  w[f][u][q] = None
      BY DEF NoneAhead
    <3>1. q # r
      <4>1. q \in Nat /\ r \in Nat /\ c.round \in Nat
        BY GoodRecord, RoundFacts
      <4> QED
        BY <4>1
    <3>2. w[f][u][q] = c.votes[f][u][q]
      BY <2>2, <3>1
    <3> QED
      BY <1>0, <3>2 DEF Placed, PlacedVotes, NoneAhead
  <2>8. Placed(s, d)
    BY <1>0, <2>2, <2>4, <2>5, <2>n, VotesFrame, OthersVotesMove DEF Placed
  <2>9. Moves(s, d)
    BY <1>0, <2>2, <2>4, <2>5, <2>n, OthersVotesMove DEF Moves
  <2> QED
    BY <2>1, <2>5, <2>7, <2>8, <2>9 DEF Good
<1>2. CASE c.votes[phase][t][r] = ballot
  BY <1>0, <1>2 DEF recordVote
<1>3. CASE c.votes[phase][t][r] \notin {None, ballot}
  <2> DEFINE e == c.equivocations \cup {[kind |-> phase, seat |-> t, round |-> r]}
  <2>1. recordVote(c, t, r, phase, ballot) = [c EXCEPT !.equivocations = e]
    BY <1>3 DEF recordVote
  <2>2. [kind |-> phase, seat |-> t, round |-> r] \in Evidence
    BY RoundFacts DEF Evidence, Seats
  <2>3. e \in SUBSET Evidence
    BY <1>0, <2>2 DEF Records
  <2> HIDE DEF e
  <2>4. Same(c, [c EXCEPT !.equivocations = e])
    BY <1>0, <2>3 DEF Same, Records
  <2> QED
    BY <2>1, <2>4, SameGood
<1> QED
  BY <1>1, <1>2, <1>3

LEMMA RecordProposalGood ==
  ASSUME NEW s \in Active, NEW c, Good(s, c), NEW p \in Proposals, p.term <= c.round,
         Backed(s, c.votes, p)
  PROVE  /\ Good(s, recordProposal(c, p))
         /\ Untouched(c, recordProposal(c, p))
         /\ recordProposal(c, p).decision = c.decision
<1>0. /\ c \in Records /\ Known(s, c) /\ Placed(s, c) /\ Moves(s, c)
      /\ c.round \in Rounds /\ p.term \in Rounds
      /\ c.proposals \in ProposalTables /\ c.proposals[p.term] \in Seq(Proposals)
  BY GoodRecord DEF Proposals
<1> DEFINE e == IF c.proposals[p.term] = <<>> THEN c.equivocations
                ELSE c.equivocations
                       \cup {[kind |-> "proposal", seat |-> Proposer(p.term), round |-> p.term]}
           list == Append(c.proposals[p.term], p)
           all == [c.proposals EXCEPT ![p.term] = list]
           d == [c EXCEPT !.proposals = all, !.equivocations = e]
<1>1. recordProposal(c, p) \in {c, d}
  BY DEF recordProposal
<1>2. [kind |-> "proposal", seat |-> Proposer(p.term), round |-> p.term] \in Evidence
  BY <1>0 DEF Evidence, Seats
<1>3. e \in SUBSET Evidence
  BY <1>0, <1>2 DEF Records
<1>4. /\ list \in Seq(Proposals) /\ list # <<>>
      /\ \A i \in DOMAIN list : 
           list[i] = p \/ (i \in DOMAIN c.proposals[p.term] /\ list[i] = c.proposals[p.term][i])
  <2>1. /\ list \in Seq(Proposals) /\ list # <<>> /\ Len(list) = Len(c.proposals[p.term]) + 1
        /\ \A i \in 1..Len(c.proposals[p.term]) : list[i] = c.proposals[p.term][i]
        /\ list[Len(c.proposals[p.term]) + 1] = p
    BY <1>0, AppendProperties
  <2> DEFINE n == Len(c.proposals[p.term])
  <2>2. n \in Nat /\ DOMAIN c.proposals[p.term] = 1..n
    BY <1>0
  <2> HIDE DEF list, n
  <2>3. DOMAIN list = 1..(n + 1)
    BY <2>1 DEF n
  <2>4. \A i \in 1..(n + 1) : i \in 1..n \/ i = n + 1
    BY <2>2
  <2>5. /\ list \in Seq(Proposals) /\ list # <<>> /\ list[n + 1] = p
        /\ \A i \in 1..n : list[i] = c.proposals[p.term][i]
    BY <2>1 DEF n
  <2> QED
    BY <2>2, <2>3, <2>4, <2>5
<1> HIDE DEF e, list
<1>5. /\ all \in ProposalTables /\ all[p.term] = list
      /\ \A r \in Rounds : r # p.term => all[r] = c.proposals[r]
  BY <1>0, <1>4 DEF ProposalTables
<1> HIDE DEF all
<1>6. /\ d \in Records /\ d.proposals = all
      /\ d.votes = c.votes /\ d.round = c.round /\ d.step = c.step
      /\ d.hints = c.hints /\ d.locked = c.locked /\ d.valid = c.valid
      /\ d.decision = c.decision /\ d.unapplied = c.unapplied /\ d.timers = c.timers
  BY <1>0, <1>3, <1>5 DEF Records
<1>7. \A r \in Rounds : c.proposals[r] # <<>> => all[r] # <<>>
  BY <1>4, <1>5
<1>8. KnownProposals(s, c.votes, all)
  <2> SUFFICES ASSUME NEW r \in Rounds, NEW i \in DOMAIN all[r]
               PROVE  Backed(s, c.votes, all[r][i])
    BY DEF KnownProposals
  <2>1. \A j \in DOMAIN c.proposals[r] : Backed(s, c.votes, c.proposals[r][j])
    BY <1>0 DEF Known, KnownProposals
  <2>2. CASE r = p.term
    BY <1>4, <1>5, <2>1, <2>2
  <2>3. CASE r # p.term
    BY <1>5, <2>1, <2>3
  <2> QED
    BY <2>2, <2>3
<1>9. KnownValid(s, c.votes, all, c.round, c.valid)
  <2>1. c.valid # NoQuorumValue => c.valid.round \in Rounds
    BY <1>0 DEF Records, QuorumValues
  <2> QED
    BY <1>0, <1>7, <2>1 DEF Known, KnownValid
<1>10. Known(s, d)
  BY <1>0, <1>6, <1>8, <1>9 DEF Known
<1>11. PlacedProposals(c.round, all)
  <2> SUFFICES ASSUME NEW r \in Rounds, r > c.round PROVE all[r] = <<>>
    BY DEF PlacedProposals
  <2>1. r # p.term
    <3>1. r \in Nat /\ c.round \in Nat /\ p.term \in Nat
      BY <1>0, RoundFacts
    <3> QED
      BY <3>1
  <2> QED
    BY <1>0, <1>5, <2>1 DEF Placed, PlacedProposals
<1>12. Placed(s, d)
  BY <1>0, <1>6, <1>11 DEF Placed
<1>13. Moves(s, d)
  BY <1>0, <1>6, <1>7 DEF Moves, MovesProposals
<1> QED
  BY <1>0, <1>1, <1>6, <1>10, <1>12, <1>13 DEF Good, Untouched

LEMMA AddHintGood ==
  ASSUME NEW s \in Active, NEW c, Good(s, c), NEW t \in Voters,
         NEW hint \in VoteHints \cup ProposalHints, KnownHint(s, c.votes, t, hint)
  PROVE  Good(s, addHint(c, t, hint)) /\ Untouched(c, addHint(c, t, hint))
<1>0. c \in Records /\ Known(s, c) /\ Placed(s, c) /\ Moves(s, c) /\ c.hints \in HintTables
  BY GoodRecord
<1> DEFINE all == [c.hints EXCEPT ![t] = hint]
           d == [c EXCEPT !.hints = all]
<1>1. addHint(c, t, hint) \in {c, d}
  BY DEF addHint
<1>2. all \in HintTables /\ all[t] = hint /\ \A u \in Voters : u # t => all[u] = c.hints[u]
  BY <1>0 DEF HintTables
<1> HIDE DEF all
<1>3. /\ d \in Records /\ d.hints = all
      /\ d.votes = c.votes /\ d.round = c.round /\ d.step = c.step
      /\ d.proposals = c.proposals /\ d.locked = c.locked /\ d.valid = c.valid
      /\ d.decision = c.decision /\ d.unapplied = c.unapplied /\ d.timers = c.timers
  BY <1>0, <1>2 DEF Records
<1>4. KnownHints(s, c.votes, all)
  BY <1>0, <1>2 DEF Known, KnownHints
<1>5. Known(s, d) /\ Placed(s, d) /\ Moves(s, d)
  BY <1>0, <1>3, <1>4 DEF Known, Placed, Moves
<1> QED
  BY <1>0, <1>1, <1>3, <1>5 DEF Good, Untouched
-----------------------------------------------------------------------------
(***************************************************************************)
(* Voting.                                                                 *)
(***************************************************************************)

\* A certificate in the record is one that s can rely on.
LEMMA QuorumBacks ==
  ASSUME NEW s \in Active, NEW c, Good(s, c), NEW phase \in Phases, NEW r \in Rounds,
         NEW ballot, ballot # None, quorumFor(c, r, phase, ballot)
  PROVE  Backs(s, c.votes, phase, r, ballot)
<1> DEFINE signers == SignersOf(c, phase, r, ballot)
<1>1. signers \in Quorums
  <2>1. signers \in SUBSET Voters
    BY DEF SignersOf
  <2>2. Cardinality(signers) >= quorumSize(Cardinality(Voters))
    BY DEF quorumFor, Quorum
  <2> QED
    BY <2>1, <2>2 DEF Quorums, Certificates
<1>2. ASSUME NEW t \in signers \ Byzantine
      PROVE  t \in Active /\ Cast(s, c.votes, phase, t, r) = ballot
  <2>1. t \in Voters /\ c.votes[phase][t][r] = ballot
    BY DEF SignersOf
  <2>2. KnownVotes(s, c.votes)
    BY GoodRecord DEF Known
  <2> QED
    BY <2>1, <2>2, ActiveVoter DEF KnownVotes, Cast
<1> QED
  BY <1>1, <1>2 DEF Backs

\* A vote of s where it had none.
OwnVote(s, c, phase, ballot, w) ==
    /\ w \in VoteTables /\ Grows(c.votes, w)
    /\ w[phase][s] = WithBallot(c.votes[phase][s], c.round, ballot)
    /\ w[phase][s][c.round] = ballot
    /\ \A f \in Phases : f # phase => w[f][s] = c.votes[f][s]
    /\ NoneAhead(c.round, w)
    /\ KnownVotes(s, w)

LEMMA OwnVoteGrows ==
  ASSUME NEW s \in Active, NEW c, Good(s, c), NEW phase \in Phases, NEW ballot \in Ballots,
         c.votes[phase][s][c.round] = None,
         NEW w, w = WithVote(c.votes, phase, s, c.round, ballot)
  PROVE  OwnVote(s, c, phase, ballot, w)
<1>1. c.votes \in VoteTables /\ c.round \in Rounds /\ KnownVotes(s, c.votes) /\ s \in Voters
  BY GoodRecord, ActiveVoter DEF Known
<1>2. /\ w \in VoteTables /\ Grows(c.votes, w)
      /\ w[phase][s] = WithBallot(c.votes[phase][s], c.round, ballot)
      /\ w[phase][s][c.round] = ballot
      /\ \A f \in Phases, u \in Voters : f # phase \/ u # s => w[f][u] = c.votes[f][u]
      /\ \A q \in Rounds : q # c.round => w[phase][s][q] = c.votes[phase][s][q]
  BY <1>1, VoteAdded
<1>3. KnownVotes(s, w)
  BY <1>1, <1>2 DEF KnownVotes
<1>4. NoneAhead(c.round, w)
  <2> SUFFICES ASSUME NEW f \in Phases, NEW u \in Voters, NEW q \in Rounds, q > c.round
               PROVE  w[f][u][q] = None
    BY DEF NoneAhead
  <2>1. q # c.round
    <3>1. q \in Nat /\ c.round \in Nat
      BY <1>1, RoundFacts
    <3> QED
      BY <3>1
  <2>2. w[f][u][q] = c.votes[f][u][q]
    BY <1>2, <2>1
  <2> QED
    BY <2>2, GoodRecord DEF Placed, PlacedVotes, NoneAhead
<1> QED
  BY <1>1, <1>2, <1>3, <1>4 DEF OwnVote

\* The record after a vote: the votes w, the step, the lock.
Voted(c, phase, w, locked) == [c EXCEPT !.step = phase, !.votes = w, !.locked = locked]

LEMMA SignLocal ==
  ASSUME NEW s \in Active, NEW c, Good(s, c), NEW phase \in Phases,
         NEW v \in Ballots, NEW refused, NEW lock \in QuorumValues,
         c.votes[phase][s][c.round] = None,
         NEW d, d = signLocalVote(s, [c EXCEPT !.locked = lock], phase, v, refused)
  PROVE  \E ballot \in {v, Nil} : \E w :
           OwnVote(s, c, phase, ballot, w) /\ d = Voted(c, phase, w, lock)
<1>0. c \in Records /\ c.votes \in VoteTables
  BY GoodRecord
<1> DEFINE e == [c EXCEPT !.locked = lock]
           ballot == IF v \in refused \/ (v # Nil /\ ~proposalAt(e, e.round, v)) THEN Nil ELSE v
           w == WithVote(c.votes, phase, s, c.round, ballot)
<1>1. ballot \in {v, Nil} /\ ballot \in Ballots
  BY DEF Ballots
<1>2. e.votes = c.votes /\ e.round = c.round
  BY <1>0 DEF Records
<1>3. d = [e EXCEPT !.step = phase, !.votes[phase][s][e.round] = ballot]
  BY <1>2 DEF signLocalVote
<1> HIDE DEF ballot
<1>4. d = [e EXCEPT !.step = phase, !.votes = w]
  BY <1>2, <1>3 DEF WithVote
<1>5. w = WithVote(c.votes, phase, s, c.round, ballot)
  OBVIOUS
<1> HIDE DEF w
<1>6. d = Voted(c, phase, w, lock)
  BY <1>0, <1>4 DEF Voted, Records
<1>7. OwnVote(s, c, phase, ballot, w)
  BY <1>1, <1>5, OwnVoteGrows
<1> QED
  BY <1>1, <1>6, <1>7

\* What holds of a record after any own vote.
LEMMA OwnVoteGood ==
  ASSUME NEW s \in Active, NEW c, Good(s, c), NEW phase \in Phases, NEW ballot \in Ballots,
         NEW w, OwnVote(s, c, phase, ballot, w), NEW lock \in QuorumValues,
         NEW d, d = Voted(c, phase, w, lock),
         PlacedVotes(s, phase, c.round, w),
         MovesPrevote(s, c.round, w), MovesPrecommit(s, c.round, w, lock),
         phase = "prevote" => Uncommitted(s, w, lock)
  PROVE  /\ Good(s, d) /\ d.round = c.round /\ d.step = phase /\ d.votes = w
         /\ d.decision = c.decision
<1>0. /\ c \in Records /\ Known(s, c) /\ Placed(s, c) /\ Moves(s, c) /\ c.round \in Rounds
      /\ w \in VoteTables /\ Grows(c.votes, w) /\ KnownVotes(s, w)
  BY GoodRecord DEF OwnVote
<1>1. /\ d \in Records /\ d.votes = w /\ d.round = c.round /\ d.step = phase
      /\ d.locked = lock /\ d.proposals = c.proposals /\ d.hints = c.hints
      /\ d.valid = c.valid /\ d.decision = c.decision /\ d.unapplied = c.unapplied
      /\ d.timers = c.timers
  BY <1>0, RoundFacts DEF Voted, Records, Steps
<1>2. Known(s, d)
  BY <1>0, <1>1, VotesFrame DEF Known
<1>3. Placed(s, d)
  BY <1>0, <1>1, VotesFrame DEF Placed
<1>4. MovesDecision(s, w, c.decision)
  <2>1. MovesDecision(s, c.votes, c.decision)
    BY <1>0 DEF Moves
  <2>2. CASE c.decision = None
    BY <2>1, <2>2 DEF MovesDecision
  <2>3. CASE c.decision # None
    <3>1. \A r \in Rounds : Backs(s, c.votes, "precommit", r, c.decision)
                               => Backs(s, w, "precommit", r, c.decision)
      BY <1>0, <2>3, RoundFacts, BacksGrows
    <3> QED
      BY <2>1, <3>1 DEF MovesDecision
  <2> QED
    BY <2>2, <2>3
<1>5. Moves(s, d)
  BY <1>0, <1>1, <1>4, RoundFacts DEF Moves
<1> QED
  BY <1>1, <1>2, <1>3, <1>5 DEF Good

\* A prevote that the rules allow.
LEMMA PrevoteGood ==
  ASSUME NEW s \in Active, NEW c, Good(s, c), c.step = "propose",
         NEW v \in {Nil} \cup {x \in Values : Allowed(s, c.round, x)}, NEW refused
  PROVE  LET d == signLocalVote(s, c, "prevote", v, refused)
         IN  /\ Good(s, d) /\ d.round = c.round /\ d.step = "prevote"
             /\ d.decision = c.decision
<1> DEFINE lock == c.locked
           d == signLocalVote(s, c, "prevote", v, refused)
<1>0. /\ c \in Records /\ Placed(s, c) /\ Moves(s, c) /\ c.round \in Rounds
      /\ lock \in QuorumValues /\ "prevote" \in Phases /\ v \in Ballots /\ Nil \in Ballots
  BY GoodRecord, RoundFacts DEF Ballots
<1>1. /\ c.votes["prevote"][s][c.round] = None /\ c.votes["precommit"][s][c.round] = None
      /\ Unvoted(s, c.votes, c.locked)
  BY <1>0 DEF Placed, PlacedVotes, Moves
<1>2. c = [c EXCEPT !.locked = lock]
  BY <1>0 DEF Records
<1>3. PICK ballot \in {v, Nil} : \E w :
         OwnVote(s, c, "prevote", ballot, w) /\ d = Voted(c, "prevote", w, lock)
  <2> HIDE DEF lock
  <2>1. d = signLocalVote(s, [c EXCEPT !.locked = lock], "prevote", v, refused)
    BY <1>2
  <2> HIDE DEF d
  <2> QED
    BY <1>0, <1>1, <2>1, SignLocal
<1>4. PICK w : OwnVote(s, c, "prevote", ballot, w) /\ d = Voted(c, "prevote", w, lock)
  BY <1>3
<1>5. ballot \in Ballots /\ ballot # None
  BY <1>0, RoundFacts DEF Ballots
<1>6. PlacedVotes(s, "prevote", c.round, w)
  BY <1>0, <1>1, <1>4, <1>5, RoundFacts DEF OwnVote, PlacedVotes, Placed
<1>7. MovesPrevote(s, c.round, w)
  <2>1. w["prevote"][s] = WithBallot(rec[s].votes["prevote"][s], c.round, ballot)
    BY <1>1, <1>4 DEF OwnVote, Unvoted
  <2>2. rec[s].votes["prevote"][s][c.round] = None
    BY <1>1 DEF Unvoted
  <2>3. ballot \in {Nil} \cup {x \in Values : Allowed(s, c.round, x)}
    OBVIOUS
  <2> QED
    BY <2>1, <2>2, <2>3 DEF MovesPrevote
<1>8. Uncommitted(s, w, lock)
  BY <1>1, <1>4, RoundFacts DEF Unvoted, Uncommitted, OwnVote
<1>9. MovesPrecommit(s, c.round, w, lock)
  BY <1>8 DEF MovesPrecommit
<1> HIDE DEF d
<1>10. /\ Good(s, d) /\ d.round = c.round /\ d.step = "prevote" /\ d.decision = c.decision
  BY <1>0, <1>4, <1>5, <1>6, <1>7, <1>8, <1>9, OwnVoteGood
<1> QED
  BY <1>10 DEF d

\* A precommit of nothing, after the prevote.
LEMMA PrecommitNilGood ==
  ASSUME NEW s \in Active, NEW c, Good(s, c), c.step = "prevote", NEW refused
  PROVE  LET d == signLocalVote(s, c, "precommit", Nil, refused)
         IN  Good(s, d) /\ d.round = c.round /\ d.decision = c.decision
<1> DEFINE lock == c.locked
           d == signLocalVote(s, c, "precommit", Nil, refused)
<1>0. /\ c \in Records /\ Placed(s, c) /\ Moves(s, c) /\ c.round \in Rounds
      /\ lock \in QuorumValues /\ "precommit" \in Phases /\ Nil \in Ballots
  BY GoodRecord, RoundFacts DEF Ballots
<1>1. /\ c.votes["prevote"][s][c.round] # None /\ c.votes["precommit"][s][c.round] = None
      /\ Uncommitted(s, c.votes, c.locked) /\ MovesPrevote(s, c.round, c.votes)
  BY <1>0 DEF Placed, PlacedVotes, Moves
<1>2. c = [c EXCEPT !.locked = lock]
  BY <1>0 DEF Records
<1>3. PICK ballot \in {Nil, Nil} : \E w :
         OwnVote(s, c, "precommit", ballot, w) /\ d = Voted(c, "precommit", w, lock)
  <2> HIDE DEF lock
  <2>1. d = signLocalVote(s, [c EXCEPT !.locked = lock], "precommit", Nil, refused)
    BY <1>2
  <2> HIDE DEF d
  <2> QED
    BY <1>0, <1>1, <2>1, SignLocal
<1>4. PICK w : OwnVote(s, c, "precommit", Nil, w) /\ d = Voted(c, "precommit", w, lock)
  BY <1>3
<1>5. w["prevote"][s] = c.votes["prevote"][s]
  BY <1>4, RoundFacts DEF OwnVote
<1>6. PlacedVotes(s, "precommit", c.round, w)
  BY <1>0, <1>4, RoundFacts DEF OwnVote, PlacedVotes, Placed
<1>7. MovesPrevote(s, c.round, w)
  BY <1>1, <1>5 DEF MovesPrevote
<1>8. MovesPrecommit(s, c.round, w, lock)
  BY <1>1, <1>4, <1>5 DEF MovesPrecommit, Uncommitted, OwnVote
<1> HIDE DEF d
<1>9. Good(s, d) /\ d.round = c.round /\ d.decision = c.decision
  BY <1>0, <1>4, <1>6, <1>7, <1>8, OwnVoteGood
<1> QED
  BY <1>9 DEF d

\* A lock under a certificate of this round, with the precommit.
LEMMA PrecommitLockGood ==
  ASSUME NEW s \in Active, NEW c, Good(s, c), c.step = "prevote",
         NEW v \in Values, Backs(s, c.votes, "prevote", c.round, v), NEW refused
  PROVE  LET d == signLocalVote(s, [c EXCEPT !.locked = QuorumValue(c.round, v)],
                                "precommit", v, refused)
         IN  Good(s, d) /\ d.round = c.round /\ d.decision = c.decision
<1> DEFINE lock == QuorumValue(c.round, v)
           d == signLocalVote(s, [c EXCEPT !.locked = lock], "precommit", v, refused)
<1>0. /\ c \in Records /\ Placed(s, c) /\ Moves(s, c) /\ c.round \in Rounds
      /\ "precommit" \in Phases /\ "prevote" \in Phases /\ Nil \in Ballots /\ v \in Ballots /\ v # None
  BY GoodRecord, RoundFacts DEF Ballots
<1>1. /\ c.votes["prevote"][s][c.round] # None /\ c.votes["precommit"][s][c.round] = None
      /\ Uncommitted(s, c.votes, c.locked) /\ MovesPrevote(s, c.round, c.votes)
  BY <1>0 DEF Placed, PlacedVotes, Moves
<1>2. lock \in QuorumValues
  BY <1>0 DEF QuorumValue, QuorumValues
<1>l. lock = QuorumValue(c.round, v)
  OBVIOUS
<1> HIDE DEF lock
<1>3. PICK ballot \in {v, Nil} : \E w :
         OwnVote(s, c, "precommit", ballot, w) /\ d = Voted(c, "precommit", w, lock)
  <2>1. d = signLocalVote(s, [c EXCEPT !.locked = lock], "precommit", v, refused)
    OBVIOUS
  <2> HIDE DEF d
  <2> QED
    BY <1>0, <1>1, <1>2, <2>1, SignLocal
<1>4. PICK w : OwnVote(s, c, "precommit", ballot, w) /\ d = Voted(c, "precommit", w, lock)
  BY <1>3
<1>5. w["prevote"][s] = c.votes["prevote"][s] /\ ballot \in Ballots
  BY <1>0, <1>4, RoundFacts DEF OwnVote
<1>6. PlacedVotes(s, "precommit", c.round, w)
  BY <1>0, <1>4, RoundFacts DEF OwnVote, PlacedVotes, Placed
<1>7. MovesPrevote(s, c.round, w)
  BY <1>1, <1>5 DEF MovesPrevote
<1>8. MovesPrecommit(s, c.round, w, lock)
  <2>1. Backs(s, w, "prevote", c.round, v)
    BY <1>0, <1>4, BacksGrows DEF OwnVote
  <2>2. rec[s].votes["precommit"][s][c.round] = None /\ w["prevote"][s][c.round] # None
    BY <1>1, <1>5 DEF Uncommitted
  <2>3. w["precommit"][s] = WithBallot(rec[s].votes["precommit"][s], c.round, ballot)
    BY <1>1, <1>4 DEF Uncommitted, OwnVote
  <2> QED
    BY <1>l, <2>1, <2>2, <2>3 DEF MovesPrecommit
<1> HIDE DEF d
<1>9. Good(s, d) /\ d.round = c.round /\ d.decision = c.decision
  BY <1>0, <1>2, <1>4, <1>5, <1>6, <1>7, <1>8, OwnVoteGood
<1> QED
  BY <1>9, <1>l DEF d
LEMMA PrevoteProposalGood ==
  ASSUME NEW s \in Active, NEW c, Good(s, c), NEW p \in Proposals, Backed(s, c.votes, p), NEW refused
  PROVE  Good(s, prevoteProposal(s, c, p, refused))
<1> DEFINE accepts == \/ c.locked = NoQuorumValue
                      \/ c.locked.value = p.value
                      \/ p.validRound # 0 /\ p.validRound >= c.locked.round
           v == IF accepts THEN p.value ELSE Nil
<1>1. CASE p.term # c.round \/ c.step # "propose"
  BY <1>1 DEF prevoteProposal
<1>2. CASE p.term = c.round /\ c.step = "propose"
  <2>1. prevoteProposal(s, c, p, refused) = signLocalVote(s, c, "prevote", v, refused)
    BY <1>2 DEF prevoteProposal
  <2>2. Moves(s, c) /\ p.value \in Values
    BY GoodRecord DEF Proposals
  <2>3. Unvoted(s, c.votes, c.locked)
    BY <1>2, <2>2 DEF Moves
  <2>4. ASSUME accepts PROVE Allowed(s, c.round, p.value)
    <3>1. CASE c.locked = NoQuorumValue
      BY <2>3, <3>1 DEF Unvoted, Uncommitted, Allowed, NoQuorumValue
    <3>2. CASE c.locked.value = p.value
      BY <2>3, <3>2 DEF Unvoted, Uncommitted, Allowed
    <3>3. CASE p.validRound # 0 /\ p.validRound >= c.locked.round
      <4>1. /\ p.validRound \in Rounds /\ p.validRound < p.term
            /\ Backs(s, c.votes, "prevote", p.validRound, p.value)
        BY <3>3 DEF Backed
      <4>2. Backs(s, rec[s].votes, "prevote", p.validRound, p.value)
        BY <2>3, <4>1 DEF Backs, Cast, Unvoted
      <4>3. p.validRound >= rec[s].locked.round /\ p.validRound < c.round
        BY <1>2, <2>3, <3>3, <4>1 DEF Unvoted, Uncommitted
      <4> QED
        BY <4>1, <4>2, <4>3 DEF Allowed
    <3> QED
      BY <2>4, <3>1, <3>2, <3>3
  <2>5. v \in {Nil} \cup {x \in Values : Allowed(s, c.round, x)}
    BY <2>2, <2>4
  <2> HIDE DEF v
  <2>6. Good(s, signLocalVote(s, c, "prevote", v, refused))
    BY <1>2, <2>5, PrevoteGood
  <2> QED
    BY <2>1, <2>6
<1> QED
  BY <1>1, <1>2

-----------------------------------------------------------------------------
(***************************************************************************)
(* Committing.                                                             *)
(***************************************************************************)

\* A value with a certificate is decided, or kept for a repair.
LEMMA DecideGood ==
  ASSUME NEW s \in Active, NEW c, Good(s, c), NEW v \in Values, NEW r \in Rounds,
         Backs(s, c.votes, "precommit", r, v), c.decision \in {None, v}
  PROVE  Good(s, [c EXCEPT !.decision = v])
<1> DEFINE d == [c EXCEPT !.decision = v]
<1>0. /\ c \in Records /\ Known(s, c) /\ Placed(s, c) /\ Moves(s, c)
  BY GoodRecord
<1>1. /\ d \in Records /\ d.votes = c.votes /\ d.round = c.round /\ d.step = c.step
      /\ d.locked = c.locked /\ d.proposals = c.proposals /\ d.hints = c.hints
      /\ d.valid = c.valid /\ d.decision = v /\ d.unapplied = c.unapplied
      /\ d.timers = c.timers
  BY <1>0 DEF Records
<1>2. MovesDecision(s, c.votes, v)
  BY <1>0 DEF Moves, MovesDecision
<1>3. Known(s, d) /\ Placed(s, d) /\ Moves(s, d)
  BY <1>0, <1>1, <1>2 DEF Known, Placed, Moves
<1> QED
  BY <1>1, <1>3 DEF Good

LEMMA KeepCertifiedGood ==
  ASSUME NEW s \in Active, NEW c, Good(s, c), NEW v \in Values, NEW r \in Rounds,
         Backs(s, c.votes, "precommit", r, v)
  PROVE  Good(s, haltForCertifiedValue(c, v))
<1> DEFINE d == [c EXCEPT !.halted = "certified-validation", !.unapplied = v]
<1>0. /\ c \in Records /\ Known(s, c) /\ Placed(s, c) /\ Moves(s, c)
  BY GoodRecord
<1>1. /\ d \in Records /\ d.votes = c.votes /\ d.round = c.round /\ d.step = c.step
      /\ d.locked = c.locked /\ d.proposals = c.proposals /\ d.hints = c.hints
      /\ d.valid = c.valid /\ d.decision = c.decision /\ d.unapplied = v
      /\ d.timers = c.timers
  BY <1>0 DEF Records, Halts
<1>2. Known(s, d) /\ Placed(s, d) /\ Moves(s, d)
  BY <1>0, <1>1 DEF Known, KnownUnapplied, Placed, Moves
<1> QED
  BY <1>1, <1>2 DEF Good, haltForCertifiedValue

LEMMA HaltGood ==
  ASSUME NEW s, NEW c, Good(s, c)
  PROVE  Good(s, halt(c)) /\ Good(s, terminalFault(c))
BY HaltSame, SameGood DEF Good

LEMMA CommitAtGood ==
  ASSUME NEW s \in Active, NEW c, Good(s, c), NEW r \in Rounds
  PROVE  Good(s, commitAt(s, c, r))
<1> DEFINE certified == {v \in Values : quorumFor(c, r, "precommit", v) /\ proposalAt(c, r, v)}
           v == CHOOSE x \in certified : TRUE
<1>1. CASE certified = {} \/ c.halted = "terminal"
  BY <1>1 DEF commitAt
<1>2. CASE certified # {} /\ c.halted # "terminal"
  <2>1. v \in Values /\ quorumFor(c, r, "precommit", v) /\ v # None
    BY <1>2, RoundFacts
  <2> DEFINE decided == [c EXCEPT !.decision = v]
  <2>2. \/ commitAt(s, c, r) \in {haltForCertifiedValue(c, v), terminalFault(c), halt(c)}
        \/ c.decision \in {None, v} /\ commitAt(s, c, r) = decided
    BY <1>2 DEF commitAt
  <2> HIDE DEF v
  <2>3. Backs(s, c.votes, "precommit", r, v)
    BY <2>1, RoundFacts, QuorumBacks
  <2>4. c.decision \in {None, v} => Good(s, decided)
    BY <2>1, <2>3, DecideGood
  <2>5. Good(s, haltForCertifiedValue(c, v))
    BY <2>1, <2>3, KeepCertifiedGood
  <2> QED
    BY <2>2, <2>4, <2>5, HaltGood
<1> QED
  BY <1>1, <1>2

\* A nonempty set of natural numbers has a least element.
LEMMA LeastExists ==
  ASSUME NEW T, T \subseteq Nat, T # {}
  PROVE  \E x \in T : \A y \in T : x <= y
<1>1. \A x, y \in Nat : x < y => <<x, y>> \in OpToRel(<, Nat)
  BY DEF OpToRel
<1>2. IsWellFoundedOn(OpToRel(<, Nat), Nat)
  BY NatLessThanWellFounded, Zenon
<1>3. PICK R : /\ IsWellFoundedOn(R, Nat)
               /\ \A x, y \in Nat : x < y => <<x, y>> \in R
  BY ONLY <1>1, <1>2, Zenon
<1>4. IsWellFoundedOn(R, Nat)
  BY ONLY <1>3, Zenon
<1>5. \E x \in T : \A y \in T : ~ (<<y, x>> \in R)
  BY ONLY <1>4, T \subseteq Nat, T # {}, WFMin, Zenon
<1>6. PICK x \in T : \A y \in T : ~ (<<y, x>> \in R)
  BY ONLY <1>5, Zenon
<1>7. \A y \in T : ~(y < x)
  BY <1>3, <1>6
<1> QED
  BY <1>7

\* The loop over the rounds is a function of the round.
LEMMA CommitLoop ==
  ASSUME NEW s, NEW c
  PROVE  \E upTo : /\ maybeCommit(s, c) = upTo[MaxRound]
                   /\ \A r \in 0..MaxRound :
                         upTo[r] = IF r = 0 THEN c ELSE commitAt(s, upTo[r - 1], r)
<1> DEFINE D(n) == 0..n
           A(x, r) == commitAt(s, x, r)
           Steps0(f, n) == f = [r \in D(n) |-> IF r = 0 THEN c ELSE A(f[r - 1], r)]
           upTo == CHOOSE f : Steps0(f, MaxRound)
<1>1. maybeCommit(s, c) = upTo[MaxRound]
  BY DEF maybeCommit
<1>2. MaxRound \in Nat
  BY RoundFacts
<1> HIDE DEF A, Steps0
<1>5. \E f : Steps0(f, MaxRound)
  <2> DEFINE T == {k \in Nat : ~ \E f : Steps0(f, k)}
  <2>1. SUFFICES ASSUME T # {} PROVE FALSE
    BY <1>2
  <2>2. T \subseteq Nat
    OBVIOUS
  <2> HIDE DEF T
  <2>3. PICK k \in T : \A j \in T : k <= j
    BY ONLY <2>1, <2>2, LeastExists
  <2>4. k \in Nat
    BY <2>2, <2>3
  <2>5. CASE k = 0
    <3> DEFINE f == [r \in D(0) |-> c]
    <3>1. D(0) = {0}
      OBVIOUS
    <3>2. Steps0(f, 0)
      BY <3>1 DEF Steps0
    <3> QED
      BY <2>3, <2>5, <3>2 DEF T
  <2>6. CASE k > 0
    <3>1. k - 1 \in Nat /\ k - 1 \notin T
      BY <2>3, <2>4, <2>6
    <3>2. PICK f : Steps0(f, k - 1)
      BY <3>1 DEF T
    <3> DEFINE g == [r \in D(k) |-> IF r < k THEN f[r] ELSE A(f[k - 1], k)]
    <3>3. ASSUME NEW r \in D(k)
          PROVE  g[r] = IF r = 0 THEN c ELSE A(g[r - 1], r)
      <4>1. CASE r < k
        <5>1. r \in D(k - 1) /\ g[r] = f[r]
          BY <2>4, <3>1, <4>1
        <5>2. f[r] = IF r = 0 THEN c ELSE A(f[r - 1], r)
          BY <3>2, <5>1 DEF Steps0
        <5>3. r # 0 => g[r - 1] = f[r - 1]
          BY <2>4, <4>1
        <5> QED
          BY <5>1, <5>2, <5>3
      <4>2. CASE ~(r < k)
        <5>1. r = k /\ r # 0 /\ k - 1 \in D(k) /\ k - 1 < k
          BY <2>4, <2>6, <3>1, <4>2
        <5> QED
          BY <5>1
      <4> QED
        BY <4>1, <4>2
    <3>4. Steps0(g, k)
      <4> DEFINE t == [r \in D(k) |-> IF r = 0 THEN c ELSE A(g[r - 1], r)]
      <4>1. \A r \in D(k) : g[r] = t[r]
        BY <3>3
      <4> QED
        BY <4>1 DEF Steps0
    <3> HIDE DEF g
    <3> QED
      BY <2>3, <2>4, <3>4 DEF T
  <2> QED
    BY <2>4, <2>5, <2>6
<1>6. Steps0(upTo, MaxRound)
  BY <1>5
<1> HIDE DEF upTo
<1>7. \A r \in D(MaxRound) : upTo[r] = IF r = 0 THEN c ELSE A(upTo[r - 1], r)
  BY <1>6 DEF Steps0
<1> QED
  BY <1>1, <1>7 DEF A

\* Each of its values is a good record.
LEMMA MaybeCommitGood ==
  ASSUME NEW s \in Active, NEW c, Good(s, c)
  PROVE  Good(s, maybeCommit(s, c))
<1> DEFINE A(x, r) == commitAt(s, x, r)
           Fine(x) == Good(s, x)
<1>2. MaxRound \in Nat /\ \A r \in Nat : r > 0 /\ r <= MaxRound => r \in Rounds
  BY RoundFacts DEF Rounds
<1>3. ASSUME NEW x, Fine(x), NEW r \in Rounds PROVE Fine(A(x, r))
  BY <1>3, CommitAtGood
<1>4. Fine(c)
  OBVIOUS
<1>5. PICK upTo : /\ maybeCommit(s, c) = upTo[MaxRound]
                  /\ \A r \in 0..MaxRound :
                        upTo[r] = IF r = 0 THEN c ELSE A(upTo[r - 1], r)
  BY CommitLoop
<1> HIDE DEF A, Fine
<1>8. Fine(upTo[MaxRound])
  <2> DEFINE T == {k \in Nat : k <= MaxRound /\ ~Fine(upTo[k])}
  <2>1. SUFFICES ASSUME T # {} PROVE FALSE
    BY <1>2
  <2>2. T \subseteq Nat
    OBVIOUS
  <2> HIDE DEF T
  <2>3. PICK k \in T : \A j \in T : k <= j
    BY ONLY <2>1, <2>2, LeastExists
  <2>4. k \in Nat /\ k <= MaxRound /\ ~Fine(upTo[k])
    BY <2>3 DEF T
  <2>5. CASE k = 0
    BY <1>2, <1>4, <1>5, <2>4, <2>5
  <2>6. CASE k > 0
    <3>1. k - 1 \in Nat /\ k - 1 \notin T /\ k - 1 <= MaxRound
      BY <1>2, <2>3, <2>4, <2>6
    <3>2. Fine(upTo[k - 1])
      BY <3>1 DEF T
    <3>3. upTo[k] = A(upTo[k - 1], k) /\ k \in Rounds
      BY <1>2, <1>5, <2>4, <2>6
    <3>4. Fine(A(upTo[k - 1], k))
      BY <1>3, <3>2, <3>3
    <3> QED
      BY <2>4, <3>3, <3>4
  <2> QED
    BY <2>4, <2>5, <2>6
<1> QED
  BY <1>5, <1>8 DEF Fine

-----------------------------------------------------------------------------
(***************************************************************************)
(* Driving a record to where no timer is needed.                           *)
(***************************************************************************)

LEMMA DriveProposalGood ==
  ASSUME NEW s \in Active, NEW c, Good(s, c), NEW refused
  PROVE  Good(s, driveProposal(s, c, refused))
<1>1. CASE c.step = "propose" /\ c.proposals[c.round] # <<>>
  <2> DEFINE list == c.proposals[c.round]
  <2>1. /\ c.round \in Rounds /\ list \in Seq(Proposals) /\ list # <<>>
        /\ KnownProposals(s, c.votes, c.proposals)
    BY <1>1, GoodRecord DEF Known
  <2>2. 1 \in DOMAIN list /\ Head(list) = list[1] /\ list[1] \in Proposals
    BY <2>1
  <2>3. Backed(s, c.votes, Head(list))
    BY <2>1, <2>2 DEF KnownProposals
  <2> QED
    BY <1>1, <2>2, <2>3, PrevoteProposalGood DEF driveProposal
<1>2. CASE ~(c.step = "propose" /\ c.proposals[c.round] # <<>>)
  BY <1>2 DEF driveProposal
<1> QED
  BY <1>1, <1>2

\* A certified value of the current round may become the valid value.
LEMMA ValidGood ==
  ASSUME NEW s \in Active, NEW c, Good(s, c), NEW v \in Values,
         Backs(s, c.votes, "prevote", c.round, v), c.proposals[c.round] # <<>>
  PROVE  LET d == [c EXCEPT !.valid = QuorumValue(c.round, v)]
         IN  /\ Good(s, d) /\ d.round = c.round /\ d.step = c.step /\ d.votes = c.votes
<1> DEFINE q == QuorumValue(c.round, v)
           d == [c EXCEPT !.valid = q]
<1>0. /\ c \in Records /\ Known(s, c) /\ Placed(s, c) /\ Moves(s, c) /\ c.round \in Rounds
  BY GoodRecord
<1>1. q \in QuorumValues /\ q.round = c.round /\ q.value = v
  BY <1>0 DEF QuorumValues, QuorumValue
<1> HIDE DEF q
<1>2. /\ d \in Records /\ d.votes = c.votes /\ d.round = c.round /\ d.step = c.step
      /\ d.locked = c.locked /\ d.proposals = c.proposals /\ d.hints = c.hints
      /\ d.valid = q /\ d.decision = c.decision /\ d.unapplied = c.unapplied
      /\ d.timers = c.timers
  BY <1>0, <1>1 DEF Records
<1>3. KnownValid(s, c.votes, c.proposals, c.round, q)
  <2>1. c.round <= c.round
    <3>1. c.round \in Nat
      BY <1>0, RoundFacts
    <3> QED
      BY <3>1
  <2> QED
    BY <1>1, <2>1 DEF KnownValid
<1>4. Known(s, d) /\ Placed(s, d) /\ Moves(s, d)
  BY <1>0, <1>2, <1>3 DEF Known, Placed, Moves
<1> QED
  BY <1>2, <1>4 DEF Good, q

LEMMA DrivePrevotesGood ==
  ASSUME NEW s \in Active, NEW c, Good(s, c), NEW refused
  PROVE  Good(s, drivePrevotes(s, c, refused))
<1> DEFINE certified == {p \in ToSet(c.proposals[c.round]) :
                            quorumFor(c, c.round, "prevote", p.value)}
           p == CHOOSE x \in certified : TRUE
           v == p.value
           valid == [c EXCEPT !.valid = QuorumValue(c.round, v)]
           w == IF c.valid.round < c.round THEN valid ELSE c
           locks == c.step = "prevote" /\ c.votes["precommit"][s][c.round] = None
<1>1. CASE certified = {}
  BY <1>1 DEF drivePrevotes
<1>2. CASE certified # {}
  <2>1. p \in certified
    BY <1>2
  <2>2. /\ c.round \in Rounds /\ c.proposals[c.round] \in Seq(Proposals)
        /\ c.proposals[c.round] # <<>> /\ v \in Values /\ quorumFor(c, c.round, "prevote", v)
    <3>1. c.round \in Rounds /\ c.proposals[c.round] \in Seq(Proposals)
      BY GoodRecord
    <3> HIDE DEF p
    <3>2. PICK i \in DOMAIN c.proposals[c.round] : p = c.proposals[c.round][i]
      BY <2>1 DEF ToSet
    <3>3. p \in Proposals /\ c.proposals[c.round] # <<>>
      BY <3>1, <3>2
    <3> QED
      BY <2>1, <3>1, <3>3 DEF Proposals
  <2>3. drivePrevotes(s, c, refused) =
          IF locks THEN signLocalVote(s, [w EXCEPT !.locked = QuorumValue(c.round, v)],
                                      "precommit", v, refused)
          ELSE w
    BY <1>2 DEF drivePrevotes
  <2> HIDE DEF v, p, certified
  <2>4. Backs(s, c.votes, "prevote", c.round, v)
    BY <2>2, RoundFacts, QuorumBacks
  <2>5. Good(s, w) /\ w.round = c.round /\ w.step = c.step /\ w.votes = c.votes
    BY <2>2, <2>4, ValidGood
  <2> HIDE DEF w
  <2>6. ASSUME locks
        PROVE  Good(s, signLocalVote(s, [w EXCEPT !.locked = QuorumValue(c.round, v)],
                                     "precommit", v, refused))
    <3>1. w.step = "prevote" /\ Backs(s, w.votes, "prevote", w.round, v)
      BY <2>4, <2>5, <2>6
    <3>2. Good(s, signLocalVote(s, [w EXCEPT !.locked = QuorumValue(w.round, v)],
                                "precommit", v, refused))
      BY <2>2, <2>5, <3>1, PrecommitLockGood
    <3> QED
      BY <2>5, <3>2
  <2> QED
    BY <2>3, <2>5, <2>6
<1> QED
  BY <1>1, <1>2

LEMMA DriveNilGood ==
  ASSUME NEW s \in Active, NEW c, Good(s, c)
  PROVE  Good(s, driveNil(s, c))
BY PrecommitNilGood DEF driveNil

LEMMA DriveTimersGood ==
  ASSUME NEW s \in Active, NEW c, Good(s, c)
  PROVE  Good(s, driveTimers(c))
<1> DEFINE t == c.timers \cup {phase \in Phases : anyQuorum(c, c.round, phase)}
           d == [c EXCEPT !.timers = t]
<1>0. c \in Records /\ Known(s, c) /\ Placed(s, c) /\ Moves(s, c)
  BY GoodRecord
<1>1. t \in SUBSET Timers
  BY <1>0 DEF Records, Timers
<1>2. PlacedTimers(t, c.round, c.votes)
  BY <1>0 DEF Placed, PlacedTimers, anyQuorum, Present
<1> HIDE DEF t
<1>3. /\ d \in Records /\ d.votes = c.votes /\ d.round = c.round /\ d.step = c.step
      /\ d.locked = c.locked /\ d.proposals = c.proposals /\ d.hints = c.hints
      /\ d.valid = c.valid /\ d.decision = c.decision /\ d.unapplied = c.unapplied
      /\ d.timers = t
  BY <1>0, <1>1 DEF Records
<1>4. Known(s, d) /\ Placed(s, d) /\ Moves(s, d)
  BY <1>0, <1>2, <1>3 DEF Known, Placed, Moves
<1> QED
  BY <1>3, <1>4 DEF Good, driveTimers, t

LEMMA DriveGood ==
  ASSUME NEW s \in Active, NEW c, Good(s, c), NEW refused
  PROVE  Good(s, drive(s, c, refused))
<1> DEFINE c0 == maybeCommit(s, c)
           c1 == driveProposal(s, c0, refused)
           c2 == drivePrevotes(s, c1, refused)
           c3 == driveTimers(driveNil(s, c2))
<1>1. Good(s, c0)
  BY MaybeCommitGood
<1>2. Good(s, c1)
  BY <1>1, DriveProposalGood
<1>3. Good(s, c2)
  BY <1>2, DrivePrevotesGood
<1>4. Good(s, maybeCommit(s, c3))
  BY <1>3, DriveNilGood, DriveTimersGood, MaybeCommitGood
<1> QED
  BY <1>1, <1>4 DEF drive
-----------------------------------------------------------------------------
(***************************************************************************)
(* Rounds.                                                                 *)
(***************************************************************************)

\* The proposals of the hints, as a sequence.
LEMMA ListedOnce ==
  ASSUME NEW S, IsFiniteSet(S)
  PROVE  SetToSeq(S) \in Seq(S)
<1>1. Cardinality(S) \in Nat /\ ExistsBijection(1..Cardinality(S), S)
  BY FS_CardinalityType
<1>2. PICK f : f \in Bijection(1..Cardinality(S), S)
  BY <1>1 DEF ExistsBijection
<1>3. f \in [1..Cardinality(S) -> S] /\ IsInjective(f)
  BY <1>2 DEF Bijection, Injection, IsInjective
<1>4. SetToSeq(S) \in [1..Cardinality(S) -> S]
  BY <1>3 DEF SetToSeq
<1> QED
  BY <1>1, <1>4

LEMMA HintedFinite ==
  ASSUME NEW U \in SUBSET Voters, NEW hints
  PROVE  IsFiniteSet({hints[t].proposal : t \in U})
<1> DEFINE S == {hints[t].proposal : t \in U}
           f == [t \in U |-> hints[t].proposal]
<1>1. IsFiniteSet(U)
  BY VotersFinite, FS_Subset
<1>2. f \in Surjection(U, S)
  BY DEF Surjection
<1> QED
  BY <1>1, <1>2, FS_Surjection

\* What a hint of the record is.
LEMMA HintKinds ==
  ASSUME NEW s \in Active, NEW c, Good(s, c), NEW t \in Voters
  PROVE  /\ c.hints[t].kind = "vote" => /\ c.hints[t].round \in Rounds
                                        /\ c.hints[t].phase \in Phases
                                        /\ c.hints[t].ballot \in Ballots
         /\ c.hints[t].kind = "proposal" => /\ c.hints[t].round \in Rounds
                                            /\ c.hints[t].proposal \in Proposals
         /\ c.hints[t].kind \notin {"vote", "proposal"} => c.hints[t] = NoHint
         /\ KnownHint(s, c.votes, t, c.hints[t])
<1>1. c.hints[t] \in {NoHint} \cup VoteHints \cup ProposalHints
  BY GoodRecord DEF HintTables
<1>2. KnownHint(s, c.votes, t, c.hints[t])
  BY GoodRecord DEF Known, KnownHints
<1> QED
  BY <1>1, <1>2 DEF NoHint, VoteHints, ProposalHints

LEMMA EnterRoundGood ==
  ASSUME NEW s \in Active, NEW c, Good(s, c), Unvoted(s, c.votes, c.locked),
         NEW r \in Rounds, Earned(s, r)
  PROVE  Good(s, enterRound(s, c, r))
<1> DEFINE ready == {t \in Voters : c.hints[t].round = r}
           bearers == {u \in ready : c.hints[u].kind = "proposal"}
           new == {c.hints[t].proposal : t \in bearers}
           hinted(phase, t) ==
               t \in ready /\ c.hints[t].kind = "vote" /\ c.hints[t].phase = phase
           timers == IF c.inputKnown THEN {"propose"} ELSE {}
           hints == [t \in Voters |-> IF c.hints[t].round > r THEN c.hints[t] ELSE NoHint]
           row(phase, t) == IF hinted(phase, t)
                            THEN [c.votes[phase][t] EXCEPT ![r] = c.hints[t].ballot]
                            ELSE c.votes[phase][t]
           w == [phase \in Phases |-> [t \in Voters |-> row(phase, t)]]
           list == c.proposals[r] \o SetToSeq(new)
           all == [c.proposals EXCEPT ![r] = list]
           d == [c EXCEPT !.round = r, !.step = "propose", !.timers = timers, !.hints = hints,
                          !.votes = w, !.proposals = all]
<1>0. /\ c \in Records /\ Known(s, c) /\ Placed(s, c) /\ Moves(s, c) /\ c.round \in Rounds
      /\ c.votes \in VoteTables /\ c.hints \in HintTables /\ c.proposals \in ProposalTables
      /\ c.proposals[r] \in Seq(Proposals)
      /\ NoneAhead(c.round, c.votes) /\ KnownVotes(s, c.votes)
  BY GoodRecord DEF Placed, PlacedVotes, Known
<1>i. r \in Nat /\ c.round \in Nat
  BY <1>0, RoundFacts
<1>1. CASE r <= c.round
  BY <1>1 DEF enterRound
<1>2. ASSUME ~(r <= c.round)
      PROVE  Good(s, enterRound(s, c, r))
  <2>0. r > c.round
    BY <1>i, <1>2
  <2>1. enterRound(s, c, r) = d
    BY <1>2 DEF enterRound
  \* The votes.
  <2>2. ASSUME NEW phase \in Phases, NEW t \in Voters
        PROVE  /\ row(phase, t) \in [Rounds -> Ballots \cup {None}]
               /\ \A q \in Rounds :
                     row(phase, t)[q] = IF q = r /\ hinted(phase, t) THEN c.hints[t].ballot
                                        ELSE c.votes[phase][t][q]
               /\ w[phase][t] = row(phase, t)
    <3>1. c.votes[phase][t] \in [Rounds -> Ballots \cup {None}]
      BY <1>0 DEF VoteTables
    <3>2. hinted(phase, t) => c.hints[t].ballot \in Ballots
      BY HintKinds
    <3> QED
      BY <3>1, <3>2
  <2>3. w \in VoteTables
    BY <2>2 DEF VoteTables
  <2>4. \A phase \in Phases, t \in Voters, q \in Rounds :
           w[phase][t][q] = IF q = r /\ hinted(phase, t) THEN c.hints[t].ballot
                            ELSE c.votes[phase][t][q]
    BY <2>2
  <2>5. w["prevote"][s] = c.votes["prevote"][s] /\ w["precommit"][s] = c.votes["precommit"][s]
    <3>1. c.hints[s].kind # "vote" /\ s \in Voters
      BY ActiveVoter, HintKinds DEF KnownHint
    <3>2. \A f \in Phases : ~hinted(f, s)
      BY <3>1
    <3> QED
      BY <2>2, <3>1, <3>2, RoundFacts
  <2> HIDE DEF w, row
  <2>6. \A phase \in Phases, t \in Voters : c.votes[phase][t][r] = None
    BY <1>0, <2>0 DEF NoneAhead
  <2>7. Grows(c.votes, w)
    BY <2>4, <2>6 DEF Grows
  <2>8. KnownVotes(s, w)
    <3> SUFFICES ASSUME NEW f \in Phases, NEW u \in Voters, NEW q \in Rounds,
                        u # s, u \notin Byzantine, w[f][u][q] # None
                 PROVE  u \in Active /\ rec[u].votes[f][u][q] = w[f][u][q]
      BY DEF KnownVotes
    <3>1. CASE q = r /\ hinted(f, u)
      <4>1. KnownHint(s, c.votes, u, c.hints[u])
        BY HintKinds
      <4> QED
        BY <2>4, <3>1, <4>1 DEF KnownHint
    <3>2. CASE ~(q = r /\ hinted(f, u))
      BY <1>0, <2>4, <3>2 DEF KnownVotes
    <3> QED
      BY <3>1, <3>2
  <2>9. NoneAhead(r, w)
    <3> SUFFICES ASSUME NEW f \in Phases, NEW u \in Voters, NEW q \in Rounds, q > r
                 PROVE  w[f][u][q] = None
      BY DEF NoneAhead
    <3>1. q # r /\ q > c.round
      <4>1. q \in Nat
        BY RoundFacts
      <4> QED
        BY <1>i, <2>0, <4>1
    <3> QED
      BY <1>0, <2>4, <3>1 DEF NoneAhead
  \* The proposals.
  <2>10. new \in SUBSET Proposals /\ IsFiniteSet(new)
    <3>1. bearers \in SUBSET Voters /\ \A t \in bearers : c.hints[t].kind = "proposal"
      OBVIOUS
    <3> HIDE DEF bearers
    <3>2. \A t \in bearers : c.hints[t].proposal \in Proposals
      BY <3>1, HintKinds
    <3>3. new \in SUBSET Proposals
      BY <3>2
    <3>4. IsFiniteSet(new)
      BY ONLY <3>1, HintedFinite
    <3> QED
      BY <3>3, <3>4
  <2>11. SetToSeq(new) \in Seq(new)
    BY <2>10, ListedOnce
  <2>12. /\ list \in Seq(Proposals)
         /\ \A i \in DOMAIN list : list[i] \in new \/ \E j \in DOMAIN c.proposals[r] :
                                                        list[i] = c.proposals[r][j]
         /\ c.proposals[r] # <<>> => list # <<>>
    <3> DEFINE x == c.proposals[r]
               y == SetToSeq(new)
    <3>1. x \in Seq(Proposals) /\ y \in Seq(new) /\ y \in Seq(Proposals)
      BY <1>0, <2>10, <2>11
    <3> HIDE DEF x, y, new
    <3>2. /\ x \o y \in Seq(Proposals) /\ DOMAIN (x \o y) = 1..(Len(x) + Len(y))
          /\ Len(x) \in Nat /\ Len(y) \in Nat
          /\ DOMAIN x = 1..Len(x) /\ DOMAIN y = 1..Len(y)
      BY <3>1
    <3>3. \A i \in 1..(Len(x) + Len(y)) :
             (x \o y)[i] = IF i <= Len(x) THEN x[i] ELSE y[i - Len(x)]
      BY <3>1
    <3>4. \A i \in 1..Len(y) : y[i] \in new
      BY <3>1
    <3>5. \A i \in 1..(Len(x) + Len(y)) : i <= Len(x) => i \in DOMAIN x
      BY <3>2
    <3>6. \A i \in 1..(Len(x) + Len(y)) : ~(i <= Len(x)) => i - Len(x) \in 1..Len(y)
      BY <3>2
    <3>7. x # <<>> => Len(x) > 0
      BY <3>1
    <3>8. x # <<>> => x \o y # <<>>
      BY <3>2, <3>7
    <3> QED
      BY <3>2, <3>3, <3>4, <3>5, <3>6, <3>8 DEF x, y
  <2> HIDE DEF list
  <2>13. /\ all \in ProposalTables /\ all[r] = list
         /\ \A q \in Rounds : q # r => all[q] = c.proposals[q]
    BY <1>0, <2>12 DEF ProposalTables
  <2> HIDE DEF all
  <2>14. \A q \in Rounds : c.proposals[q] # <<>> => all[q] # <<>>
    BY <2>12, <2>13
  <2>15. /\ KnownHints(s, w, c.hints) /\ KnownProposals(s, w, c.proposals)
         /\ KnownValid(s, w, c.proposals, c.round, c.valid)
         /\ KnownUnapplied(s, w, c.unapplied)
    BY <2>3, <2>7, VotesFrame
  <2>16. KnownProposals(s, w, all)
    <3> SUFFICES ASSUME NEW q \in Rounds, NEW i \in DOMAIN all[q]
                 PROVE  Backed(s, w, all[q][i])
      BY DEF KnownProposals
    <3>1. \A j \in DOMAIN c.proposals[q] : Backed(s, w, c.proposals[q][j])
      BY <2>15 DEF KnownProposals
    <3>2. \A p \in new : Backed(s, w, p)
      BY <2>15 DEF KnownHints, KnownHint
    <3>3. CASE q = r
      BY <2>12, <2>13, <3>1, <3>2, <3>3
    <3>4. CASE q # r
      BY <2>13, <3>1, <3>4
    <3> QED
      BY <3>3, <3>4
  <2>17. PlacedProposals(r, all)
    <3> SUFFICES ASSUME NEW q \in Rounds, q > r PROVE all[q] = <<>>
      BY DEF PlacedProposals
    <3>1. q # r /\ q > c.round
      <4>1. q \in Nat
        BY RoundFacts
      <4> QED
        BY <1>i, <2>0, <4>1
    <3> QED
      BY <1>0, <2>13, <3>1 DEF Placed, PlacedProposals
  \* The hints.
  <2>18. hints \in HintTables /\ \A t \in Voters : hints[t] \in {c.hints[t], NoHint}
    BY <1>0 DEF HintTables
  <2> HIDE DEF hints
  <2>19. KnownHints(s, w, hints)
    <3>1. \A t \in Voters : KnownHint(s, w, t, NoHint)
      BY DEF KnownHint, NoHint
    <3> QED
      BY <2>15, <2>18, <3>1 DEF KnownHints
  <2>20. timers \in SUBSET Timers /\ "precommit" \notin timers
    BY DEF Timers
  <2> HIDE DEF timers, new
  <2>21. /\ d \in Records /\ d.votes = w /\ d.round = r /\ d.step = "propose"
         /\ d.locked = c.locked /\ d.proposals = all /\ d.hints = hints
         /\ d.valid = c.valid /\ d.decision = c.decision /\ d.unapplied = c.unapplied
         /\ d.timers = timers
    BY <1>0, <2>3, <2>13, <2>18, <2>20 DEF Records, Steps
  <2> HIDE DEF d
  <2>22. KnownValid(s, w, all, r, c.valid)
    <3>1. c.valid # NoQuorumValue => c.valid.round \in Rounds /\ c.valid.round \in Nat
      <4>1. c.valid \in QuorumValues
        BY <1>0 DEF Records
      <4> QED
        BY <4>1, RoundFacts DEF QuorumValues
    <3>2. c.valid # NoQuorumValue => c.valid.round <= r
      BY <1>i, <2>0, <2>15, <3>1 DEF KnownValid
    <3> QED
      BY <2>14, <2>15, <3>1, <3>2 DEF KnownValid
  <2>23. Known(s, d)
    BY <2>8, <2>15, <2>16, <2>19, <2>21, <2>22 DEF Known
  <2>24. PlacedVotes(s, "propose", r, w)
    BY <2>5, <2>6, <2>9, ActiveVoter, RoundFacts DEF PlacedVotes
  <2>25. Placed(s, d)
    BY <2>17, <2>20, <2>21, <2>24 DEF Placed, PlacedTimers
  <2>26. Unvoted(s, w, c.locked)
    BY <2>5 DEF Unvoted, Uncommitted
  <2>27. MovesPrevote(s, r, w) /\ MovesPrecommit(s, r, w, c.locked)
    BY <2>26 DEF MovesPrevote, MovesPrecommit, Unvoted
  <2>28. MovesDecision(s, w, c.decision)
    <3>1. MovesDecision(s, c.votes, c.decision)
      BY <1>0 DEF Moves
    <3>2. CASE c.decision = None
      BY <3>1, <3>2 DEF MovesDecision
    <3>3. CASE c.decision # None
      <4>1. \A q \in Rounds : Backs(s, c.votes, "precommit", q, c.decision)
                                 => Backs(s, w, "precommit", q, c.decision)
        BY <2>7, <3>3, RoundFacts, BacksGrows
      <4> QED
        BY <3>1, <4>1 DEF MovesDecision
    <3> QED
      BY <3>2, <3>3
  <2>29. MovesProposals(s, all) /\ rec[s].round <= r
    <3>1. rec[s].round <= c.round /\ MovesProposals(s, c.proposals)
      BY <1>0 DEF Moves
    <3>2. rec[s].round \in Nat
      BY <1>0, RoundFacts DEF Moves
    <3>3. rec[s].round <= r
      BY <1>i, <2>0, <3>1, <3>2
    <3> QED
      BY <2>14, <3>1, <3>3 DEF MovesProposals
  <2>30. Moves(s, d)
    BY <1>0, <2>21, <2>26, <2>27, <2>28, <2>29 DEF Moves, Unvoted
  <2> QED
    BY <2>1, <2>21, <2>23, <2>25, <2>30 DEF Good
<1> QED
  BY <1>1, <1>2
LEMMA LargestExists ==
  ASSUME NEW T, T \subseteq Rounds, T # {}
  PROVE  Max(T) \in T
<1> DEFINE U == {k \in Nat : \E x \in T : k = MaxRound - x}
<1>1. T \subseteq Nat /\ MaxRound \in Nat /\ \A x \in T : MaxRound - x \in Nat
  BY RoundFacts DEF Rounds
<1>2. U \subseteq Nat /\ U # {}
  BY <1>1
<1>3. PICK k \in U : \A y \in U : k <= y
  <2> HIDE DEF U
  <2> QED
    BY <1>2, LeastExists
<1>4. PICK x \in T : k = MaxRound - x
  BY <1>3
<1>5. ASSUME NEW y \in T PROVE x >= y
  <2>1. MaxRound - y \in U
    BY <1>1
  <2>2. MaxRound - x <= MaxRound - y
    BY <1>3, <1>4, <2>1
  <2>3. x \in Nat /\ y \in Nat
    BY <1>1
  <2> QED
    BY <1>1, <2>2, <2>3
<1> QED
  BY <1>5 DEF Max

\* A hint of a running voter names a round that it stands in.
LEMMA HintIsBehind ==
  ASSUME NEW s \in Active, Inv, NEW c, Good(s, c), NEW t \in Running,
         c.hints[t].kind \in {"vote", "proposal"}
  PROVE  rec[t].round >= c.hints[t].round
<1>0. t \in Voters /\ t \in Active /\ t \notin Byzantine /\ Good(t, rec[t])
  BY RunningVoter DEF Inv
<1>1. /\ rec[t].round \in Rounds /\ NoneAhead(rec[t].round, rec[t].votes)
      /\ PlacedProposals(rec[t].round, rec[t].proposals)
  BY <1>0, GoodRecord DEF Placed, PlacedVotes
<1>2. rec[t].round \in Nat
  BY <1>1, RoundFacts
<1>3. CASE c.hints[t].kind = "vote"
  <2>1. /\ c.hints[t].round \in Rounds /\ c.hints[t].phase \in Phases
        /\ c.hints[t].ballot \in Ballots
        /\ rec[t].votes[c.hints[t].phase][t][c.hints[t].round] = c.hints[t].ballot
    BY <1>0, <1>3, HintKinds DEF KnownHint
  <2>2. c.hints[t].ballot # None
    BY <2>1, RoundFacts DEF Ballots
  <2>3. ~(c.hints[t].round > rec[t].round)
    BY <1>0, <1>1, <2>1, <2>2 DEF NoneAhead
  <2>4. c.hints[t].round \in Nat
    BY <2>1, RoundFacts
  <2> QED
    BY <1>2, <2>3, <2>4
<1>4. CASE c.hints[t].kind = "proposal"
  <2>1. c.hints[t].round \in Rounds /\ rec[t].proposals[c.hints[t].round] # <<>>
    BY <1>0, <1>4, HintKinds DEF KnownHint
  <2>2. ~(c.hints[t].round > rec[t].round)
    BY <1>1, <2>1 DEF PlacedProposals
  <2>3. c.hints[t].round \in Nat
    BY <2>1, RoundFacts
  <2> QED
    BY <1>2, <2>2, <2>3
<1> QED
  BY <1>3, <1>4

LEMMA MaybeJumpGood ==
  ASSUME NEW s \in Active, Inv, NEW c, Good(s, c), Unvoted(s, c.votes, c.locked)
  PROVE  Good(s, maybeJump(s, c))
<1> DEFINE backers(r) == {t \in Voters : c.hints[t].round >= r}
           supported == {r \in Rounds : Cardinality(backers(r)) >= 2}
           r == Max(supported)
<1>1. CASE supported = {}
  BY <1>1 DEF maybeJump
<1>2. CASE supported # {}
  <2>1. r \in supported
    <3> HIDE DEF supported
    <3>1. supported \subseteq Rounds
      BY DEF supported
    <3> QED
      BY <1>2, <3>1, LargestExists
  <2>2. maybeJump(s, c) = enterRound(s, c, r)
    BY <1>2 DEF maybeJump
  <2> HIDE DEF r
  <2>3. r \in Rounds /\ Cardinality(backers(r)) >= 2
    BY <2>1
  <2>4. IsFiniteSet(backers(r))
    BY VotersFinite, FS_Subset
  <2>5. PICK t, u \in backers(r) : t # u
    <3> DEFINE B == backers(r)
    <3>1. Cardinality(B) # 0 /\ Cardinality(B) # 1
      BY <2>3
    <3> HIDE DEF B
    <3>2. B # {} /\ ~ \E x : B = {x}
      BY <2>4, <3>1, FS_EmptySet, FS_Singleton DEF B
    <3>3. \E x, y \in B : x # y
      BY <3>2
    <3> QED
      BY <3>3 DEF B
  <2>6. ASSUME NEW x \in backers(r) PROVE x \in Byzantine \/ (x \in Running /\ rec[x].round >= r)
    <3>1. x \in Voters /\ c.hints[x].round >= r /\ r \in Nat /\ r # 0
      BY <2>3, RoundFacts
    <3>2. c.hints[x].kind \in {"vote", "proposal"}
      <4>1. c.hints[x] # NoHint
        BY <3>1 DEF NoHint
      <4> QED
        BY <3>1, <4>1, HintKinds
    <3>3. CASE x \notin Byzantine
      <4>1. x \in Active
        BY <3>1, <3>2, <3>3, HintKinds DEF KnownHint
      <4>2. x \in Running
        BY <3>1, <3>3, <4>1 DEF Running, Honest
      <4>3. rec[x].round >= c.hints[x].round
        BY <3>2, <4>2, HintIsBehind
      <4>4. rec[x].round \in Nat /\ c.hints[x].round \in Nat
        <5>1. Good(x, rec[x])
          BY <4>1 DEF Inv
        <5>2. rec[x].round \in Rounds
          BY <4>1, <5>1, GoodRecord
        <5>3. c.hints[x].round \in Rounds
          BY <3>1, <3>2, HintKinds
        <5> QED
          BY <5>2, <5>3, RoundFacts
      <4> QED
        BY <3>1, <4>2, <4>3, <4>4
    <3> QED
      BY <3>3
  <2>7. Earned(s, r)
    BY <2>5, <2>6 DEF Earned
  <2> QED
    BY <2>2, <2>3, <2>7, EnterRoundGood
<1> QED
  BY <1>1, <1>2

-----------------------------------------------------------------------------
(***************************************************************************)
(* What exists is real.                                                    *)
(***************************************************************************)

LEMMA OwnGood ==
  ASSUME NEW s \in Active, Inv
  PROVE  /\ Good(s, rec[s]) /\ Unvoted(s, rec[s].votes, rec[s].locked)
         /\ rec[s] \in Records /\ rec[s].round \in Rounds
         /\ rec[s].votes \in VoteTables
BY GoodRecord DEF Inv, Unvoted, Uncommitted

LEMMA CertificateBacks ==
  ASSUME NEW s \in Active, NEW r \in Rounds, NEW phase \in Phases, NEW ballot,
         CertificatesFor(r, phase, ballot) # {}
  PROVE  Backs(s, rec[s].votes, phase, r, ballot)
<1>1. PICK signers \in Quorums : \A t \in signers : Signed(t, r, phase, ballot)
  BY DEF CertificatesFor
<1> QED
  BY <1>1 DEF Signed, Backs, Cast

LEMMA ProposedBacked ==
  ASSUME NEW s \in Active, NEW p \in Proposals, Proposed(p)
  PROVE  Backed(s, rec[s].votes, p)
<1> SUFFICES ASSUME p.validRound # 0
             PROVE  /\ p.validRound \in Rounds /\ p.validRound < p.term
                    /\ Backs(s, rec[s].votes, "prevote", p.validRound, p.value)
  BY DEF Backed
<1>1. /\ p.validRound \in 1..(p.term - 1)
      /\ CertificatesFor(p.validRound, "prevote", p.value) # {}
  BY DEF Proposed, Justified
<1>2. p.term \in Rounds
  BY DEF Proposals
<1>3. p.validRound \in Rounds /\ p.validRound < p.term
  BY <1>1, <1>2, ConsensusAssumption DEF Rounds
<1> QED
  BY <1>1, <1>3, RoundFacts, CertificateBacks

\* Own votes are never changed by a transition.
LEMMA OwnVotesStay ==
  ASSUME NEW s \in Active, Inv, NEW c, Good(s, c), NEW phase \in Phases, NEW r \in Rounds,
         rec[s].votes[phase][s][r] # None
  PROVE  c.votes[phase][s][r] = rec[s].votes[phase][s][r]
<1>1. rec[s].votes[phase][s] \in [Rounds -> Ballots \cup {None}]
  BY OwnGood, ActiveVoter DEF VoteTables
<1>2. Moves(s, c) /\ c.round \in Rounds
  BY GoodRecord
<1>3. \A ballot : rec[s].votes[phase][s][c.round] = None =>
          WithBallot(rec[s].votes[phase][s], c.round, ballot)[r] = rec[s].votes[phase][s][r]
  BY <1>1, <1>2 DEF WithBallot
<1>4. CASE phase = "prevote"
  BY <1>2, <1>3, <1>4 DEF Moves, MovesPrevote
<1>5. CASE phase = "precommit"
  BY <1>2, <1>3, <1>5 DEF Moves, MovesPrecommit, Uncommitted
<1> QED
  BY <1>4, <1>5, RoundFacts

LEMMA BackedLater ==
  ASSUME NEW s \in Active, Inv, NEW c, Good(s, c), NEW p \in Proposals,
         Backed(s, rec[s].votes, p)
  PROVE  Backed(s, c.votes, p)
<1> SUFFICES ASSUME p.validRound # 0
             PROVE  /\ p.validRound \in Rounds /\ p.validRound < p.term
                    /\ Backs(s, c.votes, "prevote", p.validRound, p.value)
  BY DEF Backed
<1>1. /\ p.validRound \in Rounds /\ p.validRound < p.term
      /\ Backs(s, rec[s].votes, "prevote", p.validRound, p.value)
  BY DEF Backed
<1>2. p.value # None
  BY RoundFacts DEF Proposals
<1>3. PICK signers \in Quorums : \A t \in signers \ Byzantine :
         t \in Active /\ Cast(s, rec[s].votes, "prevote", t, p.validRound) = p.value
  BY <1>1 DEF Backs
<1>4. rec[s].votes["prevote"][s][p.validRound] = p.value
         => c.votes["prevote"][s][p.validRound] = p.value
  <2>1. SUFFICES ASSUME rec[s].votes["prevote"][s][p.validRound] = p.value
                 PROVE  c.votes["prevote"][s][p.validRound] = p.value
    OBVIOUS
  <2>2. "prevote" \in Phases /\ rec[s].votes["prevote"][s][p.validRound] # None
    BY <1>2, <2>1, RoundFacts
  <2>3. c.votes["prevote"][s][p.validRound] = rec[s].votes["prevote"][s][p.validRound]
    BY <1>1, <2>2, OwnVotesStay
  <2> QED
    BY <2>1, <2>3
<1>5. \A t \in signers \ Byzantine :
         t \in Active /\ Cast(s, c.votes, "prevote", t, p.validRound) = p.value
  BY <1>3, <1>4 DEF Cast
<1> QED
  BY <1>1, <1>5 DEF Backs
-----------------------------------------------------------------------------
(***************************************************************************)
(* The reducers.                                                           *)
(***************************************************************************)

LEMMA AccusedFacts ==
  /\ \A v \in Values : Offender[v] # None => Offender[v] \in Accusable
  /\ Accusable \subseteq Byzantine /\ Byzantine \subseteq Voters
BY ConsensusAssumption

\* The proposal that a voter signs, its valid value or a candidate.
LEMMA OwnProposal ==
  ASSUME NEW s \in Active, NEW c, Good(s, c), c.proposals[c.round] = <<>>,
         NEW candidate \in Values
  PROVE  LET value == IF c.valid # NoQuorumValue THEN c.valid.value ELSE candidate
             p == [term |-> c.round, value |-> value, validRound |-> c.valid.round]
         IN  p \in Proposals /\ Backed(s, c.votes, p) /\ p.term = c.round
<1> DEFINE value == IF c.valid # NoQuorumValue THEN c.valid.value ELSE candidate
           p == [term |-> c.round, value |-> value, validRound |-> c.valid.round]
<1>0. /\ c.round \in Rounds /\ c.valid \in QuorumValues
      /\ KnownValid(s, c.votes, c.proposals, c.round, c.valid)
  BY GoodRecord DEF Known
<1>1. value \in Values
  BY <1>0 DEF QuorumValues
<1>2. CASE c.valid = NoQuorumValue
  <2>1. p.validRound = 0 /\ p = [term |-> c.round, value |-> value, validRound |-> 0]
    BY <1>2 DEF NoQuorumValue
  <2>2. 0 \in 0..MaxRound
    BY RoundFacts
  <2>3. p \in Proposals /\ Backed(s, c.votes, p) /\ p.term = c.round
    BY <1>0, <1>1, <2>1, <2>2 DEF Proposals, Backed
  <2> QED
    BY <2>3
<1>3. CASE c.valid # NoQuorumValue
  <2>1. c.valid.round \in Rounds /\ value = c.valid.value
    BY <1>0, <1>3 DEF QuorumValues
  <2>2. /\ c.valid.round <= c.round /\ c.proposals[c.valid.round] # <<>>
        /\ Backs(s, c.votes, "prevote", c.valid.round, value)
    BY <1>0, <1>3, <2>1 DEF KnownValid
  <2>3. c.valid.round # c.round
    BY <2>2
  <2>4. c.valid.round \in Nat /\ c.round \in Nat /\ c.valid.round \in 0..MaxRound
    BY <1>0, <2>1, RoundFacts DEF Rounds
  <2>5. c.valid.round < c.round
    BY <2>2, <2>3, <2>4
  <2> HIDE DEF value
  <2>6. p \in Proposals /\ Backed(s, c.votes, p) /\ p.term = c.round
    BY <1>0, <1>1, <2>1, <2>2, <2>4, <2>5 DEF Proposals, Backed
  <2> QED
    BY <2>6 DEF value
<1> QED
  BY <1>2, <1>3

LEMMA ProposeGood ==
  ASSUME NEW s \in Active, Inv, NEW candidate \in Values, NEW refused, NEW foreign
  PROVE  Good(s, propose(s, rec[s], candidate, refused, foreign))
<1> DEFINE c == rec[s]
           value == IF c.valid # NoQuorumValue THEN c.valid.value ELSE candidate
           p == [term |-> c.round, value |-> value, validRound |-> c.valid.round]
           known == [c EXCEPT !.inputKnown = TRUE]
           retained == IF Offender[value] = None THEN known
                       ELSE retainAccusation(s, known, Offender[value], foreign)
           noted == recordProposal(retained, p)
           stays == \/ c.decision # None \/ c.halted # None \/ c.step # "propose"
                    \/ Proposer(c.round) # s
                    \/ c.proposals[c.round] # <<>>
                    \/ ~Validates(s, value)
<1>0. /\ Good(s, c) /\ c \in Records /\ c.round \in Rounds /\ c.valid \in QuorumValues
      /\ KnownValid(s, c.votes, c.proposals, c.round, c.valid)
  BY OwnGood, GoodRecord DEF Known
<1>1. value \in Values
  BY <1>0 DEF QuorumValues
<1>2. ASSUME ~stays
      PROVE  p \in Proposals /\ Backed(s, c.votes, p) /\ p.term = c.round
  BY <1>0, <1>2, OwnProposal
<1>3. propose(s, c, candidate, refused, foreign) =
         IF stays THEN c
         ELSE IF retained.halted # None THEN retained
         ELSE drive(s, prevoteProposal(s, noted, p, refused), refused)
  BY DEF propose
<1>4. Same(c, known) /\ known \in Records
  BY <1>0, InputSame DEF Same
<1>5. Same(c, retained)
  <2> HIDE DEF value, known
  <2>1. Offender[value] # None => Same(known, retainAccusation(s, known, Offender[value], foreign))
    BY <1>1, <1>4, AccusedFacts, RetainSame
  <2> QED
    BY <1>4, <2>1, SameTwice
<1>6. Good(s, retained) /\ retained.votes = c.votes /\ retained.round = c.round
  BY <1>0, <1>5, SameGood DEF Same
<1>7. ASSUME ~stays PROVE Good(s, drive(s, prevoteProposal(s, noted, p, refused), refused))
  <2>1. p \in Proposals /\ Backed(s, c.votes, p) /\ p.term = c.round /\ p.term <= retained.round
    <3>1. p \in Proposals /\ Backed(s, c.votes, p) /\ p.term = c.round
      BY <1>2, <1>7
    <3>2. c.round <= c.round
      <4>1. c.round \in Nat
        BY <1>0, RoundFacts
      <4> QED
        BY <4>1
    <3> QED
      BY <1>6, <3>1, <3>2
  <2> HIDE DEF p, retained, c
  <2>2. Good(s, noted) /\ Backed(s, noted.votes, p)
    BY <1>6, <2>1, RecordProposalGood DEF Untouched
  <2> HIDE DEF noted
  <2> QED
    BY <2>1, <2>2, PrevoteProposalGood, DriveGood
<1> HIDE DEF stays, retained, noted, p
<1> QED
  BY <1>0, <1>3, <1>6, <1>7

\* A proposal that exists comes from its proposer.
LEMMA ProposalHinted ==
  ASSUME NEW s \in Active, Inv, NEW c, Good(s, c), NEW p \in Proposals, Proposed(p)
  PROVE  /\ Proposer(p.term) \in Voters /\ ProposalHint(p) \in ProposalHints
         /\ KnownHint(s, c.votes, Proposer(p.term), ProposalHint(p))
<1>1. Backed(s, c.votes, p)
  BY ProposedBacked, BackedLater
<1>2. p.term \in Rounds
  BY DEF Proposals
<1>3. Proposer(p.term) \notin Byzantine =>
         Proposer(p.term) \in Active /\ rec[Proposer(p.term)].proposals[p.term] # <<>>
  <2>1. SUFFICES ASSUME Proposer(p.term) \in Active,
                        p \in ToSet(rec[Proposer(p.term)].proposals[p.term]),
                        Proposer(p.term) \notin Byzantine
                 PROVE  rec[Proposer(p.term)].proposals[p.term] # <<>>
    BY DEF Proposed
  <2> DEFINE list == rec[Proposer(p.term)].proposals[p.term]
  <2>2. DOMAIN list # {}
    BY <2>1 DEF ToSet
  <2> QED
    BY <2>2
<1>4. Proposer(p.term) \in Voters
  BY ConsensusAssumption DEF Proposed
<1>5. ProposalHint(p) \in ProposalHints
  BY <1>2 DEF ProposalHint, ProposalHints
<1>6. KnownHint(s, c.votes, Proposer(p.term), ProposalHint(p))
  BY <1>1, <1>3 DEF KnownHint, ProposalHint
<1> QED
  BY <1>4, <1>5, <1>6

LEMMA ReceiveRoundGood ==
  ASSUME NEW s \in Active, Inv, NEW c, Good(s, c), Unvoted(s, c.votes, c.locked),
         NEW p \in Proposals, Proposed(p), NEW refused
  PROVE  Good(s, receiveRound(s, c, p, refused))
<1> DEFINE hinted == addHint(c, Proposer(p.term), ProposalHint(p))
           c1 == IF p.term > c.round THEN maybeJump(s, hinted) ELSE c
           c2 == recordProposal(c1, p)
           c3 == haltIfFaultThresholdExceeded(s, c2)
           c4 == IF c3.decision # None THEN c3 ELSE prevoteProposal(s, c3, p, refused)
<1>1. Good(s, hinted) /\ Unvoted(s, hinted.votes, hinted.locked)
  BY ProposalHinted, AddHintGood DEF Untouched
<1>2. Good(s, c1)
  BY <1>1, MaybeJumpGood
<1>3. receiveRound(s, c, p, refused) =
         IF p.term > c1.round THEN c1
         ELSE IF ~proposalAt(c2, p.term, p.value) THEN c2
         ELSE IF c3.halted # None THEN c3
         ELSE drive(s, c4, refused)
  BY DEF receiveRound
<1> HIDE DEF c1
<1>4. ASSUME ~(p.term > c1.round)
      PROVE  Good(s, c2) /\ Good(s, c3) /\ Good(s, drive(s, c4, refused))
  <2>1. p.term <= c1.round
    <3>1. p.term \in Nat /\ c1.round \in Nat
      <4>1. p.term \in Rounds /\ c1.round \in Rounds
        BY <1>2, GoodRecord DEF Proposals
      <4> QED
        BY <4>1, RoundFacts
    <3> QED
      BY <1>4, <3>1
  <2>2. Backed(s, c1.votes, p)
    BY <1>2, ProposedBacked, BackedLater
  <2>3. Good(s, c2) /\ c2.votes = c1.votes
    BY <1>2, <2>1, <2>2, RecordProposalGood DEF Untouched
  <2> HIDE DEF c2
  <2>4. Good(s, c3) /\ c3.votes = c2.votes
    BY <2>3, GoodRecord, ThresholdSame, SameGood DEF Same
  <2> HIDE DEF c3
  <2>5. Good(s, c4)
    BY <2>2, <2>3, <2>4, PrevoteProposalGood
  <2> HIDE DEF c4
  <2> QED
    BY <2>3, <2>4, <2>5, DriveGood
<1> QED
  BY <1>2, <1>3, <1>4

LEMMA ReceiveProposalGood ==
  ASSUME NEW s \in Active, Inv, NEW p \in Proposals, Proposed(p), NEW signers, NEW refused, NEW foreign
  PROVE  Good(s, receiveProposal(s, rec[s], p, signers, refused, foreign))
<1> DEFINE c == rec[s]
           o == Offender[p.value]
           c1 == IF o = None THEN c ELSE retainAccusation(s, c, o, foreign)
           known == [c1 EXCEPT !.inputKnown = TRUE]
<1>0. Good(s, c) /\ Unvoted(s, c.votes, c.locked) /\ c \in Records /\ p.value \in Values
  BY OwnGood DEF Proposals
<1>1. receiveProposal(s, c, p, signers, refused, foreign)
        \in {terminalFault(c), c, c1, halt(c1), receiveRound(s, known, p, refused)}
  BY DEF receiveProposal
<1>2. Same(c, c1)
  <2>1. o # None => o \in Accusable
    BY <1>0, AccusedFacts
  <2> QED
    BY <1>0, <2>1, HaltSame, RetainSame
<1> HIDE DEF c1
<1>3. Good(s, c1) /\ c1 \in Records
  BY <1>0, <1>2, SameGood DEF Same
<1>4. Same(c, known)
  BY <1>2, <1>3, InputSame, SameTwice
<1> HIDE DEF known
<1>5. Good(s, known) /\ Unvoted(s, known.votes, known.locked)
  BY <1>0, <1>4, SameGood DEF Same
<1>6. Good(s, receiveRound(s, known, p, refused))
  BY <1>5, ReceiveRoundGood
<1> QED
  BY <1>0, <1>1, <1>3, <1>6, HaltGood

LEMMA ReceiveVoteGood ==
  ASSUME NEW s \in Active, Inv, NEW t \in Voters, NEW r \in Rounds, NEW phase \in Phases,
         NEW ballot \in Ballots, Signed(t, r, phase, ballot), NEW refused
  PROVE  Good(s, receiveVote(s, rec[s], t, r, phase, ballot, refused))
<1> DEFINE c == rec[s]
           hint == VoteHint(r, phase, ballot)
           hinted == addHint(c, t, hint)
           c1 == IF r > c.round THEN maybeJump(s, hinted) ELSE c
           c2 == haltIfFaultThresholdExceeded(s, recordVote(c1, t, r, phase, ballot))
<1>0. /\ Good(s, c) /\ Unvoted(s, c.votes, c.locked) /\ c \in Records /\ c.round \in Rounds
      /\ NoneAhead(c.round, c.votes) /\ ballot # None
  BY OwnGood, GoodRecord, RoundFacts DEF Placed, PlacedVotes, Ballots
<1>1. receiveVote(s, c, t, r, phase, ballot, refused) =
         IF t = s /\ c.votes[phase][s][r] # ballot THEN halt(c)
         ELSE IF c.halted # None THEN c
         ELSE IF r > c1.round THEN c1
         ELSE IF c2.halted # None THEN c2
         ELSE drive(s, c2, refused)
  BY DEF receiveVote
<1>2. ASSUME ~(t = s /\ c.votes[phase][s][r] # ballot)
      PROVE  /\ Good(s, c1)
             /\ ~(r > c1.round) => Good(s, c2) /\ Good(s, drive(s, c2, refused))
  <2>1. r > c.round => t # s
    BY <1>0, <1>2 DEF NoneAhead
  <2>2. t \notin Byzantine => t \in Active /\ rec[t].votes[phase][t][r] = ballot
    BY DEF Signed
  <2>3. r > c.round => Good(s, hinted) /\ Unvoted(s, hinted.votes, hinted.locked)
    <3>1. hint \in VoteHints
      BY DEF VoteHint, VoteHints
    <3>2. r > c.round => KnownHint(s, c.votes, t, hint)
      BY <2>1, <2>2 DEF KnownHint, VoteHint
    <3> HIDE DEF hint
    <3> QED
      BY <1>0, <3>1, <3>2, AddHintGood DEF Untouched
  <2>4. Good(s, c1)
    BY <1>0, <2>3, MaybeJumpGood
  <2>5. t = s => c1.votes[phase][s][r] = ballot
    BY <1>2, <2>1
  <2> HIDE DEF c1
  <2>6. ASSUME ~(r > c1.round) PROVE Good(s, c2) /\ Good(s, drive(s, c2, refused))
    <3>1. r <= c1.round
      <4>1. r \in Nat /\ c1.round \in Nat
        BY <2>4, GoodRecord, RoundFacts
      <4> QED
        BY <2>6, <4>1
    <3>2. Good(s, recordVote(c1, t, r, phase, ballot))
      BY <2>2, <2>4, <2>5, <3>1, RecordVoteGood
    <3>3. Good(s, c2)
      BY <3>2, GoodRecord, ThresholdSame, SameGood
    <3> HIDE DEF c2
    <3> QED
      BY <3>3, DriveGood
  <2> QED
    BY <2>4, <2>6
<1> HIDE DEF c1, c2
<1> QED
  BY <1>0, <1>1, <1>2, HaltGood

LEMMA ReceiveCommitGood ==
  ASSUME NEW s \in Active, Inv, NEW r \in Rounds, NEW value \in Values,
         NEW signers \in CertificatesFor(r, "precommit", value)
  PROVE  Good(s, receiveCommit(s, rec[s], r, value, signers))
<1> DEFINE c == rec[s]
           decided == [c EXCEPT !.decision = value]
<1>0. Good(s, c) /\ Backs(s, c.votes, "precommit", r, value)
  BY OwnGood, RoundFacts, CertificateBacks
<1>1. \/ receiveCommit(s, c, r, value, signers)
           \in {halt(c), haltForCertifiedValue(c, value), terminalFault(c), c}
      \/ c.decision = None /\ receiveCommit(s, c, r, value, signers) = decided
  BY DEF receiveCommit
<1>2. c.decision = None => Good(s, decided)
  BY <1>0, DecideGood
<1>3. Good(s, haltForCertifiedValue(c, value))
  BY <1>0, KeepCertifiedGood
<1> QED
  BY <1>0, <1>1, <1>2, <1>3, HaltGood

LEMMA TimeoutGood ==
  ASSUME NEW s \in Active, Inv, NEW phase \in Timers, NEW refused,
         phase = "precommit" => rec[s].round < MaxRound
  PROVE  Good(s, timeout(s, rec[s], phase, refused))
<1> DEFINE c == rec[s]
           prevoted == IF c.step = "propose" THEN signLocalVote(s, c, "prevote", Nil, {}) ELSE c
           nothing == signLocalVote(s, prevoted, "precommit", Nil, {})
           left == enterRound(s, c, c.round + 1)
<1>0. /\ Good(s, c) /\ Unvoted(s, c.votes, c.locked) /\ c \in Records /\ c.round \in Rounds
      /\ PlacedTimers(c.timers, c.round, c.votes)
  BY OwnGood, GoodRecord DEF Placed
<1>1. \/ timeout(s, c, phase, refused) = c
      \/ c.step = "propose" /\ timeout(s, c, phase, refused) = drive(s, prevoted, refused)
      \/ /\ c.step \in {"propose", "prevote"}
         /\ timeout(s, c, phase, refused) = drive(s, nothing, refused)
      \/ /\ phase = "precommit" /\ phase \in c.timers
         /\ timeout(s, c, phase, refused) = drive(s, left, refused)
  BY DEF timeout, Timers, Phases
<1>2. c.step \in {"propose", "prevote"} => Good(s, prevoted) /\ prevoted.step = "prevote"
  BY <1>0, PrevoteGood
<1> HIDE DEF prevoted
<1>3. c.step \in {"propose", "prevote"} => Good(s, nothing)
  BY <1>2, PrecommitNilGood
<1>4. ASSUME phase = "precommit", phase \in c.timers PROVE Good(s, left)
  <2>1. c.round + 1 \in Rounds
    BY <1>0, <1>4, ConsensusAssumption DEF Rounds
  <2>2. anyQuorum(c, c.round, "precommit")
    BY <1>0, <1>4 DEF PlacedTimers, anyQuorum, Present
  <2>3. Earned(s, c.round + 1)
    BY <2>2 DEF Earned
  <2> QED
    BY <1>0, <2>1, <2>3, EnterRoundGood
<1> HIDE DEF nothing, left
<1> QED
  BY <1>0, <1>1, <1>2, <1>3, <1>4, DriveGood

LEMMA RestoredGood ==
  ASSUME NEW s, NEW c, Good(s, c)
  PROVE  Good(s, restored(s, c))
BY HaltGood DEF restored

LEMMA ResumeGood ==
  ASSUME NEW s \in Active, Inv
  PROVE  Good(s, resumeAfterReplay(s, rec[s]))
<1> DEFINE c == rec[s]
           v == c.unapplied
           decided == [c EXCEPT !.decision = v]
           resumed == [c EXCEPT !.decision = c.unapplied, !.halted = None, !.unapplied = None]
<1>0. /\ Good(s, c) /\ c \in Records /\ KnownUnapplied(s, c.votes, c.unapplied)
  BY OwnGood DEF Good, Known
<1>1. \/ resumeAfterReplay(s, c) \in {c, terminalFault(c)}
      \/ /\ Restorable(s, c) /\ restored(s, c).halted = "certified-validation"
         /\ resumeAfterReplay(s, c) = resumed
  BY DEF resumeAfterReplay
<1>2. ASSUME Restorable(s, c), restored(s, c).halted = "certified-validation"
      PROVE  Good(s, resumed)
  <2>1. c.halted = "certified-validation"
    BY <1>0, <1>2 DEF restored, terminalFault, Records
  <2>2. c.decision = None /\ c.unapplied # None
    BY <1>2, <2>1 DEF Restorable, HaltRestores
  <2>3. PICK r \in Rounds : Backs(s, c.votes, "precommit", r, v)
    BY <1>0, <2>2 DEF KnownUnapplied
  <2>4. v \in Values
    BY <1>0, <2>2 DEF Records
  <2>5. Good(s, decided)
    BY <1>0, <2>2, <2>3, <2>4, DecideGood
  <2>6. Same(decided, resumed)
    <3>1. None \in Halts
      BY DEF Halts
    <3> QED
      BY <1>0, <2>4, <3>1 DEF Same, Records
  <2> QED
    BY <2>5, <2>6, SameGood
<1> QED
  BY <1>0, <1>1, <1>2, HaltGood
-----------------------------------------------------------------------------
(***************************************************************************)
(* Installing the outcome.                                                 *)
(***************************************************************************)

\* What the others rely on stays.
Stays ==
    /\ \A u \in Running, phase \in Phases, r \in Rounds :
          rec[u].votes[phase][u][r] # None
              => rec'[u].votes[phase][u][r] = rec[u].votes[phase][u][r]
    /\ \A u \in Running, r \in Rounds : rec[u].proposals[r] # <<>> => rec'[u].proposals[r] # <<>>

LEMMA BacksStays ==
  ASSUME Stays, NEW s \in Active, NEW votes, NEW phase \in Phases, NEW r \in Rounds,
         NEW v, v # None, Backs(s, votes, phase, r, v)
  PROVE  Backs(s, votes, phase, r, v)'
<1>1. PICK signers \in Quorums :
        \A t \in signers \ Byzantine : t \in Active /\ Cast(s, votes, phase, t, r) = v
  BY DEF Backs
<1>2. ASSUME NEW t \in signers \ Byzantine PROVE t \in Active /\ Cast(s, votes, phase, t, r)' = v
  <2>1. t \in Active /\ t \in Voters
    BY <1>1 DEF Quorums, Certificates
  <2>2. t \in Running
    BY <2>1 DEF Running, Honest
  <2>3. CASE t = s
    BY <1>1, <2>3 DEF Cast
  <2>4. CASE t # s
    BY <1>1, <2>2, <2>4 DEF Cast, Stays
  <2> QED
    BY <2>1, <2>3, <2>4
<1> QED
  BY <1>2 DEF Backs

LEMMA BackedStays ==
  ASSUME Stays, NEW s \in Active, NEW votes, NEW p \in Proposals, Backed(s, votes, p)
  PROVE  Backed(s, votes, p)'
<1>1. CASE p.validRound = 0
  BY <1>1 DEF Backed
<1>2. CASE p.validRound # 0
  <2>1. /\ p.validRound \in Rounds /\ p.validRound < p.term
        /\ Backs(s, votes, "prevote", p.validRound, p.value)
    BY <1>2 DEF Backed
  <2>2. p.value # None /\ "prevote" \in Phases
    BY RoundFacts DEF Proposals
  <2>3. Backs(s, votes, "prevote", p.validRound, p.value)'
    BY <2>1, <2>2, BacksStays
  <2> QED
    BY <2>1, <2>3 DEF Backed
<1> QED
  BY <1>1, <1>2

LEMMA KnownStays ==
  ASSUME Stays, NEW s \in Active, NEW c, Good(s, c)
  PROVE  Known(s, c)'
<1>0. c \in Records /\ Known(s, c)
  BY GoodRecord
<1>r. \A u \in Voters : u \notin Byzantine /\ u \in Active => u \in Running
  BY DEF Running, Honest
<1>1. KnownVotes(s, c.votes)'
  <2>1. KnownVotes(s, c.votes)
    BY <1>0 DEF Known
  <2> QED
    BY <1>r, <2>1 DEF KnownVotes, Stays
<1>2. KnownHints(s, c.votes, c.hints)'
  <2>1. ASSUME NEW t \in Voters PROVE KnownHint(s, c.votes, t, c.hints[t])'
    <3> DEFINE h == c.hints[t]
    <3>1. /\ h.kind = "vote" => /\ h.round \in Rounds /\ h.phase \in Phases
                                /\ h.ballot \in Ballots
          /\ h.kind = "proposal" => h.round \in Rounds /\ h.proposal \in Proposals
          /\ KnownHint(s, c.votes, t, h)
      BY HintKinds
    <3> HIDE DEF h
    <3>2. h.kind = "vote" /\ t \notin Byzantine =>
             t \in Active /\ rec'[t].votes[h.phase][t][h.round] = h.ballot
      <4>1. SUFFICES ASSUME h.kind = "vote", t \notin Byzantine
                     PROVE  t \in Active /\ rec'[t].votes[h.phase][t][h.round] = h.ballot
        OBVIOUS
      <4>2. t \in Active /\ rec[t].votes[h.phase][t][h.round] = h.ballot
        BY <3>1, <4>1 DEF KnownHint
      <4>3. h.phase \in Phases /\ h.round \in Rounds /\ h.ballot # None
        BY <3>1, <4>1, RoundFacts DEF Ballots
      <4> QED
        BY <1>r, <4>1, <4>2, <4>3 DEF Stays
    <3>3. h.kind = "proposal" => Backed(s, c.votes, h.proposal)'
      BY <3>1, BackedStays DEF KnownHint
    <3>4. h.kind = "proposal" /\ t \notin Byzantine =>
             t \in Active /\ rec'[t].proposals[h.round] # <<>>
      BY <1>r, <3>1 DEF KnownHint, Stays
    <3>5. KnownHint(s, c.votes, t, h)'
      BY <3>1, <3>2, <3>3, <3>4 DEF KnownHint
    <3> QED
      BY <3>5 DEF h
  <2> QED
    BY <2>1 DEF KnownHints
<1>3. KnownProposals(s, c.votes, c.proposals)'
  <2>1. ASSUME NEW r \in Rounds, NEW i \in DOMAIN c.proposals[r]
        PROVE  Backed(s, c.votes, c.proposals[r][i])'
    <3>1. c.proposals[r][i] \in Proposals
      BY GoodRecord
    <3>2. Backed(s, c.votes, c.proposals[r][i])
      BY <1>0 DEF Known, KnownProposals
    <3> QED
      BY <3>1, <3>2, BackedStays
  <2> QED
    BY <2>1 DEF KnownProposals
<1>4. KnownValid(s, c.votes, c.proposals, c.round, c.valid)'
  <2>1. CASE c.valid = NoQuorumValue
    BY <2>1 DEF KnownValid
  <2>2. CASE c.valid # NoQuorumValue
    <3>1. c.valid.round \in Rounds /\ c.valid.value # None /\ "prevote" \in Phases
      BY <2>2, GoodRecord, RoundFacts DEF QuorumValues
    <3>2. /\ c.valid.round <= c.round /\ c.proposals[c.valid.round] # <<>>
          /\ Backs(s, c.votes, "prevote", c.valid.round, c.valid.value)
      BY <1>0, <2>2 DEF Known, KnownValid
    <3>3. Backs(s, c.votes, "prevote", c.valid.round, c.valid.value)'
      BY <3>1, <3>2, BacksStays
    <3> QED
      BY <3>2, <3>3 DEF KnownValid
  <2> QED
    BY <2>1, <2>2
<1>5. KnownUnapplied(s, c.votes, c.unapplied)'
  <2>1. CASE c.unapplied = None
    BY <2>1 DEF KnownUnapplied
  <2>2. CASE c.unapplied # None
    <3>1. PICK r \in Rounds : Backs(s, c.votes, "precommit", r, c.unapplied)
      BY <1>0, <2>2 DEF Known, KnownUnapplied
    <3>2. Backs(s, c.votes, "precommit", r, c.unapplied)'
      BY <2>2, <3>1, RoundFacts, BacksStays
    <3> QED
      BY <3>2 DEF KnownUnapplied
  <2> QED
    BY <2>1, <2>2
<1> QED
  BY <1>1, <1>2, <1>3, <1>4, <1>5 DEF Known

LEMMA StaysGood ==
  ASSUME Stays, excluded' = excluded, NEW s \in Active, NEW c, Good(s, c), rec'[s] = c
  PROVE  Good(s, rec[s])'
<1>1. c \in Records /\ Placed(s, c) /\ c.round \in Rounds
  BY GoodRecord
<1>2. Records' = Records
  BY DEF Records, Evidence, Seats, Proposer
<1>3. Known(s, c)'
  BY KnownStays
<1>4. Placed(s, c)'
  BY <1>1 DEF Placed, PlacedVotes, PlacedProposals, PlacedTimers
<1>5. Moves(s, rec[s])'
  <2>1. c.round \in Nat
    BY <1>1, RoundFacts
  <2>2. c.round <= c.round
    BY <2>1
  <2> QED
    BY <1>1, <2>2 DEF Moves, Earned, MovesPrevote, MovesPrecommit, MovesDecision,
                      MovesProposals, Unvoted, Uncommitted
<1> QED
  BY <1>1, <1>2, <1>3, <1>4, <1>5 DEF Good

LEMMA InstallInv ==
  ASSUME Inv, NEW s \in Active, NEW c, Install(s, c), Good(s, c)
  PROVE  Inv'
<1>1. /\ rec' = [rec EXCEPT ![s] = c] /\ excluded' = excluded
      /\ rec = [t \in Active |-> rec[t]]
  BY DEF Install, Inv
<1>2. /\ rec'[s] = c /\ \A t \in Active : t # s => rec'[t] = rec[t]
      /\ rec' = [t \in Active |-> rec'[t]]
  BY <1>1
<1>3. Stays
  <2>1. \A u \in Running : u \in Active /\ (u # s => rec'[u] = rec[u])
    BY <1>2 DEF Running
  <2>2. /\ \A phase \in Phases, r \in Rounds : rec[s].votes[phase][s][r] # None
              => c.votes[phase][s][r] = rec[s].votes[phase][s][r]
        /\ \A r \in Rounds : rec[s].proposals[r] # <<>> => c.proposals[r] # <<>>
    <3>1. MovesProposals(s, c.proposals)
      BY DEF Good, Moves
    <3> QED
      BY <3>1, OwnVotesStay DEF MovesProposals
  <2> QED
    BY <1>2, <2>1, <2>2 DEF Stays
<1>4. ASSUME NEW t \in Active PROVE Good(t, rec[t])'
  <2>1. CASE t = s
    BY <1>1, <1>2, <1>3, <2>1, StaysGood
  <2>2. CASE t # s
    <3>1. Good(t, rec[t]) /\ rec'[t] = rec[t]
      BY <1>2, <2>2 DEF Inv
    <3>2. PICK x : x = rec[t]
      OBVIOUS
    <3>3. Good(t, x) /\ rec'[t] = x
      BY <3>1, <3>2
    <3> QED
      BY <1>1, <1>3, <3>3, StaysGood
  <2> QED
    BY <2>1, <2>2
<1> QED
  BY <1>1, <1>2, <1>4 DEF Inv

LEMMA InitInv == Init => Inv
<1> SUFFICES ASSUME Init PROVE Inv
  OBVIOUS
<1>1. PICK o \in [Active -> Carried], pending \in [Active -> BOOLEAN] :
         rec = [s \in Active |-> InitialRecord(s, o[s], IF pending[s] THEN o[s] ELSE None)]
  BY DEF Init
<1>2. ASSUME NEW s \in Active PROVE Good(s, rec[s])
  <2> DEFINE later == IF pending[s] THEN o[s] ELSE None
             c == InitialRecord(s, o[s], later)
             halted == IF s \in excluded \/ (o[s] # None /\ (o[s] = s \/ excluded \ {o[s]} # {}))
                       THEN "terminal" ELSE None
             none == [phase \in Phases |-> [t \in Voters |-> [r \in Rounds |-> None]]]
             nobody == [t \in Voters |-> NoHint]
             empty == [r \in Rounds |-> <<>>]
  <2>1. rec[s] = c /\ s \in Voters
    BY <1>1, ActiveVoter
  <2>2. o[s] \in Accused /\ later \in Accused /\ halted \in Halts
    BY <1>1, ActiveVoter, ConsensusAssumption DEF Accused, Halts
  <2>3. /\ none \in VoteTables
        /\ \A phase \in Phases, t \in Voters, r \in Rounds : none[phase][t][r] = None
    BY DEF VoteTables
  <2>4. nobody \in HintTables /\ \A t \in Voters : nobody[t] = NoHint
    BY DEF HintTables
  <2>5. empty \in ProposalTables /\ \A r \in Rounds : empty[r] = <<>>
    BY DEF ProposalTables
  <2>6. c = [round |-> 1, step |-> "propose", inputKnown |-> FALSE, timers |-> {},
             proposals |-> empty, votes |-> none, hints |-> nobody,
             equivocations |-> {}, pendingAccusation |-> later, provenOffender |-> o[s],
             locked |-> NoQuorumValue, valid |-> NoQuorumValue,
             decision |-> None, unapplied |-> None, halted |-> halted]
    BY DEF InitialRecord
  <2> HIDE DEF later, halted, none, nobody, empty, c
  <2>7. /\ c \in Records /\ c.round = 1 /\ c.step = "propose" /\ c.timers = {}
        /\ c.proposals = empty /\ c.votes = none /\ c.hints = nobody
        /\ c.valid = NoQuorumValue /\ c.unapplied = None
    BY <2>2, <2>3, <2>4, <2>5, <2>6, RoundFacts DEF Records, Steps, QuorumValues
  <2>8. Known(s, c)
    <3>1. KnownVotes(s, none)
      BY <2>3 DEF KnownVotes
    <3>2. KnownHints(s, none, nobody)
      BY <2>4 DEF KnownHints, KnownHint, NoHint
    <3>3. KnownProposals(s, none, empty)
      BY <2>5 DEF KnownProposals
    <3> QED
      BY <2>7, <3>1, <3>2, <3>3 DEF Known, KnownValid, KnownUnapplied
  <2>9. Placed(s, c)
    <3>1. PlacedVotes(s, "propose", 1, none)
      BY <2>1, <2>3, RoundFacts DEF PlacedVotes, NoneAhead
    <3>2. PlacedProposals(1, empty)
      BY <2>5 DEF PlacedProposals
    <3> QED
      BY <2>7, <3>1, <3>2 DEF Placed, PlacedTimers
  <2>10. Moves(s, c)
    BY <2>1, <2>7, RoundFacts DEF Moves, Earned, MovesPrevote, MovesPrecommit, MovesDecision,
                      MovesProposals, Unvoted, Uncommitted
  <2> QED
    BY <2>1, <2>7, <2>8, <2>9, <2>10 DEF Good
<1>3. rec = [s \in Active |-> rec[s]]
  BY <1>1
<1> QED
  BY <1>2, <1>3 DEF Init, Inv

\* What a step of the system is: one voter installs an outcome, which is good.
LEMMA NextInstalls ==
  ASSUME Inv, Next
  PROVE  \E s \in Active : \E c : Install(s, c) /\ Good(s, c)
<1>1. PICK s \in Active :
        \/ Restart(s) \/ InputAvailable(s) \/ StageAccusation(s) \/ ClearStaleAccusation(s)
        \/ ResumeAfterReplay(s) \/ TerminalHalt(s) \/ ReceiveCommit(s)
        \/ \E refused \in SUBSET Refusable :
              \/ Propose(s, refused) \/ ReceiveProposal(s, refused) \/ ReceiveVote(s, refused)
              \/ \E phase \in Timers : Timeout(s, phase, refused)
  BY DEF Next
<1> SUFFICES \E c : Install(s, c) /\ Good(s, c)
  OBVIOUS
<1>g. Good(s, rec[s]) /\ rec[s] \in Records
  BY OwnGood
<1>2. CASE Restart(s)
  BY <1>2, <1>g, RestoredGood DEF Restart
<1>3. CASE InputAvailable(s)
  BY <1>3, <1>g, InputSame, SameGood DEF InputAvailable
<1>4. CASE StageAccusation(s)
  BY <1>4, <1>g, RetainSame, SameGood DEF StageAccusation
<1>5. CASE ClearStaleAccusation(s)
  BY <1>5, <1>g, ClearSame, SameGood DEF ClearStaleAccusation
<1>6. CASE ResumeAfterReplay(s)
  BY <1>6, <1>g, ResumeGood DEF ResumeAfterReplay
<1>7. CASE TerminalHalt(s)
  BY <1>7, <1>g, HaltGood DEF TerminalHalt
<1>8. CASE ReceiveCommit(s)
  BY <1>8, <1>g, ReceiveCommitGood DEF ReceiveCommit
<1>9. ASSUME NEW refused \in SUBSET Refusable, Propose(s, refused)
      PROVE  \E c : Install(s, c) /\ Good(s, c)
  BY <1>9, ProposeGood DEF Propose
<1>10. ASSUME NEW refused \in SUBSET Refusable, ReceiveProposal(s, refused)
       PROVE  \E c : Install(s, c) /\ Good(s, c)
  BY <1>10, ReceiveProposalGood DEF ReceiveProposal
<1>11. ASSUME NEW refused \in SUBSET Refusable, ReceiveVote(s, refused)
       PROVE  \E c : Install(s, c) /\ Good(s, c)
  BY <1>11, ReceiveVoteGood DEF ReceiveVote
<1>12. ASSUME NEW refused \in SUBSET Refusable, NEW phase \in Timers, Timeout(s, phase, refused)
       PROVE  \E c : Install(s, c) /\ Good(s, c)
  BY <1>12, TimeoutGood DEF Timeout
<1> QED
  BY <1>1, <1>2, <1>3, <1>4, <1>5, <1>6, <1>7, <1>8, <1>9, <1>10, <1>11, <1>12

LEMMA NextInv ==
  ASSUME Inv, [Next]_vars
  PROVE  Inv'
<1>1. CASE Next
  BY <1>1, NextInstalls, InstallInv
<1>2. CASE UNCHANGED vars
  <2>1. rec' = rec /\ excluded' = excluded
    BY <1>2 DEF vars
  <2>2. Stays
    BY <2>1 DEF Stays
  <2>3. ASSUME NEW t \in Active PROVE Good(t, rec[t])'
    <3>1. PICK x : x = rec[t]
      OBVIOUS
    <3>2. Good(t, x) /\ rec'[t] = x
      BY <2>1, <3>1 DEF Inv
    <3> QED
      BY <2>1, <2>2, <3>2, StaysGood
  <2> QED
    BY <2>1, <2>3 DEF Inv
<1> QED
  BY <1>1, <1>2

THEOREM Invariance == Spec => []Inv
<1>1. Inv /\ [Next]_vars => Inv'
  BY NextInv
<1> QED
  BY InitInv, <1>1, PTL DEF Spec
-----------------------------------------------------------------------------
(***************************************************************************)
(* Agreement.                                                              *)
(***************************************************************************)

LEMMA InitMaps == Init => Abstract!Init
<1> SUFFICES ASSUME Init PROVE Abstract!Init
  OBVIOUS
<1>1. PICK o \in [Active -> Carried], pending \in [Active -> BOOLEAN] :
         rec = [s \in Active |-> InitialRecord(s, o[s], IF pending[s] THEN o[s] ELSE None)]
  BY DEF Init
<1>2. ASSUME NEW s, NEW x, NEW y
      PROVE  LET c == InitialRecord(s, x, y)
             IN  /\ c.round = 1 /\ c.locked = NoQuorumValue /\ c.decision = None
                 /\ c.votes = [phase \in Phases |-> [t \in Voters |-> [r \in Rounds |-> None]]]
  BY DEF InitialRecord
<1>3. ASSUME NEW s \in Honest
      PROVE  /\ Record(s).round = 1 /\ Record(s).locked = NoQuorumValue
             /\ Record(s).decision = None
             /\ Record(s).votes = [phase \in Phases |-> [t \in Voters |-> [r \in Rounds |-> None]]]
  <2>1. \E x, y : Record(s) = InitialRecord(s, x, y)
    BY <1>1 DEF Record
  <2> QED
    BY <1>2, <2>1
<1>4. ASSUME NEW s \in Honest
      PROVE  /\ Record(s).votes["prevote"][s] = [r \in Rounds |-> None]
             /\ Record(s).votes["precommit"][s] = [r \in Rounds |-> None]
  <2> DEFINE blank == [r \in Rounds |-> None]
             ballots == Record(s).votes
  <2>1. ballots = [phase \in Phases |-> [t \in Voters |-> blank]]
    BY <1>3
  <2>2. s \in Voters /\ "prevote" \in Phases /\ "precommit" \in Phases
    BY RoundFacts DEF Honest
  <2> HIDE DEF blank, ballots
  <2>3. ballots["prevote"][s] = blank /\ ballots["precommit"][s] = blank
    BY <2>1, <2>2
  <2> QED
    BY <2>3 DEF blank, ballots
<1>5. /\ rounds = [s \in Honest |-> 1] /\ lockRounds = [s \in Honest |-> 0]
      /\ lockValues = [s \in Honest |-> None] /\ decisions = [s \in Honest |-> None]
  BY <1>3 DEF rounds, lockRounds, lockValues, decisions, NoQuorumValue
<1>6. /\ prevotes = [s \in Honest |-> [r \in Rounds |-> None]]
      /\ precommits = [s \in Honest |-> [r \in Rounds |-> None]]
  BY <1>4 DEF prevotes, precommits
<1> QED
  BY <1>5, <1>6 DEF Abstract!Init, Abstract!Honest, Honest

\* What the mapping shows after a step of s.
LEMMA MappedStep ==
  ASSUME Inv, NEW s \in Active, NEW c, Install(s, c)
  PROVE  /\ s \in Honest =>
              /\ rounds' = [rounds EXCEPT ![s] = c.round]
              /\ prevotes' = [prevotes EXCEPT ![s] = c.votes["prevote"][s]]
              /\ precommits' = [precommits EXCEPT ![s] = c.votes["precommit"][s]]
              /\ lockRounds' = [lockRounds EXCEPT ![s] = c.locked.round]
              /\ lockValues' = [lockValues EXCEPT ![s] = c.locked.value]
              /\ decisions' = [decisions EXCEPT ![s] = c.decision]
         /\ s \notin Honest =>
              UNCHANGED <<rounds, prevotes, precommits, lockRounds, lockValues, decisions>>
<1>1. /\ rec' = [rec EXCEPT ![s] = c] /\ excluded' = excluded
      /\ rec = [t \in Active |-> rec[t]]
  BY DEF Install, Inv
<1>2. rec'[s] = c /\ \A t \in Active : t # s => rec'[t] = rec[t]
  BY <1>1
<1>3. \A t \in Honest : Record(t)' = IF t = s THEN c ELSE Record(t)
  BY <1>1, <1>2 DEF Record, InitialRecord
<1>4. s \in Honest =>
        /\ rounds' = [rounds EXCEPT ![s] = c.round]
        /\ prevotes' = [prevotes EXCEPT ![s] = c.votes["prevote"][s]]
        /\ precommits' = [precommits EXCEPT ![s] = c.votes["precommit"][s]]
        /\ lockRounds' = [lockRounds EXCEPT ![s] = c.locked.round]
        /\ lockValues' = [lockValues EXCEPT ![s] = c.locked.value]
        /\ decisions' = [decisions EXCEPT ![s] = c.decision]
  BY <1>3 DEF rounds, prevotes, precommits, lockRounds, lockValues, decisions
<1>5. s \notin Honest =>
         UNCHANGED <<rounds, prevotes, precommits, lockRounds, lockValues, decisions>>
  BY <1>3 DEF rounds, prevotes, precommits, lockRounds, lockValues, decisions
<1> QED
  BY <1>4, <1>5

\* What it shows of a running voter.
LEMMA MappedVoter ==
  ASSUME NEW s \in Running
  PROVE  /\ rounds[s] = rec[s].round
         /\ prevotes[s] = rec[s].votes["prevote"][s]
         /\ precommits[s] = rec[s].votes["precommit"][s]
         /\ lockRounds[s] = rec[s].locked.round /\ lockValues[s] = rec[s].locked.value
         /\ decisions[s] = rec[s].decision
BY RunningVoter DEF rounds, prevotes, precommits, lockRounds, lockValues, decisions, Record

\* A certificate that s can rely on is one of Agreement.
LEMMA BacksCertifies ==
  ASSUME NEW s \in Running, NEW votes, NEW r \in Rounds, NEW v, NEW phase \in Phases,
         NEW table, Backs(s, votes, phase, r, v), table[s] = votes[phase][s],
         \A t \in Running : t # s => table[t] = rec[t].votes[phase][t]
  PROVE  Abstract!Certifies(table, r, v)
<1>1. PICK signers \in Quorums :
        \A t \in signers \ Byzantine : t \in Active /\ Cast(s, votes, phase, t, r) = v
  BY DEF Backs
<1>2. ASSUME NEW t \in signers \ Byzantine PROVE table[t][r] = v
  <2>1. t \in Voters /\ t \in Active
    BY <1>1 DEF Quorums, Certificates
  <2>2. t \in Running
    BY <2>1 DEF Running, Honest
  <2> QED
    BY <1>1, <2>2 DEF Cast
<1>3. signers \in Abstract!Quorums
  BY <1>1 DEF Abstract!Quorums, Quorums, Abstract!Certificates, Certificates,
     Abstract!quorumSize, quorumSize, Abstract!Cardinality, Cardinality
<1>4. \A t \in signers \ Byzantine : table[t][r] = v
  BY <1>2
<1> QED
  BY <1>3, <1>4 DEF Abstract!Certifies

LEMMA StepMaps ==
  ASSUME Inv, NEW s \in Running, NEW c, Good(s, c), Install(s, c)
  PROVE  Abstract!Step(s)
<1> DEFINE r == c.round
<1>0. /\ c \in Records /\ Moves(s, c) /\ r \in Rounds /\ s \in Honest /\ s \in Active
      /\ "prevote" \in Phases /\ "precommit" \in Phases
  BY GoodRecord, RunningVoter, RoundFacts
<1>1. /\ rounds' = [rounds EXCEPT ![s] = r]
      /\ prevotes' = [prevotes EXCEPT ![s] = c.votes["prevote"][s]]
      /\ precommits' = [precommits EXCEPT ![s] = c.votes["precommit"][s]]
      /\ lockRounds' = [lockRounds EXCEPT ![s] = c.locked.round]
      /\ lockValues' = [lockValues EXCEPT ![s] = c.locked.value]
      /\ decisions' = [decisions EXCEPT ![s] = c.decision]
  BY <1>0, MappedStep
<1>2. /\ rounds[s] = rec[s].round
      /\ prevotes[s] = rec[s].votes["prevote"][s]
      /\ precommits[s] = rec[s].votes["precommit"][s]
      /\ lockRounds[s] = rec[s].locked.round /\ lockValues[s] = rec[s].locked.value
      /\ decisions[s] = rec[s].decision
      /\ \A t \in Running : prevotes[t] = rec[t].votes["prevote"][t]
                            /\ precommits[t] = rec[t].votes["precommit"][t]
  BY MappedVoter
<1>3. /\ prevotes = [t \in Honest |-> prevotes[t]] /\ precommits = [t \in Honest |-> precommits[t]]
      /\ lockRounds = [t \in Honest |-> lockRounds[t]] /\ lockValues = [t \in Honest |-> lockValues[t]]
      /\ decisions = [t \in Honest |-> decisions[t]]
  BY DEF prevotes, precommits, lockRounds, lockValues, decisions
<1>4. /\ prevotes'[s] = c.votes["prevote"][s]
      /\ precommits'[s] = c.votes["precommit"][s]
      /\ \A t \in Running : t # s => prevotes'[t] = prevotes[t] /\ precommits'[t] = precommits[t]
  BY <1>0, <1>1, <1>3, RunningVoter
\* Certificates before and after the step.
<1>5. ASSUME NEW q \in Rounds, NEW v, Backs(s, rec[s].votes, "prevote", q, v)
      PROVE  Abstract!Certifies(prevotes, q, v)
  <2>1. \A t \in Running : t # s => prevotes[t] = rec[t].votes["prevote"][t]
    BY <1>2
  <2> QED
    BY <1>0, <1>2, <1>5, <2>1, BacksCertifies
<1>6. ASSUME NEW q \in Rounds, NEW v, Backs(s, c.votes, "prevote", q, v)
      PROVE  Abstract!Certifies(prevotes', q, v)
  <2>1. \A t \in Running : t # s => prevotes'[t] = rec[t].votes["prevote"][t]
    BY <1>2, <1>4
  <2> QED
    BY <1>0, <1>4, <1>6, <2>1, BacksCertifies
<1>7. ASSUME NEW q \in Rounds, NEW v, Backs(s, c.votes, "precommit", q, v)
      PROVE  Abstract!Certifies(precommits', q, v)
  <2>1. \A t \in Running : t # s => precommits'[t] = rec[t].votes["precommit"][t]
    BY <1>2, <1>4
  <2> QED
    BY <1>0, <1>4, <1>7, <2>1, BacksCertifies
<1>8. Abstract!Prevote(s, r)
  <2>1. CASE c.votes["prevote"][s] = rec[s].votes["prevote"][s]
    <3>1. UNCHANGED prevotes
      BY <1>1, <1>2, <1>3, <2>1
    <3> QED
      BY <3>1 DEF Abstract!Prevote
  <2>2. CASE /\ rec[s].votes["prevote"][s][r] = None
             /\ \E ballot \in {Nil} \cup {v \in Values : Allowed(s, r, v)} :
                   c.votes["prevote"][s] = WithBallot(rec[s].votes["prevote"][s], r, ballot)
    <3>1. PICK ballot \in {Nil} \cup {v \in Values : Allowed(s, r, v)} :
             c.votes["prevote"][s] = WithBallot(rec[s].votes["prevote"][s], r, ballot)
      BY <2>2
    <3>2. prevotes' = [prevotes EXCEPT ![s] = [prevotes[s] EXCEPT ![r] = ballot]]
      BY <1>1, <1>2, <3>1 DEF WithBallot
    <3>3. prevotes' = [prevotes EXCEPT ![s][r] = ballot]
      BY <3>2
    <3>4. \A v \in Values : Allowed(s, r, v) => Abstract!LockAllows(s, r, v)
      BY <1>2, <1>5 DEF Allowed, Abstract!LockAllows
    <3>5. ballot \in {Nil} \cup {v \in Values : Abstract!LockAllows(s, r, v)}
      BY <3>1, <3>4
    <3>6. prevotes[s][r] = None
      BY <1>2, <2>2
    <3> HIDE DEF r
    <3> QED
      BY <3>3, <3>5, <3>6 DEF Abstract!Prevote
  <2> QED
    BY <1>0, <2>1, <2>2 DEF Moves, MovesPrevote
<1>9. Abstract!Precommit(s, r)
  <2>0. c.votes["prevote"][s][r] # None => prevotes'[s][r] # None
    BY <1>4
  <2>1. CASE Uncommitted(s, c.votes, c.locked)
    <3>1. UNCHANGED <<precommits, lockRounds, lockValues>>
      BY <1>1, <1>2, <1>3, <2>1 DEF Uncommitted
    <3> QED
      BY <3>1 DEF Abstract!Precommit
  <2>2. CASE /\ rec[s].votes["precommit"][s][r] = None
             /\ c.votes["prevote"][s][r] # None
             /\ c.votes["precommit"][s] = WithBallot(rec[s].votes["precommit"][s], r, Nil)
             /\ c.locked = rec[s].locked
    <3>1. precommits' = [precommits EXCEPT ![s] = [precommits[s] EXCEPT ![r] = Nil]]
      BY <1>1, <1>2, <2>2 DEF WithBallot
    <3>2. precommits' = [precommits EXCEPT ![s][r] = Nil]
      BY <3>1
    <3>3. UNCHANGED <<lockRounds, lockValues>>
      BY <1>1, <1>2, <1>3, <2>2
    <3>4. precommits[s][r] = None /\ prevotes'[s][r] # None
      BY <1>2, <2>0, <2>2
    <3> HIDE DEF r
    <3> QED
      BY <3>2, <3>3, <3>4 DEF Abstract!Precommit
  <2>3. CASE /\ rec[s].votes["precommit"][s][r] = None
             /\ c.votes["prevote"][s][r] # None
             /\ \E v \in Values :
                   /\ Backs(s, c.votes, "prevote", r, v)
                   /\ c.locked = QuorumValue(r, v)
                   /\ \E ballot \in {v, Nil} :
                         c.votes["precommit"][s] =
                            WithBallot(rec[s].votes["precommit"][s], r, ballot)
    <3>1. PICK v \in Values :
             /\ Backs(s, c.votes, "prevote", r, v)
             /\ c.locked = QuorumValue(r, v)
             /\ \E ballot \in {v, Nil} :
                   c.votes["precommit"][s] = WithBallot(rec[s].votes["precommit"][s], r, ballot)
      BY <2>3
    <3>2. PICK ballot \in {v, Nil} :
             c.votes["precommit"][s] = WithBallot(rec[s].votes["precommit"][s], r, ballot)
      BY <3>1
    <3>3. precommits' = [precommits EXCEPT ![s] = [precommits[s] EXCEPT ![r] = ballot]]
      BY <1>1, <1>2, <3>2 DEF WithBallot
    <3>4. precommits' = [precommits EXCEPT ![s][r] = ballot]
      BY <3>3
    <3>5. c.locked.round = r /\ c.locked.value = v
      BY <3>1 DEF QuorumValue
    <3>6. /\ lockRounds' = [lockRounds EXCEPT ![s] = r]
          /\ lockValues' = [lockValues EXCEPT ![s] = v]
      BY <1>1, <3>5
    <3>7. Abstract!Certifies(prevotes', r, v)
      BY <1>0, <1>6, <3>1
    <3>8. precommits[s][r] = None /\ prevotes'[s][r] # None
      BY <1>2, <2>0, <2>3
    <3> HIDE DEF r
    <3> QED
      BY <3>2, <3>4, <3>6, <3>7, <3>8 DEF Abstract!Precommit
  <2> QED
    BY <1>0, <2>1, <2>2, <2>3 DEF Moves, MovesPrecommit
<1>10. Abstract!Decide(s)
  <2>1. CASE c.decision = rec[s].decision
    <3>1. UNCHANGED decisions
      BY <1>1, <1>2, <1>3, <2>1
    <3> QED
      BY <3>1 DEF Abstract!Decide
  <2>2. CASE c.decision # rec[s].decision
    <3>1. rec[s].decision = None
      BY <1>0, <2>2 DEF Moves, MovesDecision
    <3>2. PICK q \in Rounds : Backs(s, c.votes, "precommit", q, c.decision)
      BY <1>0, <2>2 DEF Moves, MovesDecision
    <3>3. c.decision \in Values
      BY <1>0, <2>2, <3>1 DEF Records
    <3>4. Abstract!Certifies(precommits', q, c.decision)
      BY <1>7, <3>2
    <3> QED
      BY <1>1, <1>2, <3>1, <3>3, <3>4 DEF Abstract!Decide
  <2> QED
    BY <2>1, <2>2
<1>11. r >= rounds[s]
  <2>1. rec[s].round \in Nat /\ r \in Nat /\ rec[s].round <= r
    BY <1>0, RoundFacts DEF Moves
  <2> QED
    BY <1>2, <2>1
<1> HIDE DEF r
<1> QED
  BY <1>0, <1>1, <1>8, <1>9, <1>10, <1>11 DEF Abstract!Step

LEMMA NextMaps ==
  ASSUME Inv, [Next]_vars
  PROVE  [Abstract!Next]_Abstract!vars
<1>1. CASE Next
  <2>1. PICK s \in Active : \E c : Install(s, c) /\ Good(s, c)
    BY <1>1, NextInstalls
  <2>2. PICK c : Install(s, c) /\ Good(s, c)
    BY <2>1
  <2>3. CASE s \in Running
    BY <2>2, <2>3, StepMaps, RunningVoter DEF Abstract!Next, Abstract!Honest, Honest
  <2>4. CASE s \notin Running
    <3>1. s \notin Honest
      BY <2>4 DEF Running
    <3> QED
      BY <2>2, <3>1, MappedStep DEF Abstract!vars
  <2> QED
    BY <2>3, <2>4
<1>2. CASE UNCHANGED vars
  <2>1. rec' = rec /\ excluded' = excluded
    BY <1>2 DEF vars
  <2>2. \A s \in Honest : Record(s)' = Record(s)
    BY <2>1 DEF Record, InitialRecord
  <2>3. UNCHANGED <<rounds, prevotes, precommits, lockRounds, lockValues, decisions>>
    BY <2>2 DEF rounds, prevotes, precommits, lockRounds, lockValues, decisions
  <2> QED
    BY <2>3 DEF Abstract!vars
<1> QED
  BY <1>1, <1>2

\* The reducers implement Agreement: every transition of every honest voter,
\* in any order of messages and with any Byzantine signatures, is one of the
\* steps that its voting rules allow.
THEOREM Implementation == Spec => Implements
<1>1. Inv /\ [Next]_vars => [Abstract!Next]_Abstract!vars
  BY NextMaps
<1> QED
  BY Invariance, InitMaps, <1>1, PTL DEF Spec, Implements, Abstract!Spec
-----------------------------------------------------------------------------
(***************************************************************************)
(* Rounds.                                                                 *)
(***************************************************************************)

LEMMA RoundStep ==
  ASSUME Inv, [Next]_vars, Honest \subseteq Active, \A t, u \in Byzantine : t = u,
         NEW s \in Honest, rec'[s].round > rec[s].round
  PROVE  \/ /\ rec'[s].round = rec[s].round + 1
            /\ anyQuorum(rec[s], rec[s].round, "precommit")
         \/ \E t \in Honest : rec[t].round >= rec'[s].round
<1>1. s \in Running /\ Running = Honest
  BY DEF Running
<1>2. rec[s].round \in Nat
  BY <1>1, OwnGood, RoundFacts DEF Good, Moves
<1>3. rec'[s] # rec[s]
  BY <1>2
<1>4. Next
  BY <1>3 DEF vars
<1>5. PICK t \in Active : \E c : Install(t, c) /\ Good(t, c)
  BY <1>4, NextInstalls
<1>6. PICK c : Install(t, c) /\ Good(t, c)
  BY <1>5
<1>7. t = s /\ rec'[s] = c
  BY <1>1, <1>3, <1>6 DEF Install, Inv
<1>8. Earned(s, c.round)
  BY <1>1, <1>6, <1>7 DEF Good, Moves
<1> QED
  BY <1>1, <1>2, <1>7, <1>8 DEF Earned

\* When every honest voter runs and at most one voter is Byzantine, an honest
\* voter enters a round only after a quorum of precommits in the one before
\* it, or to join an honest voter that is there already.
THEOREM RoundsAreEarned ==
  ASSUME Honest \subseteq Active, \A t, u \in Byzantine : t = u
  PROVE  Spec => RoundIsEarned
<1>1. Inv /\ [Next]_vars =>
        [\A s \in Honest : rec'[s].round > rec[s].round =>
          \/ /\ rec'[s].round = rec[s].round + 1
             /\ anyQuorum(rec[s], rec[s].round, "precommit")
          \/ \E t \in Honest : rec[t].round >= rec'[s].round]_rec
  BY RoundStep
<1> QED
  BY Invariance, <1>1, PTL DEF Spec, RoundIsEarned

-----------------------------------------------------------------------------
(***************************************************************************)
(* Agreement of the replicas.                                              *)
(***************************************************************************)

Agreed == INSTANCE AgreementProofs WITH
    round <- rounds, prevote <- prevotes, precommit <- precommits,
    lockRound <- lockRounds, lockValue <- lockValues, decision <- decisions

\* Agreed is Abstract under another name.
LEMMA SameQuorums == Agreed!Quorums = Abstract!Quorums /\ Agreed!Honest = Abstract!Honest
BY DEF Agreed!Quorums, Abstract!Quorums, Agreed!Certificates, Abstract!Certificates,
   Agreed!quorumSize, Abstract!quorumSize, Agreed!Cardinality, Abstract!Cardinality,
   Agreed!Honest, Abstract!Honest

LEMMA SameInit == Abstract!Init => Agreed!Init
BY SameQuorums DEF Abstract!Init, Agreed!Init

LEMMA SameNext == [Abstract!Next]_Abstract!vars => [Agreed!Next]_Agreed!vars
<1>1. \A table, r, v : Abstract!Certifies(table, r, v) => Agreed!Certifies(table, r, v)
  BY SameQuorums DEF Abstract!Certifies, Agreed!Certifies
<1>2. ASSUME NEW s, NEW r, NEW v PROVE Abstract!LockAllows(s, r, v) => Agreed!LockAllows(s, r, v)
  BY <1>1 DEF Abstract!LockAllows, Agreed!LockAllows
<1>3. ASSUME NEW s, NEW r PROVE Abstract!Prevote(s, r) => Agreed!Prevote(s, r)
  BY <1>2 DEF Abstract!Prevote, Agreed!Prevote
<1>4. ASSUME NEW s, NEW r PROVE Abstract!Precommit(s, r) => Agreed!Precommit(s, r)
  BY <1>1 DEF Abstract!Precommit, Agreed!Precommit
<1>5. ASSUME NEW s PROVE Abstract!Decide(s) => Agreed!Decide(s)
  BY <1>1 DEF Abstract!Decide, Agreed!Decide
<1>6. ASSUME NEW s PROVE Abstract!Step(s) => Agreed!Step(s)
  BY <1>3, <1>4, <1>5 DEF Abstract!Step, Agreed!Step
<1> QED
  BY <1>6, SameQuorums DEF Abstract!Next, Agreed!Next, Abstract!vars, Agreed!vars

\* Two honest voters that decide, decide the same entry; a decision that was
\* made is not unmade.
THEOREM ReplicasAgree ==
  ASSUME Cardinality(Byzantine) <= tolerated(Cardinality(Voters))
  PROVE  Spec => []Agreed!AgreementInv
<1>1. Agreed!VotersAssumption
  <2>1. Voters # {}
    <3>1. Membership[1] \in Voters
      BY ConsensusAssumption DEF Voters
    <3> QED
      BY <3>1
  <2>2. Agreed!IsFiniteSet(Voters)
    BY VotersFinite DEF Agreed!IsFiniteSet, IsFiniteSet
  <2>3. Cardinality(Byzantine) = Agreed!Cardinality(Byzantine)
        /\ Cardinality(Voters) = Agreed!Cardinality(Voters)
    BY DEF Cardinality, Agreed!Cardinality
  <2>4. \A n : Agreed!tolerated(n) = tolerated(n)
    BY DEF Agreed!tolerated, tolerated
  <2> QED
    BY <2>1, <2>2, <2>3, <2>4, ConsensusAssumption DEF Agreed!VotersAssumption
<1>2. Agreed!ValuesAssumption
  BY RoundFacts, ConsensusAssumption DEF Agreed!ValuesAssumption
<1>3. Agreed!Spec => []Agreed!AgreementInv
  BY <1>1, <1>2, Agreed!Safety
<1>4. Spec => Agreed!Spec
  BY Implementation, SameInit, SameNext, PTL DEF Implements, Abstract!Spec, Agreed!Spec
<1> QED
  BY <1>3, <1>4
\* Two honest voters that decide, decide the same entry.
THEOREM DecisionsAgree ==
  ASSUME Cardinality(Byzantine) <= tolerated(Cardinality(Voters))
  PROVE  Spec => [](\A s, t \in Running :
                      rec[s].decision # None /\ rec[t].decision # None
                          => rec[s].decision = rec[t].decision)
<1>1. ASSUME Inv, Agreed!AgreementInv, NEW s \in Running, NEW t \in Running,
             rec[s].decision # None, rec[t].decision # None
      PROVE  rec[s].decision = rec[t].decision
  <2>1. ASSUME NEW u \in Running, rec[u].decision # None
        PROVE  /\ rec[u].decision \in Values
               /\ \E r \in Rounds : Agreed!Certifies(precommits, r, rec[u].decision)
    <3>1. rec[u].decision \in Values
      BY <1>1, <2>1, OwnGood, RunningVoter DEF Records
    <3>2. decisions[u] = rec[u].decision /\ u \in Agreed!Honest
      BY MappedVoter, RunningVoter DEF Agreed!Honest
    <3> QED
      BY <1>1, <2>1, <3>1, <3>2 DEF Agreed!AgreementInv
  <2> QED
    BY <1>1, <2>1 DEF Agreed!AgreementInv
<1>2. Inv /\ Agreed!AgreementInv =>
        \A s, t \in Running : rec[s].decision # None /\ rec[t].decision # None
                                 => rec[s].decision = rec[t].decision
  BY <1>1
<1> QED
  BY Invariance, ReplicasAgree, <1>2, PTL

-----------------------------------------------------------------------------
(***************************************************************************)
(* A terminal halt is final, for every voter that runs the reducers.       *)
(***************************************************************************)

Fields == {"round", "step", "inputKnown", "timers", "proposals", "votes", "hints",
           "equivocations", "pendingAccusation", "provenOffender", "locked", "valid",
           "decision", "unapplied", "halted"}

\* A record has all its fields, whatever they hold.
Shaped(c) == c = [field \in Fields |-> c[field]]

\* The voter stopped, and stands by what it decided and signed.
Stopped(c, d) ==
    /\ d.halted = "terminal" /\ d.decision = c.decision /\ d.votes = c.votes

LEMMA ExceptShaped ==
  ASSUME NEW c, Shaped(c), NEW field, NEW v
  PROVE  Shaped([c EXCEPT ![field] = v])
BY DEF Shaped

LEMMA HaltShaped ==
  ASSUME NEW c, Shaped(c), NEW v, NEW s
  PROVE  /\ Shaped(halt(c)) /\ Shaped(terminalFault(c)) /\ Shaped(haltForCertifiedValue(c, v))
         /\ Shaped(haltIfFaultThresholdExceeded(s, c))
BY DEF Shaped, halt, terminalFault, haltForCertifiedValue, haltIfFaultThresholdExceeded

LEMMA RecordShaped ==
  ASSUME NEW c, Shaped(c), NEW t, NEW r, NEW phase, NEW ballot, NEW p, NEW hint
  PROVE  /\ Shaped(recordVote(c, t, r, phase, ballot))
         /\ Shaped(recordProposal(c, p)) /\ Shaped(addHint(c, t, hint))
<1>1. Shaped(recordVote(c, t, r, phase, ballot))
  <2>1. CASE c.votes[phase][t][r] = None
    BY <2>1, ExceptShaped DEF recordVote
  <2>2. CASE c.votes[phase][t][r] # None
    BY <2>2, ExceptShaped DEF recordVote
  <2> QED
    BY <2>1, <2>2
<1>2. Shaped(recordProposal(c, p))
  BY DEF Shaped, recordProposal
<1>3. Shaped(addHint(c, t, hint))
  BY DEF Shaped, addHint
<1> QED
  BY <1>1, <1>2, <1>3

LEMMA SignShaped ==
  ASSUME NEW s, NEW c, Shaped(c), NEW phase, NEW ballot, NEW refused, NEW p
  PROVE  /\ Shaped(signLocalVote(s, c, phase, ballot, refused))
         /\ Shaped(prevoteProposal(s, c, p, refused))
<1>1. \A x : Shaped(signLocalVote(s, c, phase, x, refused))
  BY DEF Shaped, signLocalVote
<1>2. \A x : Shaped(signLocalVote(s, c, "prevote", x, refused))
  BY DEF Shaped, signLocalVote
<1> QED
  BY <1>1, <1>2 DEF prevoteProposal

LEMMA MaybeCommitShaped ==
  ASSUME NEW s, NEW c, Shaped(c)
  PROVE  Shaped(maybeCommit(s, c))
<1> DEFINE A(x, r) == commitAt(s, x, r)
<1>1. ASSUME NEW x, Shaped(x), NEW r PROVE Shaped(A(x, r))
  BY <1>1, HaltShaped, ExceptShaped DEF commitAt
<1>2. PICK upTo : /\ maybeCommit(s, c) = upTo[MaxRound]
                  /\ \A r \in 0..MaxRound :
                        upTo[r] = IF r = 0 THEN c ELSE A(upTo[r - 1], r)
  BY CommitLoop
<1> HIDE DEF A
<1> DEFINE T == {k \in Nat : k <= MaxRound /\ ~Shaped(upTo[k])}
<1>3. MaxRound \in Nat /\ T \subseteq Nat
  BY RoundFacts
<1>4. T = {}
  <2>1. SUFFICES ASSUME T # {} PROVE FALSE
    OBVIOUS
  <2> HIDE DEF T
  <2>2. PICK k \in T : \A j \in T : k <= j
    BY ONLY <1>3, <2>1, LeastExists
  <2>3. k \in Nat /\ k <= MaxRound /\ ~Shaped(upTo[k])
    BY <2>2 DEF T
  <2>4. k # 0
    BY <1>2, <1>3, <2>3
  <2>5. k - 1 \in Nat /\ k - 1 \notin T /\ k - 1 <= MaxRound
    BY <1>3, <2>2, <2>3, <2>4
  <2>6. Shaped(upTo[k - 1])
    BY <2>5 DEF T
  <2>7. upTo[k] = A(upTo[k - 1], k)
    BY <1>2, <1>3, <2>3, <2>4
  <2> QED
    BY <1>1, <2>3, <2>6, <2>7
<1> QED
  BY <1>2, <1>3, <1>4

LEMMA DriveShaped ==
  ASSUME NEW s, NEW c, Shaped(c), NEW refused
  PROVE  Shaped(drive(s, c, refused))
<1>1. ASSUME NEW x, Shaped(x) PROVE Shaped(driveProposal(s, x, refused))
  BY <1>1, SignShaped DEF driveProposal
<1>2. ASSUME NEW x, Shaped(x) PROVE Shaped(drivePrevotes(s, x, refused))
  <2>1. \A v, w : Shaped([x EXCEPT !.valid = v]) /\ Shaped([x EXCEPT !.locked = w])
                  /\ Shaped([[x EXCEPT !.valid = v] EXCEPT !.locked = w])
    BY <1>2, ExceptShaped
  <2>2. \A y, v : Shaped(y) => Shaped(signLocalVote(s, y, "precommit", v, refused))
    BY SignShaped
  <2> QED
    BY <1>2, <2>1, <2>2 DEF drivePrevotes
<1>3. ASSUME NEW x, Shaped(x) PROVE Shaped(driveNil(s, x))
  BY <1>3, SignShaped DEF driveNil
<1>4. ASSUME NEW x, Shaped(x) PROVE Shaped(driveTimers(x))
  BY <1>4, ExceptShaped DEF driveTimers
<1> QED
  BY <1>1, <1>2, <1>3, <1>4, MaybeCommitShaped DEF drive

LEMMA EnterShaped ==
  ASSUME NEW s, NEW c, Shaped(c), NEW r
  PROVE  Shaped(enterRound(s, c, r)) /\ Shaped(maybeJump(s, c))
<1>1. ASSUME NEW x PROVE Shaped(enterRound(s, c, x))
  <2>1. ASSUME NEW timers, NEW hints, NEW votes, NEW proposals
        PROVE  Shaped([c EXCEPT !.round = x, !.step = "propose", !.timers = timers,
                                !.hints = hints, !.votes = votes, !.proposals[x] = proposals])
    BY DEF Shaped
  <2> QED
    BY <2>1 DEF enterRound
<1> QED
  BY <1>1 DEF maybeJump

LEMMA RetainShaped ==
  ASSUME NEW s, NEW c, Shaped(c), NEW o, NEW foreign
  PROVE  Shaped(retainAccusation(s, c, o, foreign))
<1>1. \A v, w : Shaped([c EXCEPT !.pendingAccusation = v, !.provenOffender = w])
  BY DEF Shaped
<1> QED
  BY <1>1, HaltShaped DEF retainAccusation

LEMMA RoundShaped ==
  ASSUME NEW s, NEW c, Shaped(c), NEW p, NEW refused
  PROVE  Shaped(receiveRound(s, c, p, refused))
BY RecordShaped, EnterShaped, HaltShaped, SignShaped, DriveShaped DEF receiveRound
\* What every reducer returns: a record, and the same votes and decision once
\* the voter has stopped.
Keeps(c, d) == Shaped(d) /\ (c.halted = "terminal" => Stopped(c, d))

LEMMA NotStopped == None # "terminal" /\ "certified-validation" # "terminal"
BY ConsensusAssumption

LEMMA StoppedHalt ==
  ASSUME NEW c, Shaped(c)
  PROVE  Keeps(c, c) /\ Keeps(c, halt(c)) /\ Keeps(c, terminalFault(c))
BY HaltShaped, NotStopped DEF Keeps, Stopped, Shaped, Fields, halt, terminalFault

LEMMA InputKeeps ==
  ASSUME NEW c, Shaped(c)
  PROVE  Keeps(c, inputAvailable(c)) /\ Keeps(c, clearStaleAccusation(c))
<1>1. \A v, w : Shaped([c EXCEPT !.inputKnown = v, !.timers = w])
  BY DEF Shaped
<1>2. \A v : Keeps(c, [c EXCEPT !.pendingAccusation = v])
  BY DEF Keeps, Stopped, Shaped, Fields
<1>3. c.halted = "terminal" => inputAvailable(c) = c
  BY NotStopped DEF inputAvailable
<1>4. Shaped(inputAvailable(c))
  BY <1>1 DEF inputAvailable
<1> QED
  BY <1>2, <1>3, <1>4, StoppedHalt DEF clearStaleAccusation, Keeps

LEMMA RetainKeeps ==
  ASSUME NEW s, NEW c, Shaped(c), NEW o, NEW foreign
  PROVE  Keeps(c, retainAccusation(s, c, o, foreign))
<1>1. c.halted = "terminal" => retainAccusation(s, c, o, foreign) \in {c, terminalFault(c)}
  BY NotStopped DEF retainAccusation
<1> QED
  BY <1>1, RetainShaped, StoppedHalt DEF Keeps

LEMMA ProposeKeeps ==
  ASSUME NEW s, NEW c, Shaped(c), NEW candidate, NEW refused, NEW foreign
  PROVE  Keeps(c, propose(s, c, candidate, refused, foreign))
<1>1. c.halted = "terminal" => propose(s, c, candidate, refused, foreign) = c
  BY NotStopped DEF propose
<1>2. Shaped([c EXCEPT !.inputKnown = TRUE])
  BY DEF Shaped
<1>3. Shaped(propose(s, c, candidate, refused, foreign))
  BY <1>2, RetainShaped, RecordShaped, SignShaped, DriveShaped DEF propose
<1> QED
  BY <1>1, <1>3, StoppedHalt DEF Keeps

LEMMA ReceiveProposalKeeps ==
  ASSUME NEW s, NEW c, Shaped(c), NEW p, NEW signers, NEW refused, NEW foreign
  PROVE  Keeps(c, receiveProposal(s, c, p, signers, refused, foreign))
<1> DEFINE o == Offender[p.value]
           c1 == IF o = None THEN c ELSE retainAccusation(s, c, o, foreign)
           known == [c1 EXCEPT !.inputKnown = TRUE]
           d == receiveProposal(s, c, p, signers, refused, foreign)
<1>1. Keeps(c, c1)
  BY RetainKeeps, StoppedHalt
<1>2. \/ d \in {c, terminalFault(c), c1, halt(c1)}
      \/ c1.halted = None /\ d = receiveRound(s, known, p, refused)
  BY DEF receiveProposal
<1> HIDE DEF c1, d
<1>3. Shaped(known) /\ Shaped(c1) /\ (c.halted = "terminal" => c1.halted = "terminal")
  BY <1>1, ExceptShaped DEF Keeps, Stopped
<1> HIDE DEF known
<1>4. d \in {c, terminalFault(c), c1} => Keeps(c, d)
  BY <1>1, StoppedHalt
<1>5. Keeps(c, halt(c1))
  BY <1>1, <1>3, StoppedHalt DEF Keeps, Stopped
<1>6. c1.halted = None => Keeps(c, receiveRound(s, known, p, refused))
  BY <1>3, RoundShaped, NotStopped DEF Keeps
<1> QED
  BY <1>2, <1>4, <1>5, <1>6 DEF d

LEMMA ReceiveVoteKeeps ==
  ASSUME NEW s, NEW c, Shaped(c), NEW t, NEW r, NEW phase, NEW ballot, NEW refused
  PROVE  Keeps(c, receiveVote(s, c, t, r, phase, ballot, refused))
<1>1. c.halted = "terminal" => receiveVote(s, c, t, r, phase, ballot, refused) \in {c, halt(c)}
  BY NotStopped DEF receiveVote
<1>2. Shaped(receiveVote(s, c, t, r, phase, ballot, refused))
  BY RecordShaped, EnterShaped, HaltShaped, DriveShaped DEF receiveVote
<1> QED
  BY <1>1, <1>2, StoppedHalt DEF Keeps

LEMMA ReceiveCommitKeeps ==
  ASSUME NEW s, NEW c, Shaped(c), NEW r, NEW v, NEW signers
  PROVE  Keeps(c, receiveCommit(s, c, r, v, signers))
<1>1. c.halted = "terminal" =>
         receiveCommit(s, c, r, v, signers) \in {c, halt(c), terminalFault(c)}
  BY NotStopped DEF receiveCommit, haltForCertifiedValue
<1>2. Shaped(receiveCommit(s, c, r, v, signers))
  BY HaltShaped, ExceptShaped DEF receiveCommit
<1> QED
  BY <1>1, <1>2, StoppedHalt DEF Keeps

LEMMA TimeoutKeeps ==
  ASSUME NEW s, NEW c, Shaped(c), NEW phase \in Timers, NEW refused
  PROVE  Keeps(c, timeout(s, c, phase, refused))
<1>1. c.halted = "terminal" => timeout(s, c, phase, refused) = c
  BY NotStopped DEF timeout
<1>2. Shaped(timeout(s, c, phase, refused))
  <2> DEFINE prevoted == IF c.step = "propose" THEN signLocalVote(s, c, "prevote", Nil, {})
                         ELSE c
             d == timeout(s, c, phase, refused)
  <2>1. Shaped(prevoted)
    BY SignShaped
  <2>2. phase = "propose" => d \in {c, drive(s, prevoted, refused)}
    BY DEF timeout
  <2>3. phase = "prevote" =>
           d \in {c, drive(s, signLocalVote(s, prevoted, "precommit", Nil, {}), refused)}
    BY DEF timeout
  <2>4. phase = "precommit" => d \in {c, drive(s, enterRound(s, c, c.round + 1), refused)}
    BY DEF timeout
  <2> HIDE DEF prevoted, d
  <2>5. /\ Shaped(drive(s, prevoted, refused))
        /\ Shaped(drive(s, signLocalVote(s, prevoted, "precommit", Nil, {}), refused))
        /\ Shaped(drive(s, enterRound(s, c, c.round + 1), refused))
    BY <2>1, SignShaped, EnterShaped, DriveShaped
  <2>6. phase \in {"propose", "prevote", "precommit"}
    BY DEF Timers, Phases
  <2>7. Shaped(d)
    BY <2>2, <2>3, <2>4, <2>5, <2>6
  <2> QED
    BY <2>7 DEF d
<1> QED
  BY <1>1, <1>2, StoppedHalt DEF Keeps

LEMMA RestoredKeeps ==
  ASSUME NEW s, NEW c, Shaped(c)
  PROVE  Keeps(c, restored(s, c)) /\ Keeps(c, resumeAfterReplay(s, c))
<1>1. Keeps(c, restored(s, c))
  BY StoppedHalt DEF restored
<1>2. c.halted = "terminal" => restored(s, c).halted # "certified-validation"
  BY <1>1 DEF Keeps, Stopped
<1>3. c.halted = "terminal" => resumeAfterReplay(s, c) = c
  BY <1>2 DEF resumeAfterReplay
<1>4. \A v : Shaped([c EXCEPT !.decision = v, !.halted = None, !.unapplied = None])
  BY DEF Shaped
<1>5. Shaped(resumeAfterReplay(s, c))
  BY <1>4, HaltShaped DEF resumeAfterReplay
<1> QED
  BY <1>1, <1>3, <1>5, StoppedHalt DEF Keeps

\* All records are complete.
Complete == rec = [s \in Active |-> rec[s]] /\ \A s \in Active : Shaped(rec[s])

LEMMA InitComplete == Init => Complete
<1> SUFFICES ASSUME Init PROVE Complete
  OBVIOUS
<1>1. PICK o \in [Active -> Carried], pending \in [Active -> BOOLEAN] :
         rec = [s \in Active |-> InitialRecord(s, o[s], IF pending[s] THEN o[s] ELSE None)]
  BY DEF Init
<1>2. ASSUME NEW s, NEW x, NEW y
      PROVE  Shaped(InitialRecord(s, x, y))
  <2> DEFINE c == InitialRecord(s, x, y)
  <2>1. DOMAIN c = Fields
    BY DEF InitialRecord, Fields
  <2>2. c = [field \in DOMAIN c |-> c[field]]
    BY DEF InitialRecord
  <2> HIDE DEF c
  <2> QED
    BY ONLY <2>1, <2>2 DEF Shaped, c
<1> QED
  BY <1>1, <1>2 DEF Complete

LEMMA NextKeeps ==
  ASSUME Complete, Next
  PROVE  \E s \in Active : \E c : Install(s, c) /\ Keeps(rec[s], c)
<1>1. PICK s \in Active :
        \/ Restart(s) \/ InputAvailable(s) \/ StageAccusation(s) \/ ClearStaleAccusation(s)
        \/ ResumeAfterReplay(s) \/ TerminalHalt(s) \/ ReceiveCommit(s)
        \/ \E refused \in SUBSET Refusable :
              \/ Propose(s, refused) \/ ReceiveProposal(s, refused) \/ ReceiveVote(s, refused)
              \/ \E phase \in Timers : Timeout(s, phase, refused)
  BY DEF Next
<1>g. Shaped(rec[s])
  BY DEF Complete
<1> SUFFICES \E c : Install(s, c) /\ Keeps(rec[s], c)
  OBVIOUS
<1>2. CASE Restart(s) \/ ResumeAfterReplay(s)
  BY <1>2, <1>g, RestoredKeeps DEF Restart, ResumeAfterReplay
<1>3. CASE InputAvailable(s) \/ ClearStaleAccusation(s)
  BY <1>3, <1>g, InputKeeps DEF InputAvailable, ClearStaleAccusation
<1>4. CASE StageAccusation(s)
  BY <1>4, <1>g, RetainKeeps DEF StageAccusation
<1>5. CASE TerminalHalt(s)
  BY <1>5, <1>g, StoppedHalt DEF TerminalHalt
<1>6. CASE ReceiveCommit(s)
  BY <1>6, <1>g, ReceiveCommitKeeps DEF ReceiveCommit
<1>7. ASSUME NEW refused, Propose(s, refused)
      PROVE  \E c : Install(s, c) /\ Keeps(rec[s], c)
  BY <1>7, <1>g, ProposeKeeps DEF Propose
<1>8. ASSUME NEW refused, ReceiveProposal(s, refused)
      PROVE  \E c : Install(s, c) /\ Keeps(rec[s], c)
  BY <1>8, <1>g, ReceiveProposalKeeps DEF ReceiveProposal
<1>9. ASSUME NEW refused, ReceiveVote(s, refused)
      PROVE  \E c : Install(s, c) /\ Keeps(rec[s], c)
  BY <1>9, <1>g, ReceiveVoteKeeps DEF ReceiveVote
<1>10. ASSUME NEW refused, NEW phase \in Timers, Timeout(s, phase, refused)
       PROVE  \E c : Install(s, c) /\ Keeps(rec[s], c)
  BY <1>10, <1>g, TimeoutKeeps DEF Timeout
<1> QED
  BY <1>1, <1>2, <1>3, <1>4, <1>5, <1>6, <1>7, <1>8, <1>9, <1>10

LEMMA StepKeeps ==
  ASSUME Complete, [Next]_vars
  PROVE  /\ Complete'
         /\ \A s \in Active : rec[s].halted = "terminal" => rec'[s] = rec[s] \/ Stopped(rec[s], rec'[s])
<1>1. CASE Next
  <2>1. PICK s \in Active : \E c : Install(s, c) /\ Keeps(rec[s], c)
    BY <1>1, NextKeeps
  <2>2. PICK c : Install(s, c) /\ Keeps(rec[s], c)
    BY <2>1
  <2>3. /\ rec' = [rec EXCEPT ![s] = c] /\ rec = [t \in Active |-> rec[t]]
        /\ \A t \in Active : Shaped(rec[t])
    BY <2>2 DEF Install, Complete
  <2>4. /\ rec' = [t \in Active |-> rec'[t]] /\ rec'[s] = c
        /\ \A t \in Active : t # s => rec'[t] = rec[t]
    BY <2>3
  <2>5. \A t \in Active : Shaped(rec'[t])
    BY <2>2, <2>3, <2>4 DEF Keeps
  <2> QED
    BY <2>2, <2>4, <2>5 DEF Keeps, Complete, Shaped
<1>2. CASE UNCHANGED vars
  BY <1>2 DEF vars, Complete, Shaped
<1> QED
  BY <1>1, <1>2

\* Whatever a voter that stopped for good receives, proposes or replays, and
\* however often it restarts, it stays stopped, keeps its decision and signs
\* nothing more.  This holds for a voter whose key another writer holds, too.
THEOREM StopsForGood == Spec => HaltIsFinal
<1>1. Complete /\ [Next]_vars => Complete'
  BY StepKeeps
<1>2. Spec => []Complete
  BY InitComplete, <1>1, PTL DEF Spec
<1>3. Complete /\ [Next]_vars =>
        [\A s \in Active : rec[s].halted = "terminal" =>
          /\ rec'[s].halted = "terminal"
          /\ rec'[s].decision = rec[s].decision
          /\ \A phase \in Phases : rec'[s].votes[phase][s] = rec[s].votes[phase][s]]_rec
  BY StepKeeps DEF Stopped
<1> QED
  BY <1>2, <1>3, PTL DEF Spec, HaltIsFinal

-----------------------------------------------------------------------------
(***************************************************************************)
(* What restoring demands.                                                 *)
(***************************************************************************)

\* No local policy refuses a value between the two votes of a voter; every
\* engine validates what is certified.
Admitting == Refusable = {}
Validating == \A s \in Active : Rejects[s] = {}

\* The lock, the valid value and the own precommits fit each other.
Locks(s, c) ==
    ProofRestores(c, c.valid) /\ ProofRestores(c, c.locked) /\ (Admitting => LockRestores(s, c))

VotesStand(s, c) ==
    c.step = "precommit" =>
        c.votes["prevote"][s][c.round] # None /\ c.votes["precommit"][s][c.round] # None

\* Each hint is about a later round; the own messages need none, and a proposal
\* is a hint of its proposer.
HintsStand(s, r, hints) ==
    /\ hints[s] = NoHint
    /\ \A t \in Voters : hints[t] # NoHint =>
          /\ hints[t].round > r
          /\ hints[t].kind = "proposal" => t = Proposer(hints[t].round)

ListsStand(s, proposals) ==
    \A r \in Rounds : Len(proposals[r]) <= (IF Proposer(r) = s THEN 1 ELSE 2)

InputStands(known, proposals, hints) ==
    ~known => /\ \A r \in Rounds : proposals[r] = <<>>
              /\ \A t \in Voters : hints[t].kind # "proposal"

HaltStands(c) ==
    /\ Validating => c.unapplied = None /\ c.halted # "certified-validation"
    /\ c.pendingAccusation \in {None, c.provenOffender}

Intact(s, c) ==
    /\ Locks(s, c)
    /\ VotesStand(s, c)
    /\ TimersRestore(c)
    /\ HintsStand(s, c.round, c.hints)
    /\ ListsStand(s, c.proposals)
    /\ InputStands(c.inputKnown, c.proposals, c.hints)
    /\ HaltStands(c)

Sound(s, c) == Good(s, c) /\ Intact(s, c)

\* It is what restoreConsensusState demands.
LEMMA SoundRestores ==
  ASSUME Admitting, Validating, NEW s \in Active, NEW c, Sound(s, c)
  PROVE  Restorable(s, c)
<1>0. /\ Good(s, c) /\ Intact(s, c) /\ c \in Records /\ Placed(s, c)
      /\ NoneAhead(c.round, c.votes) /\ PlacedProposals(c.round, c.proposals)
  BY GoodRecord DEF Sound, Placed, PlacedVotes
<1>1. RoundsRestore(s, c)
  <2>1. c.hints[s].kind # "vote"
    BY <1>0 DEF Intact, HintsStand, NoHint
  <2> QED
    BY <1>0, <2>1 DEF RoundsRestore, Intact, HintsStand, ListsStand, InputStands, NoneAhead,
                      PlacedProposals
<1>2. StepRestores(s, c)
  <2>1. c.step \in Steps
    BY <1>0 DEF Records
  <2> QED
    BY <1>0, <2>1 DEF StepRestores, Placed, PlacedVotes, Intact, VotesStand, Steps
<1>3. HaltRestores(c)
  BY <1>0 DEF HaltRestores, Intact, HaltStands
<1> QED
  BY <1>0, <1>1, <1>2, <1>3 DEF Restorable, Intact, Locks

-----------------------------------------------------------------------------
(***************************************************************************)
(* Certificates in a record.                                               *)
(***************************************************************************)

LEMMA QuorumGrows ==
  ASSUME NEW c, NEW d, Grows(c.votes, d.votes), NEW phase \in Phases, NEW r \in Rounds
  PROVE  /\ \A v : v # None /\ quorumFor(c, r, phase, v) => quorumFor(d, r, phase, v)
         /\ anyQuorum(c, r, phase) => anyQuorum(d, r, phase)
<1>1. ASSUME NEW A \in SUBSET Voters, NEW B \in SUBSET Voters, A \subseteq B,
             Cardinality(A) >= Quorum
      PROVE  Cardinality(B) >= Quorum
  <2>1. Cardinality(A) \in Nat /\ Cardinality(B) \in Nat /\ Cardinality(A) <= Cardinality(B)
    BY <1>1, VotersFinite, FS_Subset, FS_CardinalityType
  <2> QED
    BY <1>1, <2>1, QuorumInt
<1>2. ASSUME NEW v, v # None, quorumFor(c, r, phase, v) PROVE quorumFor(d, r, phase, v)
  <2>1. SignersOf(c, phase, r, v) \subseteq SignersOf(d, phase, r, v)
    BY <1>2 DEF SignersOf, Grows
  <2>2. SignersOf(c, phase, r, v) \in SUBSET Voters /\ SignersOf(d, phase, r, v) \in SUBSET Voters
    BY DEF SignersOf
  <2> QED
    BY <1>1, <1>2, <2>1, <2>2 DEF quorumFor
<1>3. ASSUME anyQuorum(c, r, phase) PROVE anyQuorum(d, r, phase)
  <2> DEFINE A == {t \in Voters : c.votes[phase][t][r] # None}
             B == {t \in Voters : d.votes[phase][t][r] # None}
  <2>1. A \subseteq B /\ A \in SUBSET Voters /\ B \in SUBSET Voters
    BY DEF Grows
  <2> QED
    BY <1>1, <1>3, <2>1 DEF anyQuorum
<1> QED
  BY <1>2, <1>3

\* A record has a certificate for one value of a round and phase.
LEMMA QuorumOnce ==
  ASSUME NEW c, NEW phase, NEW r, NEW v, NEW w,
         quorumFor(c, r, phase, v), quorumFor(c, r, phase, w)
  PROVE  v = w
<1> SUFFICES ASSUME v # w PROVE FALSE
  OBVIOUS
<1> DEFINE A == SignersOf(c, phase, r, v)
           B == SignersOf(c, phase, r, w)
           n == Cardinality(Voters)
<1>1. A \subseteq Voters /\ B \subseteq Voters /\ A \cap B = {}
  BY DEF SignersOf
<1>2. /\ IsFiniteSet(A) /\ IsFiniteSet(B) /\ IsFiniteSet(A \cup B)
      /\ Cardinality(A) \in Nat /\ Cardinality(B) \in Nat /\ n \in Nat
      /\ Cardinality(A \cup B) <= n
  BY <1>1, VotersFinite, FS_Subset, FS_CardinalityType
<1>3. Cardinality(A \cup B) = Cardinality(A) + Cardinality(B)
  <2>1. Cardinality(A \cup B) = Cardinality(A) + Cardinality(B) - Cardinality(A \cap B)
    BY <1>2, FS_Union
  <2>2. Cardinality(A \cap B) = 0
    BY <1>1, FS_EmptySet
  <2> QED
    BY <1>2, <2>1, <2>2
<1>4. Cardinality(A) >= quorumSize(n) /\ Cardinality(B) >= quorumSize(n)
  BY DEF quorumFor, Quorum
<1> HIDE DEF A, B, n
<1>5. quorumSize(n) \in Int /\ quorumSize(n) + quorumSize(n) > n
  BY <1>2 DEF quorumSize
<1> QED
  BY <1>2, <1>3, <1>4, <1>5

-----------------------------------------------------------------------------
(***************************************************************************)
(* The lock survives whatever leaves the own precommits alone.             *)
(***************************************************************************)

\* d has the votes and the proposals of c, and perhaps more.
Extends(c, d) ==
    /\ c.round \in Rounds /\ d.round \in Rounds /\ c.round <= d.round
    /\ Grows(c.votes, d.votes)
    /\ \A r \in Rounds : \A v : proposalAt(c, r, v) => proposalAt(d, r, v)

LEMMA ProofExtends ==
  ASSUME NEW c, NEW d, Extends(c, d), NEW q \in QuorumValues, ProofRestores(c, q)
  PROVE  ProofRestores(d, q)
<1> SUFFICES ASSUME q # NoQuorumValue
             PROVE  /\ q.round <= d.round /\ proposalAt(d, q.round, q.value)
                    /\ quorumFor(d, q.round, "prevote", q.value)
  BY DEF ProofRestores
<1>1. q.round \in Rounds /\ q.value # None
  BY RoundFacts DEF QuorumValues
<1>2. /\ q.round <= c.round /\ proposalAt(c, q.round, q.value)
      /\ quorumFor(c, q.round, "prevote", q.value)
  BY DEF ProofRestores
<1>3. q.round \in Nat /\ c.round \in Nat /\ d.round \in Nat
  BY <1>1, RoundFacts DEF Extends
<1>4. q.round <= d.round
  BY <1>2, <1>3 DEF Extends
<1>5. quorumFor(d, q.round, "prevote", q.value)
  BY <1>1, <1>2, RoundFacts, QuorumGrows DEF Extends
<1> QED
  BY <1>1, <1>2, <1>4, <1>5 DEF Extends

LEMMA LocksStay ==
  ASSUME NEW s \in Active, NEW c, Sound(s, c), NEW d, Extends(c, d),
         d.votes["precommit"][s] = c.votes["precommit"][s],
         d.locked = c.locked, d.valid = c.valid
  PROVE  Locks(s, d)
<1>1. Locks(s, c) /\ c.valid \in QuorumValues /\ c.locked \in QuorumValues
  BY GoodRecord DEF Sound, Intact
<1>2. ProofRestores(d, c.valid) /\ ProofRestores(d, c.locked)
  BY <1>1, ProofExtends DEF Locks
<1>3. Admitting => LockRestores(s, d)
  BY <1>1 DEF Locks, LockRestores
<1> QED
  BY <1>2, <1>3 DEF Locks
-----------------------------------------------------------------------------
(***************************************************************************)
(* Stopping, deciding, accusing and arming timers.                         *)
(***************************************************************************)

\* d differs from c in its input, its timers, its decision, its halt and its
\* evidence only.
Alike(c, d) ==
    /\ d.round = c.round /\ d.step = c.step /\ d.votes = c.votes
    /\ d.proposals = c.proposals /\ d.hints = c.hints
    /\ d.locked = c.locked /\ d.valid = c.valid
    /\ d.inputKnown \/ d.inputKnown = c.inputKnown

LEMMA AlikeIntact ==
  ASSUME NEW s, NEW c, NEW d, Intact(s, c), Alike(c, d), TimersRestore(d), HaltStands(d)
  PROVE  Intact(s, d)
<1>1. Locks(s, d)
  BY DEF Intact, Alike, Locks, ProofRestores, LockRestores, proposalAt, quorumFor, SignersOf
<1>2. VotesStand(s, d)
  BY DEF Intact, Alike, VotesStand
<1>3. /\ HintsStand(s, d.round, d.hints) /\ ListsStand(s, d.proposals)
      /\ InputStands(d.inputKnown, d.proposals, d.hints)
  BY DEF Intact, Alike, InputStands
<1> QED
  BY <1>1, <1>2, <1>3 DEF Intact

\* The timers of c are as good in d.
LEMMA TimersAlike ==
  ASSUME NEW c, NEW d, Alike(c, d), TimersRestore(c), d.timers = c.timers
  PROVE  TimersRestore(d)
BY DEF Alike, TimersRestore, anyQuorum

LEMMA HaltSound ==
  ASSUME NEW s \in Active, NEW c, Sound(s, c)
  PROVE  Sound(s, halt(c)) /\ Sound(s, terminalFault(c))
<1>0. c \in Records /\ Intact(s, c) /\ TimersRestore(c) /\ HaltStands(c)
  BY GoodRecord DEF Sound, Intact
<1>n. "terminal" # "certified-validation"
  OBVIOUS
<1>1. ASSUME NEW d \in {halt(c), terminalFault(c)} PROVE Intact(s, d)
  <2>1. Alike(c, d) /\ d.timers = c.timers
    BY <1>0 DEF Alike, halt, terminalFault, Records
  <2>2. HaltStands(d)
    BY <1>0, <1>n DEF HaltStands, halt, terminalFault, Records
  <2> QED
    BY <1>0, <2>1, <2>2, TimersAlike, AlikeIntact
<1> QED
  BY <1>1, HaltGood DEF Sound

LEMMA ThresholdSound ==
  ASSUME NEW s \in Active, NEW c, Sound(s, c)
  PROVE  Sound(s, haltIfFaultThresholdExceeded(s, c))
BY HaltSound DEF haltIfFaultThresholdExceeded

LEMMA RetainSound ==
  ASSUME NEW s \in Active, NEW c, Sound(s, c), NEW o \in Accusable, NEW foreign
  PROVE  Sound(s, retainAccusation(s, c, o, foreign))
<1> DEFINE proven == IF c.provenOffender = None THEN o ELSE c.provenOffender
           kept == [c EXCEPT !.pendingAccusation = o, !.provenOffender = proven]
<1>0. /\ c \in Records /\ Good(s, c) /\ Intact(s, c) /\ TimersRestore(c) /\ HaltStands(c)
  BY GoodRecord DEF Sound, Intact
<1>1. \/ retainAccusation(s, c, o, foreign) \in {terminalFault(c), c, halt(c)}
      \/ retainAccusation(s, c, o, foreign) = kept /\ ~ControlFault(s, c, o)
  BY DEF retainAccusation
<1>2. Same(c, retainAccusation(s, c, o, foreign))
  BY <1>0, RetainSame
<1>3. Good(s, retainAccusation(s, c, o, foreign))
  BY <1>0, <1>2, SameGood
<1>4. ASSUME ~ControlFault(s, c, o) PROVE Intact(s, kept)
  <2>1. proven = o
    BY <1>4 DEF ControlFault
  <2> HIDE DEF proven
  <2>2. Alike(c, kept) /\ kept.timers = c.timers
    BY <1>0 DEF Alike, Records
  <2>3. HaltStands(kept)
    BY <1>0, <2>1 DEF HaltStands, Records
  <2> HIDE DEF kept
  <2> QED
    BY <1>0, <2>2, <2>3, TimersAlike, AlikeIntact
<1> HIDE DEF kept
<1> QED
  BY <1>1, <1>3, <1>4, HaltSound DEF Sound

LEMMA InputSound ==
  ASSUME NEW s \in Active, NEW c, Sound(s, c)
  PROVE  Sound(s, [c EXCEPT !.inputKnown = TRUE]) /\ Sound(s, inputAvailable(c))
<1> DEFINE t == IF c.step = "propose" THEN c.timers \cup {"propose"} ELSE c.timers
           known == [c EXCEPT !.inputKnown = TRUE]
           timed == [c EXCEPT !.inputKnown = TRUE, !.timers = t]
<1>0. /\ c \in Records /\ Good(s, c) /\ Intact(s, c) /\ TimersRestore(c) /\ HaltStands(c)
  BY GoodRecord DEF Sound, Intact
<1>1. inputAvailable(c) \in {c, timed}
  BY DEF inputAvailable
<1>2. Good(s, known) /\ Good(s, inputAvailable(c))
  BY <1>0, InputSame, SameGood
<1>3. \A phase \in Phases : phase \in t => phase \in c.timers
  BY DEF Phases
<1> HIDE DEF t
<1>4. Alike(c, known) /\ known.timers = c.timers /\ HaltStands(known)
  BY <1>0 DEF Alike, HaltStands, Records
<1>5. Alike(c, timed) /\ timed.timers = t /\ timed.inputKnown /\ HaltStands(timed)
  BY <1>0 DEF Alike, HaltStands, Records
<1> HIDE DEF known, timed
<1>6. TimersRestore(timed)
  BY <1>0, <1>3, <1>5 DEF Alike, TimersRestore, anyQuorum
<1>7. Intact(s, known) /\ Intact(s, timed)
  BY <1>0, <1>4, <1>5, <1>6, TimersAlike, AlikeIntact
<1>8. Sound(s, known) /\ Sound(s, inputAvailable(c))
  BY <1>0, <1>1, <1>2, <1>7 DEF Sound
<1> QED
  BY <1>8 DEF known

LEMMA ClearSound ==
  ASSUME NEW s \in Active, NEW c, Sound(s, c)
  PROVE  Sound(s, clearStaleAccusation(c))
<1> DEFINE d == [c EXCEPT !.pendingAccusation = None]
<1>0. /\ c \in Records /\ Good(s, c) /\ Intact(s, c) /\ TimersRestore(c) /\ HaltStands(c)
  BY GoodRecord DEF Sound, Intact
<1>1. clearStaleAccusation(c) \in {c, d}
  BY DEF clearStaleAccusation
<1>2. Good(s, clearStaleAccusation(c))
  BY <1>0, ClearSame, SameGood
<1>3. Alike(c, d) /\ d.timers = c.timers /\ HaltStands(d)
  BY <1>0 DEF Alike, HaltStands, Records
<1>4. Intact(s, d)
  BY <1>0, <1>3, TimersAlike, AlikeIntact
<1> QED
  BY <1>0, <1>1, <1>2, <1>4 DEF Sound

LEMMA DecidedIntact ==
  ASSUME NEW s \in Active, NEW c, Sound(s, c), NEW v
  PROVE  Intact(s, [c EXCEPT !.decision = v])
<1> DEFINE d == [c EXCEPT !.decision = v]
<1>0. /\ c \in Records /\ Intact(s, c) /\ TimersRestore(c) /\ HaltStands(c)
  BY GoodRecord DEF Sound, Intact
<1>1. Alike(c, d) /\ d.timers = c.timers /\ HaltStands(d)
  BY <1>0 DEF Alike, HaltStands, Records
<1> QED
  BY <1>0, <1>1, TimersAlike, AlikeIntact

LEMMA KeptIntact ==
  ASSUME NEW s \in Active, NEW c, Sound(s, c), NEW v \in Rejects[s]
  PROVE  Intact(s, haltForCertifiedValue(c, v))
<1> DEFINE d == [c EXCEPT !.halted = "certified-validation", !.unapplied = v]
<1>0. /\ c \in Records /\ Intact(s, c) /\ TimersRestore(c) /\ HaltStands(c) /\ ~Validating
  BY GoodRecord DEF Sound, Intact, Validating
<1>1. Alike(c, d) /\ d.timers = c.timers /\ HaltStands(d)
  BY <1>0 DEF Alike, HaltStands, Records
<1>2. Intact(s, d)
  BY <1>0, <1>1, TimersAlike, AlikeIntact
<1> QED
  BY <1>0, <1>2 DEF haltForCertifiedValue

LEMMA CommitAtSound ==
  ASSUME NEW s \in Active, NEW c, Sound(s, c), NEW r \in Rounds
  PROVE  Sound(s, commitAt(s, c, r))
<1> DEFINE certified == {v \in Values : quorumFor(c, r, "precommit", v) /\ proposalAt(c, r, v)}
           v == CHOOSE x \in certified : TRUE
           d == [c EXCEPT !.decision = v]
<1>1. \/ commitAt(s, c, r) \in {c, terminalFault(c), halt(c), d}
      \/ v \in Rejects[s] /\ commitAt(s, c, r) = haltForCertifiedValue(c, v)
  BY DEF commitAt
<1>2. Good(s, commitAt(s, c, r))
  BY CommitAtGood DEF Sound
<1>3. Intact(s, d)
  BY DecidedIntact
<1> HIDE DEF v, d
<1>4. v \in Rejects[s] => Intact(s, haltForCertifiedValue(c, v))
  BY KeptIntact
<1> QED
  BY <1>1, <1>2, <1>3, <1>4, HaltSound DEF Sound

LEMMA MaybeCommitSound ==
  ASSUME NEW s \in Active, NEW c, Sound(s, c)
  PROVE  Sound(s, maybeCommit(s, c))
<1> DEFINE A(x, r) == commitAt(s, x, r)
           Fine(x) == Sound(s, x)
<1>1. MaxRound \in Nat /\ \A r \in Nat : r > 0 /\ r <= MaxRound => r \in Rounds
  BY RoundFacts DEF Rounds
<1>2. ASSUME NEW x, Fine(x), NEW r \in Rounds PROVE Fine(A(x, r))
  BY <1>2, CommitAtSound
<1>3. Fine(c)
  OBVIOUS
<1>4. PICK upTo : /\ maybeCommit(s, c) = upTo[MaxRound]
                  /\ \A r \in 0..MaxRound :
                        upTo[r] = IF r = 0 THEN c ELSE A(upTo[r - 1], r)
  BY CommitLoop
<1> HIDE DEF A, Fine
<1> DEFINE T == {k \in Nat : k <= MaxRound /\ ~Fine(upTo[k])}
<1>5. T \subseteq Nat
  OBVIOUS
<1>6. T = {}
  <2>1. SUFFICES ASSUME T # {} PROVE FALSE
    OBVIOUS
  <2> HIDE DEF T
  <2>2. PICK k \in T : \A j \in T : k <= j
    BY ONLY <1>5, <2>1, LeastExists
  <2>3. k \in Nat /\ k <= MaxRound /\ ~Fine(upTo[k])
    BY <2>2 DEF T
  <2>4. k # 0
    BY <1>1, <1>3, <1>4, <2>3
  <2>5. k - 1 \in Nat /\ k - 1 \notin T /\ k - 1 <= MaxRound
    BY <1>1, <2>2, <2>3, <2>4
  <2>6. Fine(upTo[k - 1])
    BY <2>5 DEF T
  <2>7. upTo[k] = A(upTo[k - 1], k) /\ k \in Rounds
    BY <1>1, <1>4, <2>3, <2>4
  <2> QED
    BY <1>2, <2>3, <2>6, <2>7
<1> QED
  BY <1>1, <1>4, <1>6 DEF Fine

LEMMA DriveTimersSound ==
  ASSUME NEW s \in Active, NEW c, Sound(s, c)
  PROVE  Sound(s, driveTimers(c))
<1> DEFINE t == c.timers \cup {phase \in Phases : anyQuorum(c, c.round, phase)}
           d == [c EXCEPT !.timers = t]
<1>0. /\ c \in Records /\ Intact(s, c) /\ TimersRestore(c) /\ HaltStands(c)
  BY GoodRecord DEF Sound, Intact
<1>1. /\ "propose" \in t => "propose" \in c.timers
      /\ \A phase \in Phases : phase \in t => anyQuorum(c, c.round, phase)
  BY <1>0 DEF Phases, TimersRestore
<1> HIDE DEF t
<1>2. Alike(c, d) /\ d.timers = t /\ HaltStands(d) /\ d.inputKnown = c.inputKnown
  BY <1>0 DEF Alike, HaltStands, Records
<1> HIDE DEF d
<1>3. TimersRestore(d)
  BY <1>0, <1>1, <1>2 DEF Alike, TimersRestore, anyQuorum
<1>4. Intact(s, d)
  BY <1>0, <1>2, <1>3, AlikeIntact
<1>5. Intact(s, driveTimers(c))
  BY <1>4 DEF d, t, driveTimers
<1> QED
  BY <1>5, DriveTimersGood DEF Sound
-----------------------------------------------------------------------------
(***************************************************************************)
(* Recording what others signed.                                           *)
(***************************************************************************)

\* Votes of others disturb nothing.
LEMMA OthersVotesIntact ==
  ASSUME NEW s \in Active, NEW c, Sound(s, c), NEW w, Grows(c.votes, w),
         \A f \in Phases : w[f][s] = c.votes[f][s]
  PROVE  Intact(s, [c EXCEPT !.votes = w])
<1> DEFINE d == [c EXCEPT !.votes = w]
<1>0. /\ c \in Records /\ Intact(s, c) /\ c.round \in Rounds
  BY GoodRecord DEF Sound
<1>1. /\ d.votes = w /\ d.round = c.round /\ d.step = c.step /\ d.timers = c.timers
      /\ d.proposals = c.proposals /\ d.hints = c.hints /\ d.locked = c.locked
      /\ d.valid = c.valid /\ d.inputKnown = c.inputKnown /\ d.unapplied = c.unapplied
      /\ d.halted = c.halted /\ d.pendingAccusation = c.pendingAccusation
      /\ d.provenOffender = c.provenOffender
  BY <1>0 DEF Records
<1> HIDE DEF d
<1>2. Extends(c, d)
  <2>1. c.round <= c.round
    <3>1. c.round \in Nat
      BY <1>0, RoundFacts
    <3> QED
      BY <3>1
  <2> QED
    BY <1>0, <1>1, <2>1 DEF Extends, proposalAt
<1>3. Locks(s, d)
  BY <1>1, <1>2, LocksStay, RoundFacts
<1>4. VotesStand(s, d)
  BY <1>0, <1>1, RoundFacts DEF Intact, VotesStand
<1>5. TimersRestore(d)
  BY <1>0, <1>1, QuorumGrows DEF Intact, TimersRestore
<1>6. HaltStands(d)
  BY <1>0, <1>1 DEF Intact, HaltStands
<1>7. Intact(s, d)
  BY <1>0, <1>1, <1>3, <1>4, <1>5, <1>6 DEF Intact
<1> QED
  BY <1>7 DEF d

LEMMA RecordVoteSound ==
  ASSUME NEW s \in Active, NEW c, Sound(s, c), NEW t \in Voters, NEW r \in Rounds,
         NEW phase \in Phases, NEW ballot \in Ballots, r <= c.round,
         t # s /\ t \notin Byzantine => t \in Active /\ rec[t].votes[phase][t][r] = ballot,
         t = s => c.votes[phase][s][r] = ballot
  PROVE  Sound(s, recordVote(c, t, r, phase, ballot))
<1>0. /\ c \in Records /\ Good(s, c) /\ Intact(s, c) /\ c.votes \in VoteTables
      /\ TimersRestore(c) /\ HaltStands(c) /\ ballot # None
  BY GoodRecord, RoundFacts DEF Sound, Intact, Ballots
<1>1. Good(s, recordVote(c, t, r, phase, ballot))
  BY <1>0, RecordVoteGood
<1>2. Intact(s, recordVote(c, t, r, phase, ballot))
  <2>1. CASE c.votes[phase][t][r] = None
    <3> DEFINE w == WithVote(c.votes, phase, t, r, ballot)
    <3>1. recordVote(c, t, r, phase, ballot) = [c EXCEPT !.votes = w]
      BY <1>0, <2>1 DEF recordVote, WithVote
    <3>2. w = WithVote(c.votes, phase, t, r, ballot) /\ t # s /\ s \in Voters
      BY <1>0, <2>1, ActiveVoter
    <3> HIDE DEF w
    <3>3. /\ Grows(c.votes, w)
          /\ \A f \in Phases, u \in Voters : f # phase \/ u # t => w[f][u] = c.votes[f][u]
      BY <1>0, <2>1, <3>2, VoteAdded
    <3> QED
      BY <3>1, <3>2, <3>3, OthersVotesIntact
  <2>2. CASE c.votes[phase][t][r] = ballot
    BY <1>0, <2>2 DEF recordVote
  <2>3. CASE c.votes[phase][t][r] \notin {None, ballot}
    <3> DEFINE e == c.equivocations \cup {[kind |-> phase, seat |-> t, round |-> r]}
               d == [c EXCEPT !.equivocations = e]
    <3>1. recordVote(c, t, r, phase, ballot) = d
      BY <2>3 DEF recordVote
    <3> HIDE DEF e
    <3>2. Alike(c, d) /\ d.timers = c.timers /\ HaltStands(d)
      BY <1>0 DEF Alike, HaltStands, Records
    <3> QED
      BY <1>0, <3>1, <3>2, TimersAlike, AlikeIntact
  <2> QED
    BY <2>1, <2>2, <2>3
<1> QED
  BY <1>1, <1>2 DEF Sound

\* A proposal is added to the list of its round.
LEMMA RecordProposalSound ==
  ASSUME NEW s \in Active, NEW c, Sound(s, c), NEW p \in Proposals, p.term <= c.round,
         Backed(s, c.votes, p), c.inputKnown,
         Proposer(p.term) = s => c.proposals[p.term] = <<>> \/ proposalAt(c, p.term, p.value)
  PROVE  Sound(s, recordProposal(c, p)) /\ recordProposal(c, p).inputKnown
<1> DEFINE e == IF c.proposals[p.term] = <<>> THEN c.equivocations
                ELSE c.equivocations
                       \cup {[kind |-> "proposal", seat |-> Proposer(p.term), round |-> p.term]}
           list == Append(c.proposals[p.term], p)
           all == [c.proposals EXCEPT ![p.term] = list]
           d == [c EXCEPT !.proposals = all, !.equivocations = e]
<1>0. /\ c \in Records /\ Good(s, c) /\ Intact(s, c) /\ c.round \in Rounds /\ p.term \in Rounds
      /\ c.proposals \in ProposalTables /\ c.proposals[p.term] \in Seq(Proposals)
      /\ ListsStand(s, c.proposals)
  BY GoodRecord DEF Proposals, Sound, Intact
<1>1. \/ recordProposal(c, p) = c
      \/ /\ recordProposal(c, p) = d
         /\ Len(c.proposals[p.term]) < 2 /\ ~proposalAt(c, p.term, p.value)
  <2>1. Len(c.proposals[p.term]) \in Nat
    BY <1>0
  <2> QED
    BY <2>1 DEF recordProposal
<1>2. Good(s, recordProposal(c, p))
  BY <1>0, RecordProposalGood
<1>3. ASSUME Len(c.proposals[p.term]) < 2, ~proposalAt(c, p.term, p.value)
      PROVE  Len(list) <= (IF Proposer(p.term) = s THEN 1 ELSE 2)
  <2>1. Len(list) = Len(c.proposals[p.term]) + 1 /\ Len(c.proposals[p.term]) \in Nat
    BY <1>0
  <2>2. Proposer(p.term) = s => Len(c.proposals[p.term]) = 0
    BY <1>3
  <2> QED
    BY <1>3, <2>1, <2>2
<1>4. ToSet(c.proposals[p.term]) \subseteq ToSet(list)
  <2> DEFINE x == c.proposals[p.term]
  <2>1. /\ x \in Seq(Proposals) /\ Len(list) = Len(x) + 1
        /\ \A i \in 1..Len(x) : list[i] = x[i]
    BY <1>0, AppendProperties
  <2>2. list \in Seq(Proposals)
    BY <1>0
  <2> HIDE DEF x, list
  <2>3. DOMAIN x = 1..Len(x) /\ DOMAIN list = 1..(Len(x) + 1) /\ Len(x) \in Nat
    BY <2>1, <2>2
  <2> QED
    BY <2>1, <2>3 DEF ToSet, x
<1> HIDE DEF e, list
<1>5. /\ all[p.term] = list /\ \A r \in Rounds : r # p.term => all[r] = c.proposals[r]
  BY <1>0 DEF ProposalTables
<1> HIDE DEF all
<1>6. /\ d.proposals = all /\ d.votes = c.votes /\ d.round = c.round /\ d.step = c.step
      /\ d.hints = c.hints /\ d.locked = c.locked /\ d.valid = c.valid
      /\ d.timers = c.timers /\ d.inputKnown = c.inputKnown /\ d.unapplied = c.unapplied
      /\ d.halted = c.halted /\ d.pendingAccusation = c.pendingAccusation
      /\ d.provenOffender = c.provenOffender
  BY <1>0 DEF Records
<1> HIDE DEF d
<1>7. Extends(c, d)
  <2>1. c.round <= c.round
    <3>1. c.round \in Nat
      BY <1>0, RoundFacts
    <3> QED
      BY <3>1
  <2>2. Grows(c.votes, c.votes)
    BY DEF Grows
  <2>3. \A r \in Rounds : ToSet(c.proposals[r]) \subseteq ToSet(all[r])
    BY <1>4, <1>5
  <2> QED
    BY <1>0, <1>6, <2>1, <2>2, <2>3 DEF Extends, proposalAt
<1>8. Locks(s, d)
  BY <1>6, <1>7, LocksStay
<1>9. ASSUME Len(c.proposals[p.term]) < 2, ~proposalAt(c, p.term, p.value)
      PROVE  Intact(s, d)
  <2>1. ListsStand(s, all)
    <3>1. Len(list) <= (IF Proposer(p.term) = s THEN 1 ELSE 2)
      BY <1>3, <1>9
    <3> QED
      BY <1>0, <1>5, <3>1 DEF ListsStand
  <2>2. VotesStand(s, d) /\ TimersRestore(d) /\ HaltStands(d)
    BY <1>0, <1>6 DEF Intact, VotesStand, TimersRestore, HaltStands, anyQuorum
  <2> QED
    BY <1>0, <1>6, <1>8, <2>1, <2>2 DEF Intact, InputStands
<1> QED
  BY <1>0, <1>1, <1>2, <1>6, <1>9 DEF Sound

\* A message of another seat about a later round.
LEMMA AddHintSound ==
  ASSUME NEW s \in Active, NEW c, Sound(s, c), NEW t \in Voters, t # s,
         NEW hint \in VoteHints \cup ProposalHints, KnownHint(s, c.votes, t, hint),
         hint.round > c.round,
         hint.kind = "proposal" => c.inputKnown /\ t = Proposer(hint.round)
  PROVE  /\ Sound(s, addHint(c, t, hint)) /\ Untouched(c, addHint(c, t, hint))
         /\ addHint(c, t, hint).inputKnown = c.inputKnown
<1> DEFINE all == [c.hints EXCEPT ![t] = hint]
           d == [c EXCEPT !.hints = all]
<1>0. /\ c \in Records /\ Good(s, c) /\ Intact(s, c) /\ c.hints \in HintTables /\ s \in Voters
  BY GoodRecord, ActiveVoter DEF Sound
<1>1. addHint(c, t, hint) \in {c, d}
  BY DEF addHint
<1>2. Good(s, addHint(c, t, hint)) /\ Untouched(c, addHint(c, t, hint))
  BY <1>0, AddHintGood
<1>3. all[t] = hint /\ \A u \in Voters : u # t => all[u] = c.hints[u]
  BY <1>0 DEF HintTables
<1> HIDE DEF all
<1>4. /\ d.hints = all /\ d.votes = c.votes /\ d.round = c.round /\ d.step = c.step
      /\ d.proposals = c.proposals /\ d.locked = c.locked /\ d.valid = c.valid
      /\ d.timers = c.timers /\ d.inputKnown = c.inputKnown /\ d.unapplied = c.unapplied
      /\ d.halted = c.halted /\ d.pendingAccusation = c.pendingAccusation
      /\ d.provenOffender = c.provenOffender
  BY <1>0 DEF Records
<1> HIDE DEF d
<1>5. HintsStand(s, c.round, all)
  BY <1>0, <1>3 DEF Intact, HintsStand
<1>6. InputStands(c.inputKnown, c.proposals, all)
  BY <1>0, <1>3 DEF Intact, InputStands
<1>7. Locks(s, d)
  BY <1>0, <1>4 DEF Intact, Locks, ProofRestores, LockRestores, proposalAt, quorumFor, SignersOf
<1>8. VotesStand(s, d) /\ TimersRestore(d) /\ HaltStands(d)
  BY <1>0, <1>4 DEF Intact, VotesStand, TimersRestore, HaltStands, anyQuorum
<1> QED
  BY <1>0, <1>1, <1>2, <1>4, <1>5, <1>6, <1>7, <1>8 DEF Sound, Intact
-----------------------------------------------------------------------------
(***************************************************************************)
(* Rounds.                                                                 *)
(***************************************************************************)

LEMMA ListOfOne ==
  ASSUME NEW S, IsFiniteSet(S), \A x, y \in S : x = y
  PROVE  /\ SetToSeq(S) \in Seq(S) /\ Len(SetToSeq(S)) <= 1
         /\ S = {} => SetToSeq(S) = <<>>
<1>1. Cardinality(S) \in Nat /\ Cardinality(S) <= 1
  <2>1. CASE S = {}
    BY <2>1, FS_EmptySet
  <2>2. CASE S # {}
    <3>1. PICK x \in S : TRUE
      BY <2>2
    <3>2. S = {x}
      BY <3>1
    <3> QED
      BY <3>2, FS_Singleton
  <2> QED
    BY <2>1, <2>2
<1>2. PICK f : f \in Bijection(1..Cardinality(S), S)
  BY FS_CardinalityType DEF ExistsBijection
<1>3. f \in [1..Cardinality(S) -> S] /\ IsInjective(f)
  BY <1>2 DEF Bijection, Injection, IsInjective
<1> DEFINE q == SetToSeq(S)
<1>4. q \in [1..Cardinality(S) -> S]
  BY <1>3 DEF SetToSeq
<1>5. q \in Seq(S)
  BY <1>1, <1>4
<1>6. Len(q) = Cardinality(S)
  BY <1>1, <1>4, <1>5
<1>7. S = {} => q = <<>>
  <2>1. S = {} => Cardinality(S) = 0
    BY FS_EmptySet
  <2> HIDE DEF q
  <2> QED
    BY <1>5, <1>6, <2>1
<1> QED
  BY <1>1, <1>5, <1>6, <1>7

LEMMA EnterRoundSound ==
  ASSUME NEW s \in Active, NEW c, Sound(s, c), NEW r \in Rounds, Good(s, enterRound(s, c, r))
  PROVE  Sound(s, enterRound(s, c, r)) /\ enterRound(s, c, r).inputKnown = c.inputKnown
<1> DEFINE ready == {t \in Voters : c.hints[t].round = r}
           bearers == {u \in ready : c.hints[u].kind = "proposal"}
           new == {c.hints[t].proposal : t \in bearers}
           hinted(phase, t) ==
               t \in ready /\ c.hints[t].kind = "vote" /\ c.hints[t].phase = phase
           timers == IF c.inputKnown THEN {"propose"} ELSE {}
           hints == [t \in Voters |-> IF c.hints[t].round > r THEN c.hints[t] ELSE NoHint]
           row(phase, t) == IF hinted(phase, t)
                            THEN [c.votes[phase][t] EXCEPT ![r] = c.hints[t].ballot]
                            ELSE c.votes[phase][t]
           w == [phase \in Phases |-> [t \in Voters |-> row(phase, t)]]
           list == c.proposals[r] \o SetToSeq(new)
           all == [c.proposals EXCEPT ![r] = list]
           d == [c EXCEPT !.round = r, !.step = "propose", !.timers = timers, !.hints = hints,
                          !.votes = w, !.proposals = all]
<1>0. /\ c \in Records /\ Good(s, c) /\ Intact(s, c) /\ c.round \in Rounds
      /\ c.votes \in VoteTables /\ c.hints \in HintTables /\ c.proposals \in ProposalTables
      /\ NoneAhead(c.round, c.votes) /\ PlacedProposals(c.round, c.proposals)
      /\ HintsStand(s, c.round, c.hints) /\ ListsStand(s, c.proposals)
      /\ InputStands(c.inputKnown, c.proposals, c.hints) /\ HaltStands(c) /\ s \in Voters
  BY GoodRecord, ActiveVoter DEF Placed, PlacedVotes, Sound, Intact
<1>i. r \in Nat /\ c.round \in Nat
  BY <1>0, RoundFacts
<1>1. CASE r <= c.round
  BY <1>1 DEF enterRound
<1>2. ASSUME ~(r <= c.round)
      PROVE  Intact(s, enterRound(s, c, r)) /\ enterRound(s, c, r).inputKnown = c.inputKnown
  <2>0. r > c.round
    BY <1>i, <1>2
  <2>1. enterRound(s, c, r) = d
    BY <1>2 DEF enterRound
  \* The votes.
  <2>2. ASSUME NEW phase \in Phases, NEW t \in Voters
        PROVE  /\ \A q \in Rounds :
                     row(phase, t)[q] = IF q = r /\ hinted(phase, t) THEN c.hints[t].ballot
                                        ELSE c.votes[phase][t][q]
               /\ w[phase][t] = row(phase, t)
    <3>1. c.votes[phase][t] \in [Rounds -> Ballots \cup {None}]
      BY <1>0 DEF VoteTables
    <3> QED
      BY <3>1
  <2>3. \A f \in Phases : w[f][s] = c.votes[f][s]
    <3>1. c.hints[s].kind # "vote"
      BY <1>0 DEF HintsStand, NoHint
    <3>2. \A f \in Phases : ~hinted(f, s)
      BY <3>1
    <3> QED
      BY <1>0, <2>2, <3>2
  <2>4. Grows(c.votes, w)
    <3>1. \A phase \in Phases, t \in Voters : c.votes[phase][t][r] = None
      BY <1>0, <2>0 DEF NoneAhead
    <3> QED
      BY <2>2, <3>1 DEF Grows
  <2> HIDE DEF w, row
  \* The proposals.
  <2>5. /\ \A x, y \in new : x = y
        /\ IsFiniteSet(new) /\ new \in SUBSET Proposals
        /\ ~c.inputKnown => new = {}
    <3>1. \A u \in bearers : u = Proposer(r)
      <4>1. \A u \in Voters : c.hints[u].kind = "proposal" => c.hints[u] # NoHint
        BY DEF NoHint
      <4> QED
        BY <1>0, <4>1 DEF HintsStand
    <3>2. \A u \in bearers : c.inputKnown
      BY <1>0 DEF InputStands
    <3>3. IsFiniteSet(new) /\ new \in SUBSET Proposals
      BY <1>0, HintKinds, HintedFinite
    <3> QED
      BY <3>1, <3>2, <3>3
  <2>6. c.proposals[r] = <<>>
    BY <1>0, <2>0 DEF PlacedProposals
  <2> HIDE DEF new
  <2>7. Len(list) <= 1 /\ (~c.inputKnown => list = <<>>)
    <3> DEFINE y == SetToSeq(new)
    <3>1. y \in Seq(new) /\ Len(y) <= 1 /\ (new = {} => y = <<>>)
      BY <2>5, ListOfOne
    <3>2. list = <<>> \o y
      BY <2>6
    <3> HIDE DEF y, list
    <3>3. list = y
      BY <3>1, <3>2
    <3> QED
      BY <2>5, <3>1, <3>3
  <2> HIDE DEF list
  <2>8. all[r] = list /\ \A q \in Rounds : q # r => all[q] = c.proposals[q]
    BY <1>0 DEF ProposalTables
  <2> HIDE DEF all
  <2>9. ListsStand(s, all)
    <3>1. Len(list) <= 1 => Len(list) <= 2
      <4>1. CASE c.inputKnown
        <5>1. list \in Seq(Proposals)
          <6> DEFINE y == SetToSeq(new)
          <6>1. y \in Seq(new)
            BY <2>5, ListOfOne
          <6> HIDE DEF y
          <6>2. list = y
            BY <2>6, <6>1 DEF list, y
          <6> QED
            BY <2>5, <6>1, <6>2
        <5>2. Len(list) \in Nat
          BY <5>1
        <5> QED
          BY <5>2
      <4>2. CASE ~c.inputKnown
        BY <2>7, <4>2
      <4> QED
        BY <4>1, <4>2
    <3> QED
      BY <1>0, <2>7, <2>8, <3>1 DEF ListsStand
  \* The hints.
  <2>10. \A t \in Voters : hints[t] = IF c.hints[t].round > r THEN c.hints[t] ELSE NoHint
    OBVIOUS
  <2> HIDE DEF hints
  <2>11. HintsStand(s, r, hints)
    <3>1. ~(NoHint.round > r)
      BY <1>i DEF NoHint
    <3> QED
      BY <1>0, <2>10, <3>1 DEF HintsStand
  <2>12. InputStands(c.inputKnown, all, hints)
    <3>1. NoHint.kind # "proposal"
      BY DEF NoHint
    <3> QED
      BY <1>0, <2>7, <2>8, <2>10, <3>1 DEF InputStands
  <2>13. /\ "propose" \in timers => c.inputKnown
         /\ \A phase \in Phases : phase \notin timers
    BY DEF Phases
  <2> HIDE DEF timers
  <2>14. /\ d.votes = w /\ d.round = r /\ d.step = "propose" /\ d.locked = c.locked
         /\ d.proposals = all /\ d.hints = hints /\ d.valid = c.valid /\ d.timers = timers
         /\ d.inputKnown = c.inputKnown /\ d.unapplied = c.unapplied
         /\ d.halted = c.halted /\ d.pendingAccusation = c.pendingAccusation
         /\ d.provenOffender = c.provenOffender
    BY <1>0 DEF Records
  <2> HIDE DEF d
  <2>15. Extends(c, d)
    <3>1. c.round <= r
      BY <1>i, <2>0
    <3>2. \A v : ~proposalAt(c, r, v)
      BY <2>6 DEF proposalAt, ToSet
    <3>3. \A q \in Rounds : \A v : proposalAt(c, q, v) => proposalAt(d, q, v)
      BY <2>8, <2>14, <3>2 DEF proposalAt
    <3> QED
      BY <1>0, <2>4, <2>14, <3>1, <3>3 DEF Extends
  <2>16. Locks(s, d)
    BY <2>3, <2>14, <2>15, LocksStay, RoundFacts
  <2>17. VotesStand(s, d) /\ TimersRestore(d) /\ HaltStands(d)
    BY <1>0, <2>13, <2>14 DEF VotesStand, TimersRestore, HaltStands
  <2> QED
    BY <2>1, <2>9, <2>11, <2>12, <2>14, <2>16, <2>17 DEF Intact
<1> QED
  BY <1>0, <1>1, <1>2 DEF Sound

LEMMA MaybeJumpSound ==
  ASSUME NEW s \in Active, Inv, NEW c, Sound(s, c), Unvoted(s, c.votes, c.locked)
  PROVE  Sound(s, maybeJump(s, c)) /\ maybeJump(s, c).inputKnown = c.inputKnown
<1> DEFINE supported == {r \in Rounds : Cardinality({t \in Voters : c.hints[t].round >= r}) >= 2}
<1>1. Good(s, c) /\ Good(s, maybeJump(s, c))
  BY MaybeJumpGood DEF Sound
<1>2. CASE supported = {}
  BY <1>2 DEF maybeJump
<1>3. CASE supported # {}
  <2>1. maybeJump(s, c) = enterRound(s, c, Max(supported))
    BY <1>3 DEF maybeJump
  <2>2. supported \subseteq Rounds
    OBVIOUS
  <2> HIDE DEF supported
  <2>3. Max(supported) \in Rounds
    BY <1>3, <2>2, LargestExists
  <2> QED
    BY <1>1, <2>1, <2>3, EnterRoundSound
<1> QED
  BY <1>2, <1>3
-----------------------------------------------------------------------------
(***************************************************************************)
(* Voting.                                                                 *)
(***************************************************************************)

\* An own vote disturbs nothing but the lock and the votes of the step.
LEMMA VotedIntact ==
  ASSUME NEW s \in Active, NEW c, Sound(s, c), NEW phase \in Phases, NEW ballot \in Ballots,
         NEW w, OwnVote(s, c, phase, ballot, w), NEW lock,
         NEW d, d = Voted(c, phase, w, lock), Locks(s, d), VotesStand(s, d)
  PROVE  Intact(s, d)
<1>0. c \in Records /\ Intact(s, c) /\ c.round \in Rounds /\ Grows(c.votes, w)
  BY GoodRecord DEF Sound, OwnVote
<1>1. /\ d.votes = w /\ d.round = c.round /\ d.timers = c.timers
      /\ d.proposals = c.proposals /\ d.hints = c.hints
      /\ d.inputKnown = c.inputKnown /\ d.unapplied = c.unapplied
      /\ d.halted = c.halted /\ d.pendingAccusation = c.pendingAccusation
      /\ d.provenOffender = c.provenOffender
  BY <1>0 DEF Records, Voted
<1>2. TimersRestore(d)
  BY <1>0, <1>1, QuorumGrows DEF Intact, TimersRestore
<1>3. HaltStands(d)
  BY <1>0, <1>1 DEF Intact, HaltStands
<1> QED
  BY <1>0, <1>1, <1>2, <1>3 DEF Intact

\* What a record holds besides the vote.
LEMMA VotedExtends ==
  ASSUME NEW s \in Active, NEW c, Sound(s, c), NEW phase \in Phases, NEW ballot \in Ballots,
         NEW w, OwnVote(s, c, phase, ballot, w), NEW lock,
         NEW d, d = Voted(c, phase, w, lock)
  PROVE  /\ Extends(c, d) /\ d.votes = w /\ d.round = c.round /\ d.step = phase
         /\ d.locked = lock /\ d.valid = c.valid /\ d.proposals = c.proposals
         /\ d.inputKnown = c.inputKnown
<1>0. c \in Records /\ c.round \in Rounds /\ Grows(c.votes, w)
  BY GoodRecord DEF Sound, OwnVote
<1>1. /\ d.votes = w /\ d.round = c.round /\ d.step = phase /\ d.locked = lock
      /\ d.valid = c.valid /\ d.proposals = c.proposals /\ d.inputKnown = c.inputKnown
  BY <1>0 DEF Records, Voted
<1>2. c.round <= c.round
  <2>1. c.round \in Nat
    BY <1>0, RoundFacts
  <2> QED
    BY <2>1
<1> QED
  BY <1>0, <1>1, <1>2 DEF Extends, proposalAt

LEMMA PrevoteSound ==
  ASSUME NEW s \in Active, NEW c, Sound(s, c), c.step = "propose", NEW v \in Ballots, NEW refused,
         NEW d, d = signLocalVote(s, c, "prevote", v, refused), Good(s, d)
  PROVE  Sound(s, d) /\ d.inputKnown = c.inputKnown
<1> DEFINE lock == c.locked
<1>0. /\ c \in Records /\ Good(s, c) /\ Placed(s, c) /\ lock \in QuorumValues
      /\ "prevote" \in Phases /\ Nil \in Ballots
  BY GoodRecord, RoundFacts DEF Sound, Ballots
<1>1. c.votes["prevote"][s][c.round] = None
  BY <1>0 DEF Placed, PlacedVotes
<1>2. c = [c EXCEPT !.locked = lock]
  BY <1>0 DEF Records
<1> HIDE DEF lock
<1>3. PICK ballot \in {v, Nil} : \E w :
         OwnVote(s, c, "prevote", ballot, w) /\ d = Voted(c, "prevote", w, lock)
  <2>1. d = signLocalVote(s, [c EXCEPT !.locked = lock], "prevote", v, refused)
    BY <1>2
  <2> QED
    BY <1>0, <1>1, <2>1, SignLocal
<1>4. PICK w : OwnVote(s, c, "prevote", ballot, w) /\ d = Voted(c, "prevote", w, lock)
  BY <1>3
<1>5. ballot \in Ballots
  BY <1>0
<1>6. /\ Extends(c, d) /\ d.votes = w /\ d.step = "prevote" /\ d.locked = lock
      /\ d.valid = c.valid /\ d.inputKnown = c.inputKnown
  BY <1>0, <1>4, <1>5, VotedExtends
<1>7. Locks(s, d)
  <2>1. w["precommit"][s] = c.votes["precommit"][s]
    BY <1>4, RoundFacts DEF OwnVote
  <2> QED
    BY <1>6, <2>1, LocksStay DEF lock
<1>8. VotesStand(s, d)
  BY <1>6 DEF VotesStand
<1> QED
  BY <1>0, <1>4, <1>5, <1>6, <1>7, <1>8, VotedIntact DEF Sound

\* A precommit of nothing leaves the lock alone.
LEMMA PrecommitNilSound ==
  ASSUME NEW s \in Active, NEW c, Sound(s, c), c.step = "prevote", NEW refused,
         NEW d, d = signLocalVote(s, c, "precommit", Nil, refused), Good(s, d)
  PROVE  Sound(s, d)
<1> DEFINE lock == c.locked
<1>0. /\ c \in Records /\ Good(s, c) /\ Placed(s, c) /\ lock \in QuorumValues /\ Intact(s, c)
      /\ "precommit" \in Phases /\ Nil \in Ballots /\ c.round \in Rounds
      /\ c.votes \in VoteTables /\ s \in Voters
  BY GoodRecord, ActiveVoter, RoundFacts DEF Sound, Ballots
<1>1. c.votes["precommit"][s][c.round] = None /\ c.votes["prevote"][s][c.round] # None
  BY <1>0 DEF Placed, PlacedVotes
<1>2. c = [c EXCEPT !.locked = lock]
  BY <1>0 DEF Records
<1>l. lock = c.locked
  OBVIOUS
<1> HIDE DEF lock
<1>3. PICK ballot \in {Nil, Nil} : \E w :
         OwnVote(s, c, "precommit", ballot, w) /\ d = Voted(c, "precommit", w, lock)
  <2>1. d = signLocalVote(s, [c EXCEPT !.locked = lock], "precommit", Nil, refused)
    BY <1>2
  <2> QED
    BY <1>0, <1>1, <2>1, SignLocal
<1>4. PICK w : OwnVote(s, c, "precommit", Nil, w) /\ d = Voted(c, "precommit", w, lock)
  BY <1>3
<1>5. /\ Extends(c, d) /\ d.votes = w /\ d.round = c.round /\ d.step = "precommit"
      /\ d.locked = lock /\ d.valid = c.valid
  BY <1>0, <1>4, VotedExtends
<1>6. ASSUME Admitting PROVE LockRestores(s, d)
  <2> DEFINE old == c.votes["precommit"][s]
             row == w["precommit"][s]
             committed == {r \in Rounds : old[r] \in Values}
             committed2 == {r \in Rounds : row[r] \in Values}
  <2>1. \A r \in Rounds : IF r = c.round THEN row[r] = Nil ELSE row[r] = old[r]
    <3>1. old \in [Rounds -> Ballots \cup {None}]
      BY <1>0 DEF VoteTables
    <3>2. row = WithBallot(old, c.round, Nil)
      BY <1>4 DEF OwnVote
    <3> HIDE DEF old, row
    <3> QED
      BY <1>0, <3>1, <3>2 DEF WithBallot
  <2>2. \A r \in Rounds : old[r] \in Values => row[r] = old[r]
    BY <1>1, <2>1, RoundFacts
  <2>3. \A r \in Rounds : row[r] \in Values => row[r] = old[r]
    BY <1>1, <2>1, RoundFacts
  <2>4. committed2 = committed
    BY <2>2, <2>3
  <2>5. LockRestores(s, c) /\ c.locked \in QuorumValues
    BY <1>0, <1>6, <1>l DEF Intact, Locks
  <2>6. c.locked # NoQuorumValue => c.locked.round \in Rounds /\ c.locked.value \in Values
    BY <2>5 DEF QuorumValues
  <2>7. /\ c.locked # NoQuorumValue =>
              /\ old[c.locked.round] = c.locked.value /\ c.valid # NoQuorumValue
              /\ c.valid.round >= c.locked.round
              /\ c.valid.round = c.locked.round => c.valid.value = c.locked.value
        /\ committed # {} => c.locked = QuorumValue(Max(committed), old[Max(committed)])
    BY <2>5 DEF LockRestores
  <2>8. committed # {} => Max(committed) \in committed
    <3>1. committed \subseteq Rounds
      OBVIOUS
    <3> HIDE DEF committed
    <3> QED
      BY <3>1, LargestExists
  <2>9. committed # {} => row[Max(committed)] = old[Max(committed)]
    BY <2>2, <2>8
  <2>10. c.locked # NoQuorumValue => row[c.locked.round] = c.locked.value
    BY <2>2, <2>6, <2>7
  <2>11. d.votes["precommit"][s] = row
    BY <1>5
  <2> HIDE DEF old, row
  <2>12. committed2 # {} => c.locked = QuorumValue(Max(committed2), row[Max(committed2)])
    BY <2>4, <2>7, <2>9
  <2> QED
    BY <1>5, <1>l, <2>7, <2>10, <2>11, <2>12 DEF LockRestores
<1>7. Locks(s, d)
  <2>1. ProofRestores(c, c.valid) /\ ProofRestores(c, c.locked) /\ c.valid \in QuorumValues
    BY <1>0, GoodRecord DEF Intact, Locks
  <2> QED
    BY <1>0, <1>5, <1>6, <1>l, <2>1, ProofExtends DEF Locks
<1>8. VotesStand(s, d)
  BY <1>1, <1>4, <1>5, RoundFacts DEF VotesStand, OwnVote
<1> QED
  BY <1>0, <1>4, <1>7, <1>8, VotedIntact DEF Sound

\* With no value refused, the vote for a known proposal is for it.
LEMMA SignValue ==
  ASSUME NEW s \in Active, NEW c, Good(s, c), NEW phase \in Phases, NEW v \in Values,
         NEW lock \in QuorumValues, c.votes[phase][s][c.round] = None,
         proposalAt(c, c.round, v),
         NEW d, d = signLocalVote(s, [c EXCEPT !.locked = lock], phase, v, {})
  PROVE  \E w : OwnVote(s, c, phase, v, w) /\ d = Voted(c, phase, w, lock)
<1>0. c \in Records /\ c.votes \in VoteTables /\ v \in Ballots
  BY GoodRecord DEF Ballots
<1> DEFINE e == [c EXCEPT !.locked = lock]
           w == WithVote(c.votes, phase, s, c.round, v)
<1>1. e.votes = c.votes /\ e.round = c.round /\ e.proposals = c.proposals
  BY <1>0 DEF Records
<1>2. d = [e EXCEPT !.step = phase, !.votes[phase][s][e.round] = v]
  BY <1>1 DEF signLocalVote, proposalAt
<1>3. d = [e EXCEPT !.step = phase, !.votes = w]
  BY <1>1, <1>2 DEF WithVote
<1>4. w = WithVote(c.votes, phase, s, c.round, v)
  OBVIOUS
<1> HIDE DEF w
<1>5. d = Voted(c, phase, w, lock)
  BY <1>0, <1>3 DEF Voted, Records
<1>6. OwnVote(s, c, phase, v, w)
  BY <1>0, <1>4, OwnVoteGrows
<1> QED
  BY <1>5, <1>6

\* The lock is the valid value of this round.
LEMMA PrecommitLockSound ==
  ASSUME NEW s \in Active, NEW c, Sound(s, c), c.step = "prevote", NEW v \in Values,
         c.valid = QuorumValue(c.round, v), NEW refused \in SUBSET Refusable,
         NEW d, d = signLocalVote(s, [c EXCEPT !.locked = QuorumValue(c.round, v)],
                                  "precommit", v, refused),
         Good(s, d)
  PROVE  Sound(s, d)
<1> DEFINE lock == QuorumValue(c.round, v)
<1>0. /\ c \in Records /\ Good(s, c) /\ Placed(s, c) /\ Intact(s, c)
      /\ "precommit" \in Phases /\ c.round \in Rounds /\ c.votes \in VoteTables
      /\ s \in Voters /\ v \in Ballots /\ v # None
  BY GoodRecord, ActiveVoter, RoundFacts DEF Sound, Ballots
<1>1. c.votes["precommit"][s][c.round] = None /\ c.votes["prevote"][s][c.round] # None
  BY <1>0 DEF Placed, PlacedVotes
<1>2. /\ lock \in QuorumValues /\ lock # NoQuorumValue /\ lock.round = c.round /\ lock.value = v
      /\ lock = QuorumValue(c.round, v) /\ c.valid = lock
  BY <1>0, RoundFacts DEF QuorumValues, QuorumValue, NoQuorumValue
<1> HIDE DEF lock
<1>3. ProofRestores(c, lock)
  BY <1>0, <1>2 DEF Intact, Locks
<1>4. proposalAt(c, c.round, v)
  BY <1>2, <1>3 DEF ProofRestores
<1>p. PICK ballot \in {v, Nil} :
         /\ \E w : OwnVote(s, c, "precommit", ballot, w) /\ d = Voted(c, "precommit", w, lock)
         /\ Admitting => ballot = v
  <2>1. d = signLocalVote(s, [c EXCEPT !.locked = lock], "precommit", v, refused)
    BY <1>2
  <2>2. CASE Admitting
    <3>1. refused = {}
      BY <2>2 DEF Admitting
    <3> QED
      BY <1>0, <1>1, <1>2, <1>4, <2>1, <3>1, SignValue
  <2>3. CASE ~Admitting
    BY <1>0, <1>1, <1>2, <2>1, <2>3, SignLocal
  <2> QED
    BY <2>2, <2>3
<1>b. ballot \in Ballots /\ ballot # None /\ (Admitting => ballot = v)
  BY <1>0, <1>p, RoundFacts DEF Ballots
<1>5. PICK w : OwnVote(s, c, "precommit", ballot, w) /\ d = Voted(c, "precommit", w, lock)
  BY <1>p
<1>6. /\ Extends(c, d) /\ d.votes = w /\ d.round = c.round /\ d.step = "precommit"
      /\ d.locked = lock /\ d.valid = lock
  BY <1>0, <1>2, <1>5, <1>b, VotedExtends
<1>7. ASSUME Admitting PROVE LockRestores(s, d)
  <2> DEFINE row == w["precommit"][s]
             committed == {r \in Rounds : row[r] \in Values}
  <2>1. row[c.round] = v /\ \A r \in Rounds : r > c.round => row[r] = None
    BY <1>0, <1>5, <1>7, <1>b DEF OwnVote, NoneAhead
  <2>2. c.round \in committed /\ \A r \in committed : ~(r > c.round)
    BY <1>0, <2>1, RoundFacts
  <2>3. \A r \in committed : c.round >= r
    <3>1. \A r \in committed : r \in Nat /\ c.round \in Nat
      BY <1>0, RoundFacts
    <3> QED
      BY <2>2, <3>1
  <2>4. Max(committed) = c.round
    <3>1. \A x \in committed : (\A r \in committed : x >= r) => x = c.round
      <4>1. \A x \in committed : x \in Nat /\ c.round \in Nat
        BY <1>0, RoundFacts
      <4> QED
        BY <2>2, <2>3, <4>1
    <3> HIDE DEF committed
    <3> QED
      BY <2>2, <2>3, <3>1 DEF Max
  <2>5. d.votes["precommit"][s] = row
    BY <1>6
  <2> HIDE DEF row
  <2>6. lock = QuorumValue(Max(committed), row[Max(committed)])
    BY <1>2, <2>1, <2>4
  <2>7. lock.round >= lock.round
    BY <1>0, <1>2, <2>2, <2>3
  <2> QED
    BY <1>2, <1>6, <2>1, <2>5, <2>6, <2>7 DEF LockRestores
<1>8. Locks(s, d)
  BY <1>2, <1>3, <1>6, <1>7, ProofExtends DEF Locks
<1>9. VotesStand(s, d)
  BY <1>0, <1>1, <1>5, <1>6, <1>b, RoundFacts DEF VotesStand, OwnVote
<1> QED
  BY <1>0, <1>5, <1>8, <1>9, <1>b, VotedIntact DEF Sound
-----------------------------------------------------------------------------
(***************************************************************************)
(* Driving a record.                                                       *)
(***************************************************************************)

LEMMA PrevoteProposalSound ==
  ASSUME NEW s \in Active, NEW c, Sound(s, c), NEW p \in Proposals, Backed(s, c.votes, p),
         NEW refused
  PROVE  Sound(s, prevoteProposal(s, c, p, refused))
<1> DEFINE accepts == \/ c.locked = NoQuorumValue
                      \/ c.locked.value = p.value
                      \/ p.validRound # 0 /\ p.validRound >= c.locked.round
           v == IF accepts THEN p.value ELSE Nil
           d == signLocalVote(s, c, "prevote", v, refused)
<1>1. Good(s, prevoteProposal(s, c, p, refused))
  BY PrevoteProposalGood DEF Sound
<1>2. CASE p.term # c.round \/ c.step # "propose"
  BY <1>2 DEF prevoteProposal
<1>3. CASE p.term = c.round /\ c.step = "propose"
  <2>1. prevoteProposal(s, c, p, refused) = d
    BY <1>3 DEF prevoteProposal
  <2>2. v \in Ballots
    BY DEF Proposals, Ballots
  <2> HIDE DEF v
  <2>3. d = signLocalVote(s, c, "prevote", v, refused) /\ Good(s, d)
    BY <1>1, <2>1
  <2> HIDE DEF d
  <2> QED
    BY <1>3, <2>1, <2>2, <2>3, PrevoteSound
<1> QED
  BY <1>2, <1>3

LEMMA DriveProposalSound ==
  ASSUME NEW s \in Active, NEW c, Sound(s, c), NEW refused
  PROVE  Sound(s, driveProposal(s, c, refused))
<1>0. Good(s, c)
  BY DEF Sound
<1>1. CASE c.step = "propose" /\ c.proposals[c.round] # <<>>
  <2> DEFINE list == c.proposals[c.round]
  <2>1. /\ c.round \in Rounds /\ list \in Seq(Proposals) /\ list # <<>>
        /\ KnownProposals(s, c.votes, c.proposals)
    BY <1>0, <1>1, GoodRecord DEF Known
  <2>2. 1 \in DOMAIN list /\ Head(list) = list[1] /\ list[1] \in Proposals
    BY <2>1
  <2>3. Backed(s, c.votes, Head(list))
    BY <2>1, <2>2 DEF KnownProposals
  <2> QED
    BY <1>1, <2>2, <2>3, PrevoteProposalSound DEF driveProposal
<1>2. CASE ~(c.step = "propose" /\ c.proposals[c.round] # <<>>)
  BY <1>2 DEF driveProposal
<1> QED
  BY <1>1, <1>2

\* The certificate of the current round is as new as anything.
LEMMA ValidSound ==
  ASSUME NEW s \in Active, NEW c, Sound(s, c), NEW v \in Values,
         proposalAt(c, c.round, v), quorumFor(c, c.round, "prevote", v),
         c.proposals[c.round] # <<>>,
         NEW d, d = [c EXCEPT !.valid = QuorumValue(c.round, v)]
  PROVE  /\ Sound(s, d) /\ d.round = c.round /\ d.step = c.step /\ d.votes = c.votes
         /\ d.valid = QuorumValue(c.round, v)
<1> DEFINE q == QuorumValue(c.round, v)
<1>0. /\ c \in Records /\ Good(s, c) /\ Intact(s, c) /\ c.round \in Rounds
      /\ c.locked \in QuorumValues
  BY GoodRecord DEF Sound
<1>1. q.round = c.round /\ q.value = v /\ q # NoQuorumValue
  BY <1>0, RoundFacts DEF QuorumValue, NoQuorumValue
<1>2. c.round \in Nat /\ c.round <= c.round
  <2>1. c.round \in Nat
    BY <1>0, RoundFacts
  <2> QED
    BY <2>1
<1>3. Good(s, d)
  <2>1. Backs(s, c.votes, "prevote", c.round, v)
    BY <1>0, RoundFacts, QuorumBacks
  <2> QED
    BY <1>0, <2>1, ValidGood
<1>q. q = QuorumValue(c.round, v)
  OBVIOUS
<1> HIDE DEF q
<1>4. /\ d.votes = c.votes /\ d.round = c.round /\ d.step = c.step /\ d.valid = q
      /\ d.locked = c.locked /\ d.proposals = c.proposals /\ d.hints = c.hints
      /\ d.timers = c.timers /\ d.inputKnown = c.inputKnown /\ d.unapplied = c.unapplied
      /\ d.halted = c.halted /\ d.pendingAccusation = c.pendingAccusation
      /\ d.provenOffender = c.provenOffender
  BY <1>0, <1>q DEF Records
<1>5. ProofRestores(d, d.valid)
  BY <1>1, <1>2, <1>4 DEF ProofRestores, proposalAt, quorumFor, SignersOf
<1>6. ProofRestores(d, d.locked)
  BY <1>0, <1>4 DEF Intact, Locks, ProofRestores, proposalAt, quorumFor, SignersOf
<1>7. ASSUME Admitting PROVE LockRestores(s, d)
  <2>1. LockRestores(s, c) /\ ProofRestores(c, c.locked)
    BY <1>0, <1>7 DEF Intact, Locks
  <2>2. c.locked # NoQuorumValue =>
          /\ c.locked.round \in Nat /\ c.locked.round <= c.round
          /\ quorumFor(c, c.locked.round, "prevote", c.locked.value)
    BY <1>0, <2>1, RoundFacts DEF ProofRestores, QuorumValues
  <2>3. c.locked # NoQuorumValue =>
          /\ c.round >= c.locked.round
          /\ c.round = c.locked.round => v = c.locked.value
    BY <1>2, <2>2, QuorumOnce
  <2> QED
    BY <1>1, <1>4, <2>1, <2>3 DEF LockRestores
<1>8. VotesStand(s, d) /\ TimersRestore(d) /\ HaltStands(d)
  BY <1>0, <1>4 DEF Intact, VotesStand, TimersRestore, HaltStands, anyQuorum
<1> QED
  BY <1>0, <1>3, <1>4, <1>5, <1>6, <1>7, <1>8, <1>q DEF Sound, Intact, Locks

\* There is no other certificate of the current round.
LEMMA ValidAlready ==
  ASSUME NEW s \in Active, NEW c, Sound(s, c), NEW v \in Values,
         quorumFor(c, c.round, "prevote", v), ~(c.valid.round < c.round)
  PROVE  c.valid = QuorumValue(c.round, v)
<1>0. c.valid \in QuorumValues /\ c.round \in Rounds /\ ProofRestores(c, c.valid)
  BY GoodRecord DEF Sound, Intact, Locks
<1>1. c.round \in Nat /\ c.round > 0
  BY <1>0, RoundFacts DEF Rounds
<1>2. c.valid # NoQuorumValue
  BY <1>1 DEF NoQuorumValue
<1>3. c.valid \in [round : Rounds, value : Values]
  BY <1>0, <1>2 DEF QuorumValues
<1>4. c.valid.round <= c.round /\ quorumFor(c, c.valid.round, "prevote", c.valid.value)
  BY <1>0, <1>2 DEF ProofRestores
<1>5. c.valid.round = c.round
  <2>1. c.valid.round \in Nat
    BY <1>3, RoundFacts
  <2> QED
    BY <1>1, <1>4, <2>1
<1>6. c.valid.value = v
  BY <1>4, <1>5, QuorumOnce
<1> QED
  BY <1>3, <1>5, <1>6 DEF QuorumValue

LEMMA DrivePrevotesSound ==
  ASSUME NEW s \in Active, NEW c, Sound(s, c), NEW refused \in SUBSET Refusable
  PROVE  Sound(s, drivePrevotes(s, c, refused))
<1> DEFINE certified == {p \in ToSet(c.proposals[c.round]) :
                            quorumFor(c, c.round, "prevote", p.value)}
           p == CHOOSE x \in certified : TRUE
           v == p.value
           valid == [c EXCEPT !.valid = QuorumValue(c.round, v)]
           w == IF c.valid.round < c.round THEN valid ELSE c
           locks == c.step = "prevote" /\ c.votes["precommit"][s][c.round] = None
           d == signLocalVote(s, [w EXCEPT !.locked = QuorumValue(c.round, v)],
                              "precommit", v, refused)
<1>0. Good(s, drivePrevotes(s, c, refused)) /\ Good(s, c)
  BY DrivePrevotesGood DEF Sound
<1>1. CASE certified = {}
  BY <1>1 DEF drivePrevotes
<1>2. CASE certified # {}
  <2>1. p \in certified
    BY <1>2
  <2>2. /\ c.round \in Rounds /\ c.proposals[c.round] # <<>> /\ v \in Values
        /\ quorumFor(c, c.round, "prevote", v) /\ proposalAt(c, c.round, v)
    <3>1. c.round \in Rounds /\ c.proposals[c.round] \in Seq(Proposals)
      BY <1>0, GoodRecord
    <3> HIDE DEF p
    <3>2. PICK i \in DOMAIN c.proposals[c.round] : p = c.proposals[c.round][i]
      BY <2>1 DEF ToSet
    <3>3. p \in Proposals /\ c.proposals[c.round] # <<>>
      BY <3>1, <3>2
    <3> QED
      BY <2>1, <3>1, <3>3 DEF Proposals, proposalAt
  <2>3. drivePrevotes(s, c, refused) = IF locks THEN d ELSE w
    BY <1>2 DEF drivePrevotes
  <2> HIDE DEF v, p, certified
  <2>4. /\ Sound(s, w) /\ w.round = c.round /\ w.step = c.step /\ w.votes = c.votes
        /\ w.valid = QuorumValue(c.round, v)
    <3>1. CASE c.valid.round < c.round
      <4>1. valid = [c EXCEPT !.valid = QuorumValue(c.round, v)] /\ w = valid
        BY <3>1
      <4> HIDE DEF valid, w
      <4>2. /\ Sound(s, valid) /\ valid.round = c.round /\ valid.step = c.step
            /\ valid.votes = c.votes /\ valid.valid = QuorumValue(c.round, v)
        BY <2>2, <4>1, ValidSound
      <4> QED
        BY <4>1, <4>2
    <3>2. CASE ~(c.valid.round < c.round)
      BY <2>2, <3>2, ValidAlready
    <3> QED
      BY <3>1, <3>2
  <2> HIDE DEF w
  <2>5. ASSUME locks PROVE Sound(s, d)
    <3>1. /\ w.step = "prevote" /\ w.valid = QuorumValue(w.round, v)
          /\ d = signLocalVote(s, [w EXCEPT !.locked = QuorumValue(w.round, v)],
                               "precommit", v, refused)
          /\ Good(s, d)
      BY <1>0, <2>3, <2>4, <2>5
    <3> HIDE DEF d
    <3> QED
      BY <2>2, <2>4, <3>1, PrecommitLockSound
  <2> QED
    BY <2>3, <2>4, <2>5
<1> QED
  BY <1>1, <1>2

LEMMA DriveNilSound ==
  ASSUME NEW s \in Active, NEW c, Sound(s, c)
  PROVE  Sound(s, driveNil(s, c))
<1>1. Good(s, c) /\ Good(s, driveNil(s, c))
  BY DriveNilGood DEF Sound
<1>2. CASE c.step = "prevote" /\ quorumFor(c, c.round, "prevote", Nil)
  <2> DEFINE d == signLocalVote(s, c, "precommit", Nil, {})
  <2>1. driveNil(s, c) = d /\ d = signLocalVote(s, c, "precommit", Nil, {})
    BY <1>2 DEF driveNil
  <2> HIDE DEF d
  <2> QED
    BY <1>1, <1>2, <2>1, PrecommitNilSound
<1>3. CASE ~(c.step = "prevote" /\ quorumFor(c, c.round, "prevote", Nil))
  BY <1>3 DEF driveNil
<1> QED
  BY <1>2, <1>3

LEMMA DriveSound ==
  ASSUME NEW s \in Active, NEW c, Sound(s, c), NEW refused \in SUBSET Refusable
  PROVE  Sound(s, drive(s, c, refused))
<1> DEFINE c0 == maybeCommit(s, c)
           c1 == driveProposal(s, c0, refused)
           c2 == drivePrevotes(s, c1, refused)
           c3 == driveTimers(driveNil(s, c2))
<1>1. Sound(s, c0)
  BY MaybeCommitSound
<1>2. Sound(s, c1)
  BY <1>1, DriveProposalSound
<1>3. Sound(s, c2)
  BY <1>2, DrivePrevotesSound
<1>4. Sound(s, maybeCommit(s, c3))
  BY <1>3, DriveNilSound, DriveTimersSound, MaybeCommitSound
<1> QED
  BY <1>1, <1>4 DEF drive
-----------------------------------------------------------------------------
(***************************************************************************)
(* The reducers.                                                           *)
(***************************************************************************)

SoundInv == Inv /\ \A s \in Active : Intact(s, rec[s])

LEMMA OwnSound ==
  ASSUME NEW s \in Active, SoundInv
  PROVE  Sound(s, rec[s])
BY DEF SoundInv, Inv, Sound

\* Keeping an accusation does not change the input.
LEMMA RetainInput ==
  ASSUME NEW s, NEW c \in Records, NEW o, NEW foreign
  PROVE  retainAccusation(s, c, o, foreign).inputKnown = c.inputKnown
BY DEF retainAccusation, halt, terminalFault, Records

LEMMA ProposeSound ==
  ASSUME NEW s \in Active, SoundInv, NEW candidate \in Values,
         NEW refused \in SUBSET Refusable, NEW foreign
  PROVE  Sound(s, propose(s, rec[s], candidate, refused, foreign))
<1> DEFINE c == rec[s]
           value == IF c.valid # NoQuorumValue THEN c.valid.value ELSE candidate
           p == [term |-> c.round, value |-> value, validRound |-> c.valid.round]
           known == [c EXCEPT !.inputKnown = TRUE]
           retained == IF Offender[value] = None THEN known
                       ELSE retainAccusation(s, known, Offender[value], foreign)
           noted == recordProposal(retained, p)
           stays == \/ c.decision # None \/ c.halted # None \/ c.step # "propose"
                    \/ Proposer(c.round) # s
                    \/ c.proposals[c.round] # <<>>
                    \/ ~Validates(s, value)
<1>0. /\ Sound(s, c) /\ Good(s, c) /\ c \in Records /\ c.round \in Rounds
      /\ c.valid \in QuorumValues /\ KnownValid(s, c.votes, c.proposals, c.round, c.valid)
  BY OwnSound, GoodRecord DEF Sound, Known
<1>1. value \in Values
  BY <1>0 DEF QuorumValues
<1>2. ASSUME ~stays
      PROVE  p \in Proposals /\ Backed(s, c.votes, p) /\ p.term = c.round
  BY <1>0, <1>2, OwnProposal
<1>3. propose(s, c, candidate, refused, foreign) =
         IF stays THEN c
         ELSE IF retained.halted # None THEN retained
         ELSE drive(s, prevoteProposal(s, noted, p, refused), refused)
  BY DEF propose
<1>4. Sound(s, known) /\ Same(c, known) /\ known \in Records /\ known.inputKnown
  BY <1>0, InputSound, InputSame DEF Same, Records
<1>5. Sound(s, retained) /\ Same(c, retained) /\ retained.inputKnown
  <2> HIDE DEF value, known
  <2>1. Offender[value] # None =>
           /\ Sound(s, retainAccusation(s, known, Offender[value], foreign))
           /\ Same(known, retainAccusation(s, known, Offender[value], foreign))
           /\ retainAccusation(s, known, Offender[value], foreign).inputKnown
    BY <1>1, <1>4, AccusedFacts, RetainSame, RetainSound, RetainInput
  <2> QED
    BY <1>4, <2>1, SameTwice
<1>6. /\ retained.votes = c.votes /\ retained.round = c.round
      /\ retained.proposals = c.proposals
  BY <1>5 DEF Same
<1>7. ASSUME ~stays PROVE Sound(s, drive(s, prevoteProposal(s, noted, p, refused), refused))
  <2>1. /\ p \in Proposals /\ Backed(s, c.votes, p) /\ p.term <= retained.round
        /\ c.proposals[p.term] = <<>>
    <3>1. p \in Proposals /\ Backed(s, c.votes, p) /\ p.term = c.round
      BY <1>2, <1>7
    <3>2. c.round <= c.round
      <4>1. c.round \in Nat
        BY <1>0, RoundFacts
      <4> QED
        BY <4>1
    <3> QED
      BY <1>6, <1>7, <3>1, <3>2
  <2> HIDE DEF p, retained, c
  <2>2. Sound(s, noted)
    BY <1>5, <1>6, <2>1, RecordProposalSound
  <2>3. Backed(s, noted.votes, p)
    BY <1>5, <1>6, <2>1, RecordProposalGood DEF Untouched, Sound
  <2> HIDE DEF noted
  <2> QED
    BY <2>1, <2>2, <2>3, PrevoteProposalSound, DriveSound
<1> HIDE DEF stays, retained, noted, p
<1> QED
  BY <1>0, <1>3, <1>5, <1>7

\* No proposal of a later round is known, so none of s itself is received.
LEMMA ReceiveRoundSound ==
  ASSUME NEW s \in Active, SoundInv, NEW c, Sound(s, c), Unvoted(s, c.votes, c.locked),
         c.inputKnown, NEW p \in Proposals, Proposed(p), NEW refused \in SUBSET Refusable,
         Proposer(p.term) = s => proposalAt(c, p.term, p.value)
  PROVE  Sound(s, receiveRound(s, c, p, refused))
<1> DEFINE hint == ProposalHint(p)
           hinted == addHint(c, Proposer(p.term), hint)
           c1 == IF p.term > c.round THEN maybeJump(s, hinted) ELSE c
           c2 == recordProposal(c1, p)
           c3 == haltIfFaultThresholdExceeded(s, c2)
           c4 == IF c3.decision # None THEN c3 ELSE prevoteProposal(s, c3, p, refused)
<1>0. /\ Inv /\ Good(s, c) /\ p.term \in Rounds /\ PlacedProposals(c.round, c.proposals)
  BY GoodRecord DEF SoundInv, Sound, Placed, Proposals
<1>1. p.term > c.round => Proposer(p.term) # s
  BY <1>0 DEF PlacedProposals, proposalAt, ToSet
<1>2. ASSUME p.term > c.round
      PROVE  /\ Sound(s, hinted) /\ Unvoted(s, hinted.votes, hinted.locked)
             /\ hinted.inputKnown
  <2>1. /\ Proposer(p.term) \in Voters /\ hint \in ProposalHints
        /\ KnownHint(s, c.votes, Proposer(p.term), hint)
    BY <1>0, ProposalHinted
  <2>2. hint.round = p.term /\ Proposer(p.term) # s
    BY <1>1, <1>2 DEF ProposalHint
  <2> HIDE DEF hint
  <2> QED
    BY <1>2, <2>1, <2>2, AddHintSound DEF Untouched
<1> HIDE DEF hinted
<1>3. Sound(s, c1) /\ c1.inputKnown
  BY <1>0, <1>2, MaybeJumpSound
<1>4. receiveRound(s, c, p, refused) =
         IF p.term > c1.round THEN c1
         ELSE IF ~proposalAt(c2, p.term, p.value) THEN c2
         ELSE IF c3.halted # None THEN c3
         ELSE drive(s, c4, refused)
  BY DEF receiveRound, hinted
<1>5. Proposer(p.term) = s => c1.proposals[p.term] = <<>> \/ proposalAt(c1, p.term, p.value)
  BY <1>1
<1> HIDE DEF c1
<1>6. ASSUME ~(p.term > c1.round)
      PROVE  Sound(s, c2) /\ Sound(s, c3) /\ Sound(s, drive(s, c4, refused))
  <2>1. p.term <= c1.round
    <3>1. p.term \in Nat /\ c1.round \in Nat
      <4>1. p.term \in Rounds /\ c1.round \in Rounds
        BY <1>3, GoodRecord DEF Proposals, Sound
      <4> QED
        BY <4>1, RoundFacts
    <3> QED
      BY <1>6, <3>1
  <2>2. Backed(s, c1.votes, p)
    BY <1>0, <1>3, ProposedBacked, BackedLater DEF Sound
  <2>3. Sound(s, c2)
    BY <1>3, <1>5, <2>1, <2>2, RecordProposalSound
  <2>4. c2.votes = c1.votes
    BY <1>3, <2>1, <2>2, RecordProposalGood DEF Untouched, Sound
  <2> HIDE DEF c2
  <2>5. Sound(s, c3) /\ c3.votes = c2.votes
    BY <2>3, GoodRecord, ThresholdSound, ThresholdSame DEF Same, Sound
  <2> HIDE DEF c3
  <2>6. Sound(s, c4)
    BY <2>2, <2>4, <2>5, PrevoteProposalSound
  <2> HIDE DEF c4
  <2> QED
    BY <2>3, <2>5, <2>6, DriveSound
<1> QED
  BY <1>3, <1>4, <1>6

LEMMA ReceiveProposalSound ==
  ASSUME NEW s \in Active, SoundInv, NEW p \in Proposals, Proposed(p), NEW signers,
         NEW refused \in SUBSET Refusable, NEW foreign
  PROVE  Sound(s, receiveProposal(s, rec[s], p, signers, refused, foreign))
<1> DEFINE c == rec[s]
           o == Offender[p.value]
           c1 == IF o = None THEN c ELSE retainAccusation(s, c, o, foreign)
           known == [c1 EXCEPT !.inputKnown = TRUE]
<1>0. /\ Sound(s, c) /\ Good(s, c) /\ Unvoted(s, c.votes, c.locked) /\ c \in Records
      /\ p.value \in Values /\ c.hints[s] = NoHint
  BY OwnSound, OwnGood DEF SoundInv, Sound, Intact, HintsStand, Proposals
<1>1. \/ receiveProposal(s, c, p, signers, refused, foreign)
            \in {terminalFault(c), c, c1, halt(c1)}
      \/ /\ receiveProposal(s, c, p, signers, refused, foreign)
               = receiveRound(s, known, p, refused)
         /\ ~UnrecordedOwnProposal(s, c1, p)
  BY DEF receiveProposal
<1>2. Same(c, c1) /\ Sound(s, c1)
  <2>1. o # None => o \in Accusable
    BY <1>0, AccusedFacts
  <2> QED
    BY <1>0, <2>1, HaltSame, RetainSame, RetainSound
<1> HIDE DEF c1
<1>3. c1 \in Records
  BY <1>2 DEF Same
<1>4. Sound(s, known) /\ Same(c, known) /\ known.inputKnown /\ Same(c1, known)
  BY <1>2, <1>3, InputSound, InputSame, SameTwice DEF Records
<1> HIDE DEF known
<1>5. Unvoted(s, known.votes, known.locked)
  BY <1>0, <1>4 DEF Same
<1>6. ~UnrecordedOwnProposal(s, c1, p) =>
         (Proposer(p.term) = s => proposalAt(known, p.term, p.value))
  <2>1. c1.hints[s].kind # "proposal"
    BY <1>0, <1>2 DEF Same, NoHint
  <2>2. proposalAt(c1, p.term, p.value) => proposalAt(known, p.term, p.value)
    BY <1>4 DEF Same, proposalAt
  <2> QED
    BY <2>1, <2>2 DEF UnrecordedOwnProposal
<1>7. ~UnrecordedOwnProposal(s, c1, p) => Sound(s, receiveRound(s, known, p, refused))
  BY <1>4, <1>5, <1>6, ReceiveRoundSound
<1> QED
  BY <1>0, <1>1, <1>2, <1>7, HaltSound

LEMMA ReceiveVoteSound ==
  ASSUME NEW s \in Active, SoundInv, NEW t \in Voters, NEW r \in Rounds, NEW phase \in Phases,
         NEW ballot \in Ballots, Signed(t, r, phase, ballot), NEW refused \in SUBSET Refusable
  PROVE  Sound(s, receiveVote(s, rec[s], t, r, phase, ballot, refused))
<1> DEFINE c == rec[s]
           hint == VoteHint(r, phase, ballot)
           hinted == addHint(c, t, hint)
           c1 == IF r > c.round THEN maybeJump(s, hinted) ELSE c
           c2 == haltIfFaultThresholdExceeded(s, recordVote(c1, t, r, phase, ballot))
<1>0. /\ Inv /\ Sound(s, c) /\ Unvoted(s, c.votes, c.locked) /\ c \in Records
      /\ c.round \in Rounds /\ NoneAhead(c.round, c.votes) /\ ballot # None
  BY OwnSound, OwnGood, GoodRecord, RoundFacts
     DEF SoundInv, Sound, Placed, PlacedVotes, Ballots
<1>1. receiveVote(s, c, t, r, phase, ballot, refused) =
         IF t = s /\ c.votes[phase][s][r] # ballot THEN halt(c)
         ELSE IF c.halted # None THEN c
         ELSE IF r > c1.round THEN c1
         ELSE IF c2.halted # None THEN c2
         ELSE drive(s, c2, refused)
  BY DEF receiveVote
<1>2. ASSUME ~(t = s /\ c.votes[phase][s][r] # ballot)
      PROVE  /\ Sound(s, c1)
             /\ ~(r > c1.round) => Sound(s, c2) /\ Sound(s, drive(s, c2, refused))
  <2>1. r > c.round => t # s
    BY <1>0, <1>2 DEF NoneAhead
  <2>2. t \notin Byzantine => t \in Active /\ rec[t].votes[phase][t][r] = ballot
    BY DEF Signed
  <2>3. r > c.round => Sound(s, hinted) /\ Unvoted(s, hinted.votes, hinted.locked)
    <3>1. hint \in VoteHints /\ hint.round = r /\ hint.kind # "proposal"
      BY DEF VoteHint, VoteHints
    <3>2. r > c.round => KnownHint(s, c.votes, t, hint)
      BY <2>1, <2>2 DEF KnownHint, VoteHint
    <3> HIDE DEF hint
    <3> QED
      BY <1>0, <2>1, <3>1, <3>2, AddHintSound DEF Untouched
  <2>4. Sound(s, c1)
    BY <1>0, <2>3, MaybeJumpSound
  <2>5. t = s => c1.votes[phase][s][r] = ballot
    BY <1>2, <2>1
  <2> HIDE DEF c1
  <2>6. ASSUME ~(r > c1.round) PROVE Sound(s, c2) /\ Sound(s, drive(s, c2, refused))
    <3>1. r <= c1.round
      <4>1. r \in Nat /\ c1.round \in Nat
        BY <2>4, GoodRecord, RoundFacts DEF Sound
      <4> QED
        BY <2>6, <4>1
    <3>2. Sound(s, recordVote(c1, t, r, phase, ballot))
      BY <2>2, <2>4, <2>5, <3>1, RecordVoteSound
    <3>3. Sound(s, c2)
      BY <3>2, ThresholdSound
    <3> HIDE DEF c2
    <3> QED
      BY <3>3, DriveSound
  <2> QED
    BY <2>4, <2>6
<1> HIDE DEF c1, c2
<1> QED
  BY <1>0, <1>1, <1>2, HaltSound

LEMMA ReceiveCommitSound ==
  ASSUME NEW s \in Active, SoundInv, NEW r \in Rounds, NEW value \in Values,
         NEW signers \in CertificatesFor(r, "precommit", value)
  PROVE  Sound(s, receiveCommit(s, rec[s], r, value, signers))
<1> DEFINE c == rec[s]
           d == [c EXCEPT !.decision = value]
<1>0. Sound(s, c)
  BY OwnSound
<1>1. \/ receiveCommit(s, c, r, value, signers) \in {halt(c), terminalFault(c), c, d}
      \/ /\ value \in Rejects[s]
         /\ receiveCommit(s, c, r, value, signers) = haltForCertifiedValue(c, value)
  BY DEF receiveCommit
<1>2. Good(s, receiveCommit(s, c, r, value, signers))
  BY ReceiveCommitGood DEF SoundInv
<1>3. Intact(s, d)
  BY <1>0, DecidedIntact
<1>4. value \in Rejects[s] => Intact(s, haltForCertifiedValue(c, value))
  BY <1>0, KeptIntact
<1> HIDE DEF c, d
<1>5. Sound(s, halt(c)) /\ Sound(s, terminalFault(c))
  BY <1>0, HaltSound
<1> QED
  BY <1>0, <1>1, <1>2, <1>3, <1>4, <1>5 DEF Sound, c

LEMMA TimeoutSound ==
  ASSUME NEW s \in Active, SoundInv, NEW phase \in Timers, NEW refused \in SUBSET Refusable,
         phase = "precommit" => rec[s].round < MaxRound
  PROVE  Sound(s, timeout(s, rec[s], phase, refused))
<1> DEFINE c == rec[s]
           signed == signLocalVote(s, c, "prevote", Nil, {})
           prevoted == IF c.step = "propose" THEN signed ELSE c
           nothing == signLocalVote(s, prevoted, "precommit", Nil, {})
           left == enterRound(s, c, c.round + 1)
<1>0. /\ Sound(s, c) /\ Good(s, c) /\ Unvoted(s, c.votes, c.locked) /\ c \in Records
      /\ c.round \in Rounds /\ PlacedTimers(c.timers, c.round, c.votes)
  BY OwnSound, OwnGood, GoodRecord DEF SoundInv, Sound, Placed
<1>1. \/ timeout(s, c, phase, refused) = c
      \/ c.step = "propose" /\ timeout(s, c, phase, refused) = drive(s, prevoted, refused)
      \/ /\ c.step \in {"propose", "prevote"}
         /\ timeout(s, c, phase, refused) = drive(s, nothing, refused)
      \/ /\ phase = "precommit" /\ phase \in c.timers
         /\ timeout(s, c, phase, refused) = drive(s, left, refused)
  BY DEF timeout, Timers, Phases
<1>2. c.step \in {"propose", "prevote"} => Sound(s, prevoted) /\ prevoted.step = "prevote"
  <2>1. c.step = "propose" => Good(s, signed) /\ signed.step = "prevote"
    BY <1>0, PrevoteGood
  <2>2. signed = signLocalVote(s, c, "prevote", Nil, {}) /\ Nil \in Ballots
    BY DEF Ballots
  <2> HIDE DEF signed, c
  <2>3. c.step = "propose" => Sound(s, signed)
    BY <1>0, <2>1, <2>2, PrevoteSound
  <2> QED
    BY <1>0, <2>1, <2>3
<1> HIDE DEF prevoted
<1>3. c.step \in {"propose", "prevote"} => Sound(s, nothing)
  <2>1. c.step \in {"propose", "prevote"} => Good(s, prevoted) /\ Good(s, nothing)
    BY <1>2, PrecommitNilGood DEF Sound
  <2>2. nothing = signLocalVote(s, prevoted, "precommit", Nil, {})
    OBVIOUS
  <2> HIDE DEF nothing, c
  <2> QED
    BY <1>2, <2>1, <2>2, PrecommitNilSound
<1>4. ASSUME phase = "precommit", phase \in c.timers PROVE Sound(s, left)
  <2>1. c.round + 1 \in Rounds
    BY <1>0, <1>4, ConsensusAssumption DEF Rounds
  <2>2. anyQuorum(c, c.round, "precommit")
    BY <1>0, <1>4 DEF PlacedTimers, anyQuorum, Present
  <2>3. Earned(s, c.round + 1)
    BY <2>2 DEF Earned
  <2>4. Good(s, left)
    BY <1>0, <2>1, <2>3, EnterRoundGood
  <2> QED
    BY <1>0, <2>1, <2>4, EnterRoundSound
<1> HIDE DEF nothing, left
<1> QED
  BY <1>0, <1>1, <1>2, <1>3, <1>4, DriveSound

LEMMA RestoredSound ==
  ASSUME NEW s \in Active, NEW c, Sound(s, c)
  PROVE  Sound(s, restored(s, c))
BY HaltSound DEF restored

LEMMA ResumeSound ==
  ASSUME NEW s \in Active, SoundInv
  PROVE  Sound(s, resumeAfterReplay(s, rec[s]))
<1> DEFINE c == rec[s]
           d == [c EXCEPT !.decision = c.unapplied, !.halted = None, !.unapplied = None]
<1>0. /\ Sound(s, c) /\ c \in Records /\ Intact(s, c) /\ TimersRestore(c) /\ HaltStands(c)
  BY OwnSound, GoodRecord DEF Sound, Intact
<1>1. resumeAfterReplay(s, c) \in {c, terminalFault(c), d}
  BY DEF resumeAfterReplay
<1>2. Good(s, resumeAfterReplay(s, c))
  BY ResumeGood DEF SoundInv
<1>3. None # "certified-validation"
  BY ConsensusAssumption
<1>4. Alike(c, d) /\ d.timers = c.timers /\ HaltStands(d)
  BY <1>0, <1>3 DEF Alike, HaltStands, Records
<1>5. Intact(s, d)
  BY <1>0, <1>4, TimersAlike, AlikeIntact
<1> HIDE DEF d
<1> QED
  BY <1>0, <1>1, <1>2, <1>5, HaltSound DEF Sound
-----------------------------------------------------------------------------
(***************************************************************************)
(* Every record that is installed can be restored.                         *)
(***************************************************************************)

LEMMA InitSound == Init => SoundInv
<1> SUFFICES ASSUME Init PROVE SoundInv
  OBVIOUS
<1>1. PICK o \in [Active -> Carried], pending \in [Active -> BOOLEAN] :
         rec = [s \in Active |-> InitialRecord(s, o[s], IF pending[s] THEN o[s] ELSE None)]
  BY DEF Init
<1>2. ASSUME NEW s \in Active PROVE Intact(s, rec[s])
  <2> DEFINE later == IF pending[s] THEN o[s] ELSE None
             c == InitialRecord(s, o[s], later)
             halted == IF s \in excluded \/ (o[s] # None /\ (o[s] = s \/ excluded \ {o[s]} # {}))
                       THEN "terminal" ELSE None
             none == [phase \in Phases |-> [t \in Voters |-> [r \in Rounds |-> None]]]
             nobody == [t \in Voters |-> NoHint]
             empty == [r \in Rounds |-> <<>>]
  <2>1. rec[s] = c /\ s \in Voters
    BY <1>1, ActiveVoter
  <2>2. later \in {None, o[s]} /\ halted # "certified-validation"
    BY ConsensusAssumption
  <2>3. \A r \in Rounds : none["precommit"][s][r] = None
    BY <2>1, RoundFacts
  <2>4. \A t \in Voters : nobody[t] = NoHint
    OBVIOUS
  <2>5. \A r \in Rounds : empty[r] = <<>>
    OBVIOUS
  <2>6. c = [round |-> 1, step |-> "propose", inputKnown |-> FALSE, timers |-> {},
             proposals |-> empty, votes |-> none, hints |-> nobody,
             equivocations |-> {}, pendingAccusation |-> later, provenOffender |-> o[s],
             locked |-> NoQuorumValue, valid |-> NoQuorumValue,
             decision |-> None, unapplied |-> None, halted |-> halted]
    BY DEF InitialRecord
  <2> HIDE DEF later, halted, none, nobody, empty, c
  <2>7. /\ c.round = 1 /\ c.step = "propose" /\ c.timers = {} /\ c.proposals = empty
        /\ c.votes = none /\ c.hints = nobody /\ c.valid = NoQuorumValue
        /\ c.locked = NoQuorumValue /\ c.unapplied = None /\ c.halted = halted
        /\ c.pendingAccusation = later /\ c.provenOffender = o[s]
    BY <2>6
  <2>8. Locks(s, c)
    <3>1. {r \in Rounds : none["precommit"][s][r] \in Values} = {}
      BY <2>3, RoundFacts
    <3> QED
      BY <2>7, <3>1 DEF Locks, ProofRestores, LockRestores
  <2>9. HintsStand(s, 1, nobody) /\ ListsStand(s, empty) /\ InputStands(c.inputKnown, empty, nobody)
    BY <2>1, <2>4, <2>5 DEF HintsStand, ListsStand, InputStands, NoHint
  <2>10. VotesStand(s, c) /\ TimersRestore(c) /\ HaltStands(c)
    BY <2>2, <2>7 DEF VotesStand, TimersRestore, HaltStands
  <2> QED
    BY <2>1, <2>7, <2>8, <2>9, <2>10 DEF Intact
<1> QED
  BY <1>2, InitInv DEF SoundInv

\* A step installs a record that is sound.
LEMMA NextInstallsSound ==
  ASSUME SoundInv, Next
  PROVE  \E s \in Active : \E c : Install(s, c) /\ Sound(s, c)
<1>1. PICK s \in Active :
        \/ Restart(s) \/ InputAvailable(s) \/ StageAccusation(s) \/ ClearStaleAccusation(s)
        \/ ResumeAfterReplay(s) \/ TerminalHalt(s) \/ ReceiveCommit(s)
        \/ \E refused \in SUBSET Refusable :
              \/ Propose(s, refused) \/ ReceiveProposal(s, refused) \/ ReceiveVote(s, refused)
              \/ \E phase \in Timers : Timeout(s, phase, refused)
  BY DEF Next
<1> SUFFICES \E c : Install(s, c) /\ Sound(s, c)
  OBVIOUS
<1>g. Sound(s, rec[s])
  BY OwnSound
<1>2. CASE Restart(s)
  BY <1>2, <1>g, RestoredSound DEF Restart
<1>3. CASE InputAvailable(s)
  BY <1>3, <1>g, InputSound DEF InputAvailable
<1>4. CASE StageAccusation(s)
  BY <1>4, <1>g, RetainSound DEF StageAccusation
<1>5. CASE ClearStaleAccusation(s)
  BY <1>5, <1>g, ClearSound DEF ClearStaleAccusation
<1>6. CASE ResumeAfterReplay(s)
  BY <1>6, ResumeSound DEF ResumeAfterReplay
<1>7. CASE TerminalHalt(s)
  BY <1>7, <1>g, HaltSound DEF TerminalHalt
<1>8. CASE ReceiveCommit(s)
  BY <1>8, ReceiveCommitSound DEF ReceiveCommit
<1>9. ASSUME NEW refused \in SUBSET Refusable, Propose(s, refused)
      PROVE  \E c : Install(s, c) /\ Sound(s, c)
  BY <1>9, ProposeSound DEF Propose
<1>10. ASSUME NEW refused \in SUBSET Refusable, ReceiveProposal(s, refused)
       PROVE  \E c : Install(s, c) /\ Sound(s, c)
  BY <1>10, ReceiveProposalSound DEF ReceiveProposal
<1>11. ASSUME NEW refused \in SUBSET Refusable, ReceiveVote(s, refused)
       PROVE  \E c : Install(s, c) /\ Sound(s, c)
  BY <1>11, ReceiveVoteSound DEF ReceiveVote
<1>12. ASSUME NEW refused \in SUBSET Refusable, NEW phase \in Timers, Timeout(s, phase, refused)
       PROVE  \E c : Install(s, c) /\ Sound(s, c)
  BY <1>12, TimeoutSound DEF Timeout
<1> QED
  BY <1>1, <1>2, <1>3, <1>4, <1>5, <1>6, <1>7, <1>8, <1>9, <1>10, <1>11, <1>12

\* Intact speaks of one record and of the exclusions only.
LEMMA IntactStays ==
  ASSUME excluded' = excluded, NEW t \in Active, NEW c, Intact(t, c), rec'[t] = c
  PROVE  Intact(t, rec[t])'
BY DEF Intact, Locks, ProofRestores, LockRestores, proposalAt, quorumFor, SignersOf,
       VotesStand, TimersRestore, anyQuorum, HintsStand, ListsStand, InputStands, HaltStands,
       Proposer

LEMMA NextSound ==
  ASSUME SoundInv, [Next]_vars
  PROVE  SoundInv'
<1>1. Inv'
  BY NextInv DEF SoundInv
<1>2. ASSUME NEW t \in Active PROVE Intact(t, rec[t])'
  <2>0. PICK x : x = rec[t]
    OBVIOUS
  <2>1. Intact(t, x)
    BY <2>0 DEF SoundInv
  <2>2. CASE Next
    <3>1. PICK s \in Active : \E c : Install(s, c) /\ Sound(s, c)
      BY <2>2, NextInstallsSound
    <3>2. PICK c : Install(s, c) /\ Sound(s, c)
      BY <3>1
    <3>3. /\ rec' = [rec EXCEPT ![s] = c] /\ excluded' = excluded
          /\ rec = [u \in Active |-> rec[u]]
      BY <3>2 DEF Install, SoundInv, Inv
    <3>4. rec'[s] = c /\ (t # s => rec'[t] = x)
      BY <2>0, <3>3
    <3>5. CASE t = s
      BY <3>2, <3>3, <3>4, <3>5, IntactStays DEF Sound
    <3>6. CASE t # s
      BY <2>1, <3>3, <3>4, <3>6, IntactStays
    <3> QED
      BY <3>5, <3>6
  <2>3. CASE UNCHANGED vars
    <3>1. rec'[t] = x /\ excluded' = excluded
      BY <2>0, <2>3 DEF vars
    <3> QED
      BY <2>1, <3>1, IntactStays
  <2> QED
    BY <2>2, <2>3
<1> QED
  BY <1>1, <1>2 DEF SoundInv

\* Every transition leaves a record whose parts fit each other, whatever the
\* other voters sign.
THEOREM RecordsAreSound == Spec => []SoundInv
<1>1. SoundInv /\ [Next]_vars => SoundInv'
  BY NextSound
<1> QED
  BY InitSound, <1>1, PTL DEF Spec

\* Where no local policy refuses a value between the two votes of a voter and
\* no engine declines a certified value, restoreConsensusState accepts every
\* record that was ever persisted.
THEOREM RestartsAlways ==
  ASSUME Admitting, Validating
  PROVE  Spec => []AlwaysRestorable
<1>1. SoundInv => AlwaysRestorable
  BY OwnSound, SoundRestores DEF AlwaysRestorable
<1> QED
  BY RecordsAreSound, <1>1, PTL

\* An honest proposer signs one proposal in a round, with a justification that
\* every receiver can verify.
THEOREM ProposalsAreJustified ==
  ASSUME Honest \subseteq Active
  PROVE  Spec => []HonestProposalIsJustified
<1>1. SoundInv => HonestProposalIsJustified
  <2> SUFFICES ASSUME SoundInv, NEW s \in Honest, NEW r \in Rounds, Proposer(r) = s
               PROVE  /\ Len(rec[s].proposals[r]) <= 1
                      /\ \A p \in ToSet(rec[s].proposals[r]) : Justified(p)
    BY DEF HonestProposalIsJustified
  <2> DEFINE list == rec[s].proposals[r]
  <2>1. s \in Active /\ Good(s, rec[s]) /\ ListsStand(s, rec[s].proposals)
    BY DEF SoundInv, Inv, Intact
  <2>2. Len(list) <= 1
    BY <2>1 DEF ListsStand
  <2>3. ASSUME NEW p \in ToSet(list) PROVE Justified(p)
    <3>1. PICK i \in DOMAIN list : p = list[i]
      BY DEF ToSet
    <3>2. list \in Seq(Proposals) /\ KnownProposals(s, rec[s].votes, rec[s].proposals)
      BY <2>1, GoodRecord DEF Known
    <3>3. p \in Proposals /\ Backed(s, rec[s].votes, p)
      BY <3>1, <3>2 DEF KnownProposals
    <3>4. CASE p.validRound = 0
      BY <3>4 DEF Justified
    <3>5. CASE p.validRound # 0
      <4>1. p.validRound \in Rounds /\ p.validRound < p.term
        BY <3>3, <3>5 DEF Backed
      <4>2. PICK signers \in Quorums : \A t \in signers \ Byzantine :
               t \in Active /\ Cast(s, rec[s].votes, "prevote", t, p.validRound) = p.value
        BY <3>3, <3>5 DEF Backed, Backs
      <4>3. \A t \in signers : Signed(t, p.validRound, "prevote", p.value)
        BY <4>2 DEF Cast, Signed
      <4>4. CertificatesFor(p.validRound, "prevote", p.value) # {}
        BY <4>3 DEF CertificatesFor
      <4>5. p.validRound \in 1..(p.term - 1)
        <5>1. p.term \in Rounds
          BY <3>3 DEF Proposals
        <5> QED
          BY <4>1, <5>1, ConsensusAssumption DEF Rounds
      <4> QED
        BY <4>4, <4>5 DEF Justified
    <3> QED
      BY <3>4, <3>5
  <2> QED
    BY <2>2, <2>3
<1> QED
  BY RecordsAreSound, <1>1, PTL

-----------------------------------------------------------------------------
(***************************************************************************)
(* Evidence stops a voter.                                                 *)
(***************************************************************************)

\* d holds the evidence of c, and is stopped for good if c is.
Calm(c, d) ==
    /\ Shaped(d) /\ d.equivocations = c.equivocations /\ d.provenOffender = c.provenOffender
    /\ c.halted = "terminal" => d.halted = "terminal"

\* It holds the proposals and hints of c too.
Quiet(c, d) == Calm(c, d) /\ d.proposals = c.proposals /\ d.hints = c.hints

LEMMA QuietTwice ==
  ASSUME NEW c, NEW d, NEW e, Quiet(c, d), Quiet(d, e)
  PROVE  Quiet(c, e)
BY DEF Quiet, Calm

LEMMA HaltQuiet ==
  ASSUME NEW s, NEW c, Shaped(c), NEW v
  PROVE  /\ Quiet(c, c) /\ Quiet(c, halt(c)) /\ Quiet(c, terminalFault(c))
         /\ Quiet(c, haltForCertifiedValue(c, v)) /\ Quiet(c, haltIfFaultThresholdExceeded(s, c))
         /\ Quiet(c, [c EXCEPT !.decision = v])
BY NotStopped DEF Quiet, Calm, Shaped, Fields, halt, terminalFault, haltForCertifiedValue,
                  haltIfFaultThresholdExceeded

LEMMA SignQuiet ==
  ASSUME NEW s, NEW c, Shaped(c), NEW phase, NEW ballot, NEW refused, NEW p
  PROVE  /\ Quiet(c, signLocalVote(s, c, phase, ballot, refused))
         /\ Quiet(c, prevoteProposal(s, c, p, refused))
<1>1. \A f, x : Quiet(c, signLocalVote(s, c, f, x, refused))
  <2>1. \A f, x : Quiet(c, [c EXCEPT !.step = f, !.votes = x])
    BY DEF Quiet, Calm, Shaped, Fields
  <2>2. ASSUME NEW f, NEW x PROVE Quiet(c, signLocalVote(s, c, f, x, refused))
    BY <2>1, HaltQuiet DEF signLocalVote
  <2> QED
    BY <2>2
<1> QED
  BY <1>1, HaltQuiet DEF prevoteProposal

LEMMA CommitQuiet ==
  ASSUME NEW s, NEW c, Shaped(c)
  PROVE  Quiet(c, maybeCommit(s, c))
<1> DEFINE A(x, r) == commitAt(s, x, r)
<1>1. ASSUME NEW x, Shaped(x), NEW r PROVE Quiet(x, A(x, r))
  BY <1>1, HaltQuiet DEF commitAt
<1>2. PICK upTo : /\ maybeCommit(s, c) = upTo[MaxRound]
                  /\ \A r \in 0..MaxRound :
                        upTo[r] = IF r = 0 THEN c ELSE A(upTo[r - 1], r)
  BY CommitLoop
<1> HIDE DEF A
<1> DEFINE T == {k \in Nat : k <= MaxRound /\ ~Quiet(c, upTo[k])}
<1>3. MaxRound \in Nat /\ T \subseteq Nat
  BY RoundFacts
<1>5. Quiet(c, c)
  BY HaltQuiet
<1>4. T = {}
  <2>1. SUFFICES ASSUME T # {} PROVE FALSE
    OBVIOUS
  <2> HIDE DEF T
  <2>2. PICK k \in T : \A j \in T : k <= j
    BY ONLY <1>3, <2>1, LeastExists
  <2>3. k \in Nat /\ k <= MaxRound /\ ~Quiet(c, upTo[k])
    BY <2>2 DEF T
  <2>4. k # 0
    BY <1>2, <1>3, <1>5, <2>3
  <2>5. k - 1 \in Nat /\ k - 1 \notin T /\ k - 1 <= MaxRound
    BY <1>3, <2>2, <2>3, <2>4
  <2>6. Quiet(c, upTo[k - 1])
    BY <2>5 DEF T
  <2>7. upTo[k] = A(upTo[k - 1], k)
    BY <1>2, <1>3, <2>3, <2>4
  <2>8. Quiet(upTo[k - 1], A(upTo[k - 1], k))
    BY <1>1, <2>6 DEF Quiet, Calm
  <2> QED
    BY <2>3, <2>6, <2>7, <2>8, QuietTwice
<1> QED
  BY <1>2, <1>3, <1>4

LEMMA DriveQuiet ==
  ASSUME NEW s, NEW c, Shaped(c), NEW refused
  PROVE  Quiet(c, drive(s, c, refused))
<1>1. ASSUME NEW x, Shaped(x) PROVE Quiet(x, driveProposal(s, x, refused))
  BY <1>1, SignQuiet, HaltQuiet DEF driveProposal
<1>2. ASSUME NEW x, Shaped(x) PROVE Quiet(x, drivePrevotes(s, x, refused))
  <2>0. \A y : Shaped(y) => \A v : Quiet(y, [y EXCEPT !.valid = v]) /\ Quiet(y, [y EXCEPT !.locked = v])
    BY DEF Quiet, Calm, Shaped, Fields
  <2>1. ASSUME NEW v, NEW w
        PROVE  /\ Quiet(x, [x EXCEPT !.valid = v]) /\ Quiet(x, [x EXCEPT !.locked = w])
               /\ Quiet(x, [[x EXCEPT !.valid = v] EXCEPT !.locked = w])
    <3> DEFINE y == [x EXCEPT !.valid = v]
    <3>1. Quiet(x, y) /\ Shaped(y) /\ Quiet(x, [x EXCEPT !.locked = w])
      BY <1>2, <2>0 DEF Quiet, Calm
    <3> HIDE DEF y
    <3>2. Quiet(y, [y EXCEPT !.locked = w])
      BY <2>0, <3>1
    <3>3. Quiet(x, [y EXCEPT !.locked = w])
      BY <3>1, <3>2, QuietTwice
    <3> QED
      BY <3>1, <3>3 DEF y
  <2>2. \A y, v : Shaped(y) => Quiet(y, signLocalVote(s, y, "precommit", v, refused))
    BY SignQuiet
  <2>3. \A y, v : Quiet(x, y) => Quiet(x, signLocalVote(s, y, "precommit", v, refused))
    BY <2>2 DEF Quiet, Calm
  <2> QED
    BY <1>2, <2>1, <2>3, HaltQuiet DEF drivePrevotes
<1>3. ASSUME NEW x, Shaped(x) PROVE Quiet(x, driveNil(s, x))
  BY <1>3, SignQuiet, HaltQuiet DEF driveNil
<1>4. ASSUME NEW x, Shaped(x) PROVE Quiet(x, driveTimers(x))
  BY <1>4 DEF driveTimers, Quiet, Calm, Shaped, Fields
<1> DEFINE c0 == maybeCommit(s, c)
           c1 == driveProposal(s, c0, refused)
           c2 == drivePrevotes(s, c1, refused)
           c3 == driveNil(s, c2)
           c4 == driveTimers(c3)
           c5 == maybeCommit(s, c4)
<1>5. drive(s, c, refused) \in {c0, c5}
  BY DEF drive
<1>6. Quiet(c, c0)
  BY CommitQuiet
<1> HIDE DEF c0
<1>7. Quiet(c, c1)
  BY <1>1, <1>6 DEF Quiet, Calm
<1> HIDE DEF c1
<1>8. Quiet(c, c2)
  BY <1>2, <1>7 DEF Quiet, Calm
<1> HIDE DEF c2
<1>9. Quiet(c, c3)
  BY <1>3, <1>8 DEF Quiet, Calm
<1> HIDE DEF c3
<1>10. Quiet(c, c4)
  BY <1>4, <1>9 DEF Quiet, Calm
<1> HIDE DEF c4
<1>11. Quiet(c, c5)
  BY <1>10, CommitQuiet DEF Quiet, Calm
<1> QED
  BY <1>5, <1>6, <1>11

LEMMA CalmTwice ==
  ASSUME NEW c, NEW d, NEW e, Calm(c, d), Calm(d, e)
  PROVE  Calm(c, e)
BY DEF Calm

LEMMA HaltCalm ==
  ASSUME NEW s, NEW c, Shaped(c), NEW v
  PROVE  /\ Calm(c, c) /\ Calm(c, halt(c)) /\ Calm(c, terminalFault(c))
         /\ Calm(c, haltForCertifiedValue(c, v)) /\ Calm(c, haltIfFaultThresholdExceeded(s, c))
         /\ Calm(c, [c EXCEPT !.decision = v])
BY HaltQuiet DEF Quiet

LEMMA SignCalm ==
  ASSUME NEW s, NEW c, Shaped(c), NEW phase, NEW ballot, NEW refused, NEW p
  PROVE  /\ Calm(c, signLocalVote(s, c, phase, ballot, refused))
         /\ Calm(c, prevoteProposal(s, c, p, refused))
BY SignQuiet DEF Quiet

LEMMA DriveCalm ==
  ASSUME NEW s, NEW c, Shaped(c), NEW refused
  PROVE  Calm(c, drive(s, c, refused))
BY DriveQuiet DEF Quiet

LEMMA EnterCalm ==
  ASSUME NEW s, NEW c, Shaped(c), NEW r, NEW t, NEW hint
  PROVE  Calm(c, enterRound(s, c, r)) /\ Calm(c, maybeJump(s, c)) /\ Calm(c, addHint(c, t, hint))
<1>1. ASSUME NEW x PROVE Calm(c, enterRound(s, c, x))
  <2>1. ASSUME NEW timers, NEW hints, NEW votes, NEW proposals
        PROVE  Calm(c, [c EXCEPT !.round = x, !.step = "propose", !.timers = timers,
                                 !.hints = hints, !.votes = votes, !.proposals[x] = proposals])
    BY DEF Calm, Shaped, Fields
  <2> QED
    BY <2>1, HaltCalm DEF enterRound
<1>2. Calm(c, addHint(c, t, hint))
  BY DEF addHint, Calm, Shaped, Fields
<1> QED
  BY <1>1, <1>2, HaltCalm DEF maybeJump

Seen(c) == {e.seat : e \in c.equivocations}
Proven(c) == {c.provenOffender} \ {None}
Limit == tolerated(Cardinality(Voters))

\* The certified log excludes no more voters than the membership tolerates: an
\* entry that excludes one is valid only while nobody is excluded and another
\* voter exists.
FewExcluded == \A e \in Exclusions : Cardinality(e) <= Limit

\* A record whose evidence is about voters.
Tame(c) == Shaped(c) /\ IsFiniteSet(c.equivocations) /\ Seen(c) \subseteq Voters

\* What a voter that has not stopped may hold against others.
Judged(s, c) ==
    /\ Tame(c)
    /\ \/ c.halted = "terminal"
       \/ /\ s \notin Equivocators(c)
          /\ Cardinality(Seen(c) \cup excluded) <= Limit
          /\ Cardinality(Proven(c) \cup excluded) <= Limit

LEMMA CalmJudged ==
  ASSUME NEW s, NEW c, NEW d, Judged(s, c), Calm(c, d)
  PROVE  Judged(s, d)
BY DEF Judged, Tame, Calm, Seen, Proven, Equivocators

LEMMA LimitInt == Limit \in Int /\ (Cardinality(Voters) # 1 => Limit = 1)
BY DEF Limit, tolerated

LEMMA EvidenceFinite ==
  ASSUME NEW c, IsFiniteSet(c.equivocations), excluded \subseteq Voters
  PROVE  /\ IsFiniteSet(Seen(c)) /\ IsFiniteSet(Proven(c)) /\ IsFiniteSet(excluded)
         /\ IsFiniteSet(Equivocators(c))
<1> DEFINE seat == [e \in c.equivocations |-> e.seat]
<1>1. seat \in Surjection(c.equivocations, Seen(c))
  BY DEF Seen, Surjection
<1>2. IsFiniteSet(Seen(c))
  BY <1>1, FS_Surjection
<1>3. IsFiniteSet(excluded)
  BY VotersFinite, FS_Subset
<1>4. IsFiniteSet({c.provenOffender})
  BY FS_Singleton
<1>5. IsFiniteSet(Proven(c))
  BY <1>4, FS_Subset DEF Proven
<1>6. Equivocators(c) = (Seen(c) \cup excluded) \cup Proven(c)
  BY DEF Equivocators, Seen, Proven
<1> QED
  BY <1>2, <1>3, <1>5, <1>6, FS_Union

LEMMA ThresholdJudges ==
  ASSUME NEW s, NEW c, Tame(c), excluded \subseteq Voters
  PROVE  Judged(s, haltIfFaultThresholdExceeded(s, c))
<1> DEFINE all == Equivocators(c)
           A == Seen(c) \cup excluded
           B == Proven(c) \cup excluded
<1>1. /\ IsFiniteSet(all) /\ A \subseteq all /\ B \subseteq all
  BY EvidenceFinite DEF Equivocators, Seen, Proven, Tame
<1>2. /\ Cardinality(A) \in Nat /\ Cardinality(B) \in Nat /\ Cardinality(all) \in Nat
      /\ Cardinality(A) <= Cardinality(all) /\ Cardinality(B) <= Cardinality(all)
  BY <1>1, FS_Subset, FS_CardinalityType
<1>3. CASE s \in all \/ Cardinality(all) > Limit
  <2>1. haltIfFaultThresholdExceeded(s, c) = terminalFault(c)
    BY <1>3 DEF haltIfFaultThresholdExceeded, Limit
  <2>2. /\ Shaped(terminalFault(c)) /\ terminalFault(c).halted = "terminal"
        /\ terminalFault(c).equivocations = c.equivocations
    BY DEF terminalFault, Tame, Shaped, Fields
  <2> QED
    BY <2>1, <2>2 DEF Judged, Tame, Seen
<1>4. CASE s \notin all /\ ~(Cardinality(all) > Limit)
  <2>1. haltIfFaultThresholdExceeded(s, c) = c
    BY <1>4 DEF haltIfFaultThresholdExceeded, Limit
  <2>2. Cardinality(A) <= Limit /\ Cardinality(B) <= Limit
    BY <1>2, <1>4, LimitInt
  <2> QED
    BY <1>4, <2>1, <2>2 DEF Judged, Tame
<1> QED
  BY <1>3, <1>4

\* One proven offender, and nobody else excluded, is within the limit.
LEMMA OneOffender ==
  ASSUME NEW s \in Active, NEW o \in Accusable, o # s, excluded \ {o} = {}
  PROVE  Cardinality({o} \cup excluded) <= Limit
<1>1. o \in Voters /\ s \in Voters
  BY ConsensusAssumption
<1>2. Cardinality(Voters) # 1
  BY <1>1, VotersFinite, FS_Singleton
<1>3. {o} \cup excluded = {o} /\ Cardinality({o}) = 1
  BY FS_Singleton
<1> QED
  BY <1>2, <1>3, LimitInt

LEMMA RetainJudged ==
  ASSUME NEW s \in Active, NEW c, Judged(s, c), NEW o \in Accusable, NEW foreign
  PROVE  Judged(s, retainAccusation(s, c, o, foreign))
<1> DEFINE proven == IF c.provenOffender = None THEN o ELSE c.provenOffender
           kept == [c EXCEPT !.pendingAccusation = o, !.provenOffender = proven]
<1>1. Shaped(c)
  BY DEF Judged, Tame
<1>2. \/ retainAccusation(s, c, o, foreign) \in {terminalFault(c), c, halt(c)}
      \/ retainAccusation(s, c, o, foreign) = kept /\ ~ControlFault(s, c, o)
  BY DEF retainAccusation
<1>3. ASSUME ~ControlFault(s, c, o) PROVE Judged(s, kept)
  <2>1. proven = o /\ o # s /\ excluded \ {o} = {}
    BY <1>3 DEF ControlFault
  <2> HIDE DEF proven
  <2>2. /\ Shaped(kept) /\ kept.equivocations = c.equivocations
        /\ kept.provenOffender = proven /\ kept.halted = c.halted
    BY <1>1 DEF Shaped, Fields
  <2>3. Proven(kept) \cup excluded \subseteq {o} \cup excluded /\ Seen(kept) = Seen(c)
    BY <2>1, <2>2 DEF Proven, Seen
  <2>4. {o} \cup excluded = {o} /\ Cardinality({o} \cup excluded) <= Limit
    BY <2>1, OneOffender
  <2>5. Cardinality(Proven(kept) \cup excluded) <= Limit
    <3>1. IsFiniteSet({o} \cup excluded)
      BY <2>4, FS_Singleton
    <3> QED
      BY <2>3, <2>4, <3>1, LimitInt, FS_Subset, FS_CardinalityType
  <2>6. s \notin Equivocators(c) => s \notin Equivocators(kept)
    BY <2>1, <2>2 DEF Equivocators
  <2> HIDE DEF kept
  <2> QED
    BY <2>2, <2>3, <2>4, <2>5, <2>6 DEF Judged, Tame
<1> HIDE DEF kept
<1> QED
  BY <1>1, <1>2, <1>3, HaltCalm, CalmJudged

\* Recording a vote or a proposal is followed by a look at the threshold.
LEMMA RecordTame ==
  ASSUME NEW c, Tame(c), NEW r, NEW phase, NEW ballot
  PROVE  /\ \A t \in Voters : Tame(recordVote(c, t, r, phase, ballot))
         /\ \A p : Proposer(p.term) \in Voters => Tame(recordProposal(c, p))
<1>1. ASSUME NEW d, Shaped(d), NEW e, e.seat \in Voters,
             \/ d.equivocations = c.equivocations
             \/ d.equivocations = c.equivocations \cup {e}
      PROVE  Tame(d)
  <2>1. IsFiniteSet(d.equivocations)
    BY <1>1, FS_AddElement DEF Tame
  <2>2. Seen(d) \subseteq Voters
    BY <1>1 DEF Seen, Tame
  <2> QED
    BY <1>1, <2>1, <2>2 DEF Tame
<1>2. ASSUME NEW t \in Voters PROVE Tame(recordVote(c, t, r, phase, ballot))
  <2> DEFINE d == recordVote(c, t, r, phase, ballot)
             e == [kind |-> phase, seat |-> t, round |-> r]
  <2>1. Shaped(d) /\ e.seat \in Voters
    BY RecordShaped DEF Tame
  <2>2. d.equivocations \in {c.equivocations, c.equivocations \cup {e}}
    BY DEF recordVote, Tame, Shaped, Fields
  <2> HIDE DEF d, e
  <2> QED
    BY <1>1, <2>1, <2>2 DEF d
<1>3. ASSUME NEW p, Proposer(p.term) \in Voters PROVE Tame(recordProposal(c, p))
  <2> DEFINE d == recordProposal(c, p)
             e == [kind |-> "proposal", seat |-> Proposer(p.term), round |-> p.term]
  <2>1. Shaped(d) /\ e.seat \in Voters
    BY <1>3, RecordShaped DEF Tame
  <2>2. d.equivocations \in {c.equivocations, c.equivocations \cup {e}}
    BY DEF recordProposal, Tame, Shaped, Fields
  <2> HIDE DEF d, e
  <2> QED
    BY <1>1, <2>1, <2>2 DEF d
<1> QED
  BY <1>2, <1>3

LEMMA ProposeJudged ==
  ASSUME NEW s \in Active, NEW c, Judged(s, c), NEW candidate \in Values, NEW refused, NEW foreign,
         c.valid = NoQuorumValue \/ c.valid.value \in Values
  PROVE  Judged(s, propose(s, c, candidate, refused, foreign))
<1> DEFINE value == IF c.valid # NoQuorumValue THEN c.valid.value ELSE candidate
           p == [term |-> c.round, value |-> value, validRound |-> c.valid.round]
           known == [c EXCEPT !.inputKnown = TRUE]
           retained == IF Offender[value] = None THEN known
                       ELSE retainAccusation(s, known, Offender[value], foreign)
           noted == recordProposal(retained, p)
           voted == prevoteProposal(s, noted, p, refused)
           d == propose(s, c, candidate, refused, foreign)
<1>1. \/ d \in {c, retained}
      \/ c.proposals[c.round] = <<>> /\ d = drive(s, voted, refused)
  BY DEF propose
<1>2. Judged(s, known) /\ known.proposals = c.proposals
  <2>1. Calm(c, known) /\ known.proposals = c.proposals
    BY DEF Calm, Judged, Tame, Shaped, Fields
  <2> QED
    BY <2>1, CalmJudged
<1>3. value \in Values
  OBVIOUS
<1> HIDE DEF known, value
<1>4. Offender[value] # None => Offender[value] \in Accusable
  BY <1>3, ConsensusAssumption
<1>5. Judged(s, retained)
  BY <1>2, <1>4, RetainJudged
<1>6. retained.proposals = c.proposals
  BY <1>2 DEF retainAccusation, terminalFault, halt, Judged, Tame, Shaped, Fields
<1> HIDE DEF retained
<1>7. ASSUME c.proposals[c.round] = <<>> PROVE Calm(retained, noted)
  <2>1. noted.equivocations = retained.equivocations
    BY <1>5, <1>6, <1>7 DEF recordProposal, Judged, Tame, Shaped, Fields
  <2>2. noted.provenOffender = retained.provenOffender /\ noted.halted = retained.halted
    BY <1>5 DEF recordProposal, Judged, Tame, Shaped, Fields
  <2>3. Shaped(noted)
    BY <1>5, RecordShaped DEF Judged, Tame
  <2> QED
    BY <2>1, <2>2, <2>3 DEF Calm
<1> HIDE DEF noted
<1>8. ASSUME c.proposals[c.round] = <<>> PROVE Judged(s, drive(s, voted, refused))
  <2>1. Judged(s, noted)
    BY <1>5, <1>7, <1>8, CalmJudged
  <2>2. Calm(noted, voted)
    BY <2>1, SignCalm DEF Judged, Tame
  <2> HIDE DEF voted
  <2>3. Judged(s, voted)
    BY <2>1, <2>2, CalmJudged
  <2> QED
    BY <2>3, DriveCalm, CalmJudged DEF Judged, Tame
<1> HIDE DEF voted
<1> QED
  BY <1>1, <1>5, <1>8

\* A proposal that is recorded is found.
LEMMA RecordedProposal ==
  ASSUME NEW c \in Records, NEW p \in Proposals
  PROVE  recordProposal(c, p) = c \/ proposalAt(recordProposal(c, p), p.term, p.value)
<1> DEFINE list == c.proposals[p.term]
           d == recordProposal(c, p)
<1>1. p.term \in Rounds /\ list \in Seq(Proposals)
  BY DEF Records, ProposalTables, Proposals
<1>2. d = c \/ d.proposals[p.term] = Append(list, p)
  BY <1>1 DEF recordProposal, Records, ProposalTables
<1>3. Len(list) + 1 \in DOMAIN Append(list, p) /\ Append(list, p)[Len(list) + 1] = p
  BY <1>1
<1> HIDE DEF d, list
<1> QED
  BY <1>2, <1>3 DEF proposalAt, ToSet, d

LEMMA ReceiveRoundJudged ==
  ASSUME NEW s \in Active, Inv, NEW c, Good(s, c), Unvoted(s, c.votes, c.locked), Judged(s, c),
         NEW p \in Proposals, Proposed(p), NEW refused
  PROVE  Judged(s, receiveRound(s, c, p, refused))
<1> DEFINE hinted == addHint(c, Proposer(p.term), ProposalHint(p))
           c1 == IF p.term > c.round THEN maybeJump(s, hinted) ELSE c
           c2 == recordProposal(c1, p)
           c3 == haltIfFaultThresholdExceeded(s, c2)
           voted == prevoteProposal(s, c3, p, refused)
           d == receiveRound(s, c, p, refused)
<1>1. \/ d \in {c1, c3}
      \/ d = c2 /\ ~proposalAt(c2, p.term, p.value)
      \/ d \in {drive(s, c3, refused), drive(s, voted, refused)}
  BY DEF receiveRound
<1>2. Judged(s, c1)
  <2>1. Judged(s, hinted)
    BY EnterCalm, CalmJudged DEF Judged, Tame
  <2> HIDE DEF hinted
  <2>2. Judged(s, maybeJump(s, hinted))
    BY <2>1, EnterCalm, CalmJudged DEF Judged, Tame
  <2> QED
    BY <2>2
<1>r. c1 \in Records
  <2>1. Good(s, hinted) /\ Unvoted(s, hinted.votes, hinted.locked)
    BY ProposalHinted, AddHintGood DEF Untouched
  <2> HIDE DEF hinted
  <2> QED
    BY <2>1, MaybeJumpGood, GoodRecord
<1> HIDE DEF c1
<1>3. Judged(s, c3)
  <2>1. excluded \subseteq Voters
    BY ConsensusAssumption DEF Inv
  <2> QED
    BY <1>2, <2>1, ProposalHinted, RecordTame, ThresholdJudges DEF Judged
<1>4. c2 = c1 \/ proposalAt(c2, p.term, p.value)
  BY <1>r, RecordedProposal
<1> HIDE DEF c2, c3
<1>5. Judged(s, drive(s, c3, refused))
  BY <1>3, DriveCalm, CalmJudged DEF Judged, Tame
<1>6. Judged(s, drive(s, voted, refused))
  <2>1. Judged(s, voted)
    BY <1>3, SignCalm, CalmJudged DEF Judged, Tame
  <2> HIDE DEF voted
  <2> QED
    BY <2>1, DriveCalm, CalmJudged DEF Judged, Tame
<1> QED
  BY <1>1, <1>2, <1>3, <1>4, <1>5, <1>6

LEMMA ReceiveProposalJudged ==
  ASSUME NEW s \in Active, Inv, Judged(s, rec[s]), NEW p \in Proposals, Proposed(p), NEW signers,
         NEW refused, NEW foreign
  PROVE  Judged(s, receiveProposal(s, rec[s], p, signers, refused, foreign))
<1> DEFINE c == rec[s]
           o == Offender[p.value]
           c1 == IF o = None THEN c ELSE retainAccusation(s, c, o, foreign)
           known == [c1 EXCEPT !.inputKnown = TRUE]
<1>0. Good(s, c) /\ Unvoted(s, c.votes, c.locked) /\ c \in Records /\ p.value \in Values
  BY OwnGood, GoodRecord DEF Proposals
<1>1. \/ receiveProposal(s, c, p, signers, refused, foreign)
            \in {terminalFault(c), c, c1, halt(c1)}
      \/ receiveProposal(s, c, p, signers, refused, foreign) = receiveRound(s, known, p, refused)
  BY DEF receiveProposal
<1>2. Same(c, c1) /\ Judged(s, c1) /\ Judged(s, terminalFault(c))
  <2>1. o # None => o \in Accusable
    BY <1>0, AccusedFacts
  <2>2. Same(c, c1)
    BY <1>0, <2>1, HaltSame, RetainSame
  <2>3. Judged(s, c1)
    BY <2>1, RetainJudged
  <2> QED
    BY <2>2, <2>3, HaltCalm, CalmJudged DEF Judged, Tame
<1> HIDE DEF c1
<1>3. c1 \in Records /\ Judged(s, halt(c1))
  BY <1>2, HaltCalm, CalmJudged DEF Same, Judged, Tame
<1>4. Same(c, known) /\ Judged(s, known)
  <2>1. Same(c1, known)
    BY <1>3, InputSame DEF Records
  <2>2. Calm(c1, known)
    BY <1>2 DEF Calm, Judged, Tame, Shaped, Fields
  <2> QED
    BY <1>2, <2>1, <2>2, SameTwice, CalmJudged
<1> HIDE DEF known
<1>5. Good(s, known) /\ Unvoted(s, known.votes, known.locked)
  BY <1>0, <1>4, SameGood DEF Same
<1>6. Judged(s, receiveRound(s, known, p, refused))
  BY <1>4, <1>5, ReceiveRoundJudged
<1> QED
  BY <1>1, <1>2, <1>3, <1>6

LEMMA ReceiveVoteJudged ==
  ASSUME NEW s \in Active, excluded \subseteq Voters, NEW c, Judged(s, c),
         NEW t \in Voters, NEW r, NEW phase, NEW ballot, NEW refused
  PROVE  Judged(s, receiveVote(s, c, t, r, phase, ballot, refused))
<1> DEFINE hinted == addHint(c, t, VoteHint(r, phase, ballot))
           c1 == IF r > c.round THEN maybeJump(s, hinted) ELSE c
           c2 == haltIfFaultThresholdExceeded(s, recordVote(c1, t, r, phase, ballot))
<1>1. receiveVote(s, c, t, r, phase, ballot, refused)
         \in {halt(c), c, c1, c2, drive(s, c2, refused)}
  BY DEF receiveVote
<1>2. Judged(s, hinted) /\ Judged(s, halt(c))
  <2>1. Calm(c, hinted) /\ Calm(c, halt(c))
    BY EnterCalm, HaltCalm DEF Judged, Tame
  <2> HIDE DEF hinted
  <2> QED
    BY <2>1, CalmJudged
<1> HIDE DEF hinted
<1>3. Judged(s, c1)
  BY <1>2, EnterCalm, CalmJudged DEF Judged, Tame
<1> HIDE DEF c1
<1>4. Judged(s, c2)
  BY <1>3, RecordTame, ThresholdJudges DEF Judged
<1> HIDE DEF c2
<1>5. Judged(s, drive(s, c2, refused))
  BY <1>4, DriveCalm, CalmJudged DEF Judged, Tame
<1> QED
  BY <1>1, <1>2, <1>3, <1>4, <1>5

LEMMA TimeoutJudged ==
  ASSUME NEW s, NEW c, Judged(s, c), NEW phase \in Timers, NEW refused
  PROVE  Judged(s, timeout(s, c, phase, refused))
<1> DEFINE prevoted == IF c.step = "propose" THEN signLocalVote(s, c, "prevote", Nil, {}) ELSE c
           voted == signLocalVote(s, prevoted, "precommit", Nil, {})
           entered == enterRound(s, c, c.round + 1)
           d == timeout(s, c, phase, refused)
<1>1. /\ phase = "propose" => d \in {c, drive(s, prevoted, refused)}
      /\ phase = "prevote" => d \in {c, drive(s, voted, refused)}
      /\ phase = "precommit" => d \in {c, drive(s, entered, refused)}
  BY DEF timeout
<1>2. phase \in {"propose", "prevote", "precommit"}
  BY DEF Timers, Phases
<1>3. Judged(s, prevoted) /\ Judged(s, entered)
  <2>1. Calm(c, signLocalVote(s, c, "prevote", Nil, {})) /\ Calm(c, entered)
    BY SignCalm, EnterCalm DEF Judged, Tame
  <2> HIDE DEF entered
  <2> QED
    BY <2>1, CalmJudged
<1> HIDE DEF prevoted, entered, d
<1>4. Judged(s, voted)
  BY <1>3, SignCalm, CalmJudged DEF Judged, Tame
<1> HIDE DEF voted
<1>5. \A x : Judged(s, x) => Judged(s, drive(s, x, refused))
  BY DriveCalm, CalmJudged DEF Judged, Tame
<1> QED
  BY <1>1, <1>2, <1>3, <1>4, <1>5 DEF d

LEMMA OthersJudged ==
  ASSUME NEW s, NEW c, Judged(s, c), NEW r, NEW v, NEW signers
  PROVE  /\ Judged(s, receiveCommit(s, c, r, v, signers))
         /\ Judged(s, inputAvailable(c)) /\ Judged(s, clearStaleAccusation(c))
         /\ Judged(s, halt(c)) /\ Judged(s, restored(s, c)) /\ Judged(s, resumeAfterReplay(s, c))
<1>0. Shaped(c)
  BY DEF Judged, Tame
<1>1. /\ \A x : Judged(s, [c EXCEPT !.decision = x]) /\ Judged(s, haltForCertifiedValue(c, x))
      /\ Judged(s, halt(c)) /\ Judged(s, terminalFault(c))
  BY <1>0, HaltCalm, CalmJudged
<1>2. Judged(s, receiveCommit(s, c, r, v, signers)) /\ Judged(s, restored(s, c))
  BY <1>1 DEF receiveCommit, restored
<1>3. Judged(s, clearStaleAccusation(c))
  <2>1. Calm(c, [c EXCEPT !.pendingAccusation = None])
    BY <1>0 DEF Calm, Shaped, Fields
  <2> QED
    BY <2>1, CalmJudged DEF clearStaleAccusation
<1>4. Judged(s, inputAvailable(c))
  <2>1. \A x, y : Calm(c, [c EXCEPT !.inputKnown = x, !.timers = y])
    BY <1>0 DEF Calm, Shaped, Fields
  <2>2. Judged(s, c)
    OBVIOUS
  <2> QED
    BY <2>1, <2>2, CalmJudged DEF inputAvailable
<1>5. Judged(s, resumeAfterReplay(s, c))
  <2> DEFINE d == [c EXCEPT !.decision = c.unapplied, !.halted = None, !.unapplied = None]
  <2>1. resumeAfterReplay(s, c) \in {c, terminalFault(c), d}
    BY DEF resumeAfterReplay
  <2>2. resumeAfterReplay(s, c) = d => c.halted # "terminal" \/ Judged(s, d)
    <3>1. restored(s, c).halted = "certified-validation" => c.halted # "terminal"
      BY <1>0, RestoredKeeps, NotStopped DEF Keeps, Stopped
    <3>2. resumeAfterReplay(s, c) = d => c = d \/ d = terminalFault(c) \/ c.halted # "terminal"
      BY <3>1 DEF resumeAfterReplay
    <3> QED
      BY <1>1, <3>2
  <2>3. c.halted # "terminal" => Calm(c, d)
    BY <1>0 DEF Calm, Shaped, Fields
  <2> HIDE DEF d
  <2> QED
    BY <1>1, <2>1, <2>2, <2>3, CalmJudged
<1> QED
  BY <1>1, <1>2, <1>3, <1>4, <1>5

JudgedInv == Inv /\ \A s \in Active : Judged(s, rec[s])

LEMMA InitJudged ==
  ASSUME FewExcluded, Init
  PROVE  JudgedInv
<1>1. PICK o \in [Active -> Carried], pending \in [Active -> BOOLEAN] :
         rec = [s \in Active |-> InitialRecord(s, o[s], IF pending[s] THEN o[s] ELSE None)]
  BY DEF Init
<1>2. ASSUME NEW s \in Active PROVE Judged(s, rec[s])
  <2> DEFINE c == InitialRecord(s, o[s], IF pending[s] THEN o[s] ELSE None)
  <2>1. rec[s] = c /\ o[s] \in Accusable \cup {None}
    BY <1>1, ConsensusAssumption
  <2>2. /\ Shaped(c) /\ c.equivocations = {} /\ c.provenOffender = o[s]
        /\ c.halted = IF s \in excluded \/ (o[s] # None /\ (o[s] = s \/ excluded \ {o[s]} # {}))
                      THEN "terminal" ELSE None
    BY DEF InitialRecord, Shaped, Fields
  <2> HIDE DEF c
  <2>3. IsFiniteSet(c.equivocations) /\ Seen(c) = {} /\ Equivocators(c) = excluded \cup Proven(c)
    BY <2>2, FS_EmptySet DEF Seen, Equivocators, Proven
  <2>4. Cardinality(excluded) <= Limit
    BY DEF FewExcluded, Init
  <2>5. CASE c.halted = "terminal"
    BY <2>1, <2>2, <2>3, <2>5 DEF Judged, Tame
  <2>6. CASE c.halted # "terminal" /\ o[s] = None
    <3>1. Proven(c) = {} /\ s \notin excluded
      BY <2>2, <2>6 DEF Proven
    <3> QED
      BY <2>1, <2>2, <2>3, <2>4, <3>1 DEF Judged, Tame
  <2>7. CASE c.halted # "terminal" /\ o[s] # None
    <3>1. Proven(c) = {o[s]} /\ s \notin excluded /\ o[s] # s /\ excluded \ {o[s]} = {}
      BY <2>2, <2>7 DEF Proven
    <3>2. Cardinality({o[s]} \cup excluded) <= Limit
      BY <2>1, <2>7, <3>1, OneOffender
    <3> QED
      BY <2>1, <2>2, <2>3, <2>4, <3>1, <3>2 DEF Judged, Tame
  <2> QED
    BY <2>5, <2>6, <2>7
<1> QED
  BY <1>2, InitInv DEF JudgedInv

LEMMA NextInstallsJudged ==
  ASSUME JudgedInv, Next
  PROVE  \E s \in Active : \E c : Install(s, c) /\ Judged(s, c)
<1>1. PICK s \in Active :
        \/ Restart(s) \/ InputAvailable(s) \/ StageAccusation(s) \/ ClearStaleAccusation(s)
        \/ ResumeAfterReplay(s) \/ TerminalHalt(s) \/ ReceiveCommit(s)
        \/ \E refused \in SUBSET Refusable :
              \/ Propose(s, refused) \/ ReceiveProposal(s, refused) \/ ReceiveVote(s, refused)
              \/ \E phase \in Timers : Timeout(s, phase, refused)
  BY DEF Next
<1> SUFFICES \E c : Install(s, c) /\ Judged(s, c)
  OBVIOUS
<1>g. Judged(s, rec[s]) /\ excluded \subseteq Voters
  BY ConsensusAssumption DEF JudgedInv, Inv
<1>2. CASE Restart(s) \/ InputAvailable(s) \/ ClearStaleAccusation(s) \/ ResumeAfterReplay(s)
           \/ TerminalHalt(s) \/ ReceiveCommit(s)
  BY <1>2, <1>g, OthersJudged
     DEF Restart, InputAvailable, ClearStaleAccusation, ResumeAfterReplay, TerminalHalt, ReceiveCommit
<1>3. CASE StageAccusation(s)
  BY <1>3, <1>g, RetainJudged DEF StageAccusation
<1>4. ASSUME NEW refused \in SUBSET Refusable, Propose(s, refused)
      PROVE  \E c : Install(s, c) /\ Judged(s, c)
  <2>1. rec[s].valid \in QuorumValues
    BY GoodRecord DEF JudgedInv, Inv
  <2>2. rec[s].valid = NoQuorumValue \/ rec[s].valid.value \in Values
    BY <2>1 DEF QuorumValues
  <2> QED
    BY <1>4, <1>g, <2>2, ProposeJudged DEF Propose
<1>5. ASSUME NEW refused \in SUBSET Refusable, ReceiveProposal(s, refused)
      PROVE  \E c : Install(s, c) /\ Judged(s, c)
  BY <1>5, <1>g, ReceiveProposalJudged DEF ReceiveProposal, JudgedInv
<1>6. ASSUME NEW refused \in SUBSET Refusable, ReceiveVote(s, refused)
      PROVE  \E c : Install(s, c) /\ Judged(s, c)
  BY <1>6, <1>g, ReceiveVoteJudged DEF ReceiveVote
<1>7. ASSUME NEW refused \in SUBSET Refusable, NEW phase \in Timers, Timeout(s, phase, refused)
      PROVE  \E c : Install(s, c) /\ Judged(s, c)
  BY <1>7, <1>g, TimeoutJudged DEF Timeout
<1> QED
  BY <1>1, <1>2, <1>3, <1>4, <1>5, <1>6, <1>7

LEMMA NextJudged ==
  ASSUME JudgedInv, [Next]_vars
  PROVE  JudgedInv'
<1>1. Inv'
  BY NextInv DEF JudgedInv
<1>2. ASSUME NEW t \in Active PROVE Judged(t, rec[t])'
  <2>1. ASSUME NEW c, Judged(t, c), rec'[t] = c, excluded' = excluded PROVE Judged(t, rec[t])'
    BY <2>1 DEF Judged, Tame, Seen, Proven, Equivocators, Shaped
  <2>2. CASE Next
    <3>1. PICK s \in Active : \E c : Install(s, c) /\ Judged(s, c)
      BY <2>2, NextInstallsJudged
    <3>2. PICK c : Install(s, c) /\ Judged(s, c)
      BY <3>1
    <3>3. /\ rec' = [rec EXCEPT ![s] = c] /\ excluded' = excluded /\ rec = [u \in Active |-> rec[u]]
          /\ Judged(t, rec[t])
      BY <3>2 DEF Install, JudgedInv, Inv
    <3>4. rec'[s] = c /\ (t # s => rec'[t] = rec[t])
      BY <3>3
    <3> QED
      BY <2>1, <3>2, <3>3, <3>4
  <2>3. CASE UNCHANGED vars
    BY <2>1, <2>3 DEF vars, JudgedInv
  <2> QED
    BY <2>2, <2>3
<1> QED
  BY <1>1, <1>2 DEF JudgedInv

LEMMA AccusedVoters ==
  ASSUME NEW c \in Records, Seen(c) \subseteq Voters
  PROVE  AccusedBy(c) \subseteq Voters
<1>1. \A v \in Values : Offender[v] \in Voters \cup {None}
  BY ConsensusAssumption
<1>2. {c.provenOffender, c.pendingAccusation} \subseteq Voters \cup {None}
  BY ConsensusAssumption DEF Records, Accused
<1> QED
  BY <1>1, <1>2 DEF AccusedBy, Seen

LEMMA LoneElement ==
  ASSUME NEW S, IsFiniteSet(S), ~(Cardinality(S) > 1), NEW x \in S, NEW y \in S
  PROVE  x = y
<1> SUFFICES ASSUME x # y PROVE FALSE
  OBVIOUS
<1>1. IsFiniteSet({x}) /\ Cardinality({x}) = 1
  BY FS_Singleton
<1>2. Cardinality({x} \cup {y}) = 2
  BY <1>1, FS_AddElement
<1>3. Cardinality({x} \cup {y}) <= Cardinality(S) /\ Cardinality(S) \in Nat
  <2>1. {x} \cup {y} \subseteq S
    OBVIOUS
  <2> QED
    BY <2>1, FS_Subset, FS_CardinalityType
<1> QED
  BY <1>2, <1>3

\* The evidence that a restart adds up: one voter proven and another seen is one
\* too many.
LEMMA RestartJudges ==
  ASSUME NEW s \in Active, Inv, Judged(s, rec[s]), rec[s].halted # "terminal",
         Cardinality(Equivocators(rec[s])) > Limit
  PROVE  restored(s, rec[s]).halted = "terminal"
<1> DEFINE c == rec[s]
           accused == AccusedBy(c)
<1>0. c \in Records /\ excluded \subseteq Voters
  BY GoodRecord, ConsensusAssumption DEF Inv
<1>1. Seen(c) \subseteq accused /\ Proven(c) \subseteq accused
  BY ConsensusAssumption DEF AccusedBy, Seen, Proven, Judged, Tame
<1>2. /\ Cardinality(Seen(c) \cup excluded) <= Limit /\ Cardinality(Proven(c) \cup excluded) <= Limit
  BY DEF Judged
<1>3. Equivocators(c) = (Seen(c) \cup excluded) \cup Proven(c)
  BY DEF Equivocators, Seen, Proven
<1>4. SUFFICES ASSUME ~(Cardinality(accused) > 1), \A o \in accused : ~ControlFault(s, c, o)
               PROVE  FALSE
  BY DEF restored, terminalFault, Records
<1>5. accused \subseteq Voters
  BY <1>0, AccusedVoters DEF Judged, Tame
<1>6. \A x, y \in accused : x = y
  BY <1>4, <1>5, VotersFinite, FS_Subset, LoneElement
<1>7. \A o \in accused : excluded \subseteq {o}
  BY <1>4 DEF ControlFault
<1> HIDE DEF accused
<1>8. \/ Equivocators(c) = Seen(c) \cup excluded
      \/ Equivocators(c) = Proven(c) \cup excluded
  BY <1>1, <1>3, <1>6, <1>7
<1>9. Cardinality(Equivocators(c)) \in Nat
  BY <1>0, EvidenceFinite, FS_CardinalityType DEF Judged, Tame
<1> QED
  BY <1>2, <1>8, <1>9, LimitInt

\* A voter with evidence against its own key, or against more voters than the
\* membership tolerates, has stopped.  This holds for every voter that runs the
\* reducers, whatever was signed with its key or the others.
THEOREM EvidenceStops ==
  ASSUME FewExcluded
  PROVE  Spec => []EvidenceStopsVoter
<1>1. Init => JudgedInv
  BY InitJudged
<1>2. JudgedInv /\ [Next]_vars => JudgedInv'
  BY NextJudged
<1>3. JudgedInv => EvidenceStopsVoter
  <2> SUFFICES ASSUME JudgedInv, NEW s \in Active, rec[s].halted # "terminal"
               PROVE  LET c == rec[s]
                      IN  /\ s \notin Equivocators(c)
                          /\ Cardinality(Seen(c) \cup excluded) <= Limit
                          /\ Cardinality(Proven(c) \cup excluded) <= Limit
                          /\ Cardinality(Equivocators(c)) > Limit
                                => restored(s, c).halted = "terminal"
    BY DEF EvidenceStopsVoter, Limit, Seen, Proven
  <2>1. Inv /\ Judged(s, rec[s])
    BY DEF JudgedInv
  <2> QED
    BY <2>1, RestartJudges DEF Judged
<1> QED
  BY <1>1, <1>2, <1>3, PTL DEF Spec

-----------------------------------------------------------------------------
(***************************************************************************)
(* Evidence is true: it names Byzantine seats only.                        *)
(***************************************************************************)

\* What stands in a list of proposals was proposed, unless by a Byzantine seat.
Heard(s, r, v) ==
    \/ Proposer(r) \in Byzantine \cup {s}
    \/ Proposer(r) \in Active /\ proposalAt(rec[Proposer(r)], r, v)

\* The record lost no proposal of rec[s], and what it holds of others is real.
Told(s, c) ==
    /\ \A r \in Rounds : \A v : proposalAt(rec[s], r, v) => proposalAt(c, r, v)
    /\ \A r \in Rounds : \A v : proposalAt(c, r, v) => Heard(s, r, v)
    /\ \A t \in Voters : c.hints[t].kind = "proposal" =>
          Heard(s, c.hints[t].round, c.hints[t].proposal.value)
    /\ \A e \in c.equivocations : e.seat \in Byzantine

LEMMA ToldSame ==
  ASSUME NEW s, NEW c, NEW d, Told(s, c), d.proposals = c.proposals, d.hints = c.hints,
         d.equivocations = c.equivocations
  PROVE  Told(s, d)
BY DEF Told, proposalAt

LEMMA ToldQuiet ==
  ASSUME NEW s, NEW c, NEW d, Told(s, c), Quiet(c, d)
  PROVE  Told(s, d)
BY ToldSame DEF Quiet, Calm

LEMMA ToldHint ==
  ASSUME NEW s, NEW c \in Records, Told(s, c), NEW t \in Voters, NEW hint,
         hint.kind = "proposal" => Heard(s, hint.round, hint.proposal.value)
  PROVE  Told(s, addHint(c, t, hint))
<1> DEFINE d == [c EXCEPT !.hints[t] = hint]
<1>1. addHint(c, t, hint) \in {c, d}
  BY DEF addHint
<1>2. /\ d.proposals = c.proposals /\ d.equivocations = c.equivocations
      /\ \A u \in Voters : d.hints[u] = IF u = t THEN hint ELSE c.hints[u]
  BY DEF Records, HintTables
<1> HIDE DEF d
<1> QED
  BY <1>1, <1>2 DEF Told, proposalAt

LEMMA ToldEnter ==
  ASSUME NEW s \in Active, NEW c, Sound(s, c), Told(s, c), NEW r \in Rounds
  PROVE  Told(s, enterRound(s, c, r))
<1> DEFINE ready == {t \in Voters : c.hints[t].round = r}
           bearers == {u \in ready : c.hints[u].kind = "proposal"}
           new == {c.hints[t].proposal : t \in bearers}
           list == c.proposals[r] \o SetToSeq(new)
           d == enterRound(s, c, r)
<1>0. /\ c \in Records /\ c.round \in Nat /\ r \in Nat
      /\ c.proposals \in ProposalTables /\ PlacedProposals(c.round, c.proposals)
  BY GoodRecord, RoundFacts DEF Sound, Placed
<1>1. CASE r <= c.round
  BY <1>1 DEF enterRound
<1>2. CASE r > c.round
  <2>1. /\ d.proposals = [c.proposals EXCEPT ![r] = list] /\ d.equivocations = c.equivocations
        /\ d.hints = [t \in Voters |-> IF c.hints[t].round > r THEN c.hints[t] ELSE NoHint]
    BY <1>0, <1>2 DEF enterRound, Records
  <2>2. /\ d.proposals[r] = list /\ \A q \in Rounds : q # r => d.proposals[q] = c.proposals[q]
    BY <1>0, <2>1 DEF ProposalTables
  <2>3. c.proposals[r] = <<>>
    BY <1>0, <1>2 DEF PlacedProposals
  <2>4. ToSet(list) \subseteq new
    <3>1. IsFiniteSet(new)
      BY HintedFinite
    <3> DEFINE y == SetToSeq(new)
    <3>2. y \in Seq(new)
      BY <3>1, ListedOnce
    <3>3. list = <<>> \o y
      BY <2>3
    <3> HIDE DEF y, new, list
    <3>4. list = y
      BY <3>2, <3>3
    <3> QED
      BY <3>2, <3>4 DEF ToSet
  <2> HIDE DEF d, list
  <2>5. \A v : proposalAt(d, r, v) => Heard(s, r, v)
    BY <2>2, <2>4 DEF Told, proposalAt
  <2>6. \A v : ~proposalAt(c, r, v)
    BY <2>3 DEF proposalAt, ToSet
  <2>7. \A q \in Rounds : \A v :
           /\ proposalAt(rec[s], q, v) => proposalAt(d, q, v)
           /\ proposalAt(d, q, v) => Heard(s, q, v)
    <3>1. \A q \in Rounds : \A v : q # r => (proposalAt(d, q, v) <=> proposalAt(c, q, v))
      BY <2>2 DEF proposalAt
    <3> QED
      BY <2>5, <2>6, <3>1 DEF Told
  <2>8. \A t \in Voters : d.hints[t].kind = "proposal" => d.hints[t] = c.hints[t]
    BY <2>1 DEF NoHint
  <2>9. Told(s, d)
    BY <2>1, <2>7, <2>8 DEF Told
  <2> QED
    BY <2>9 DEF d
<1> QED
  BY <1>0, <1>1, <1>2

LEMMA ToldJump ==
  ASSUME NEW s \in Active, NEW c, Sound(s, c), Told(s, c)
  PROVE  Told(s, maybeJump(s, c))
<1> DEFINE supported == {r \in Rounds : Cardinality({t \in Voters : c.hints[t].round >= r}) >= 2}
<1>1. maybeJump(s, c) = IF supported = {} THEN c ELSE enterRound(s, c, Max(supported))
  BY DEF maybeJump
<1>2. supported \subseteq Rounds
  OBVIOUS
<1> HIDE DEF supported
<1>3. supported # {} => Max(supported) \in Rounds
  BY <1>2, LargestExists
<1> QED
  BY <1>1, <1>3, ToldEnter

LEMMA ToldVote ==
  ASSUME NEW s, NEW c, Shaped(c), Told(s, c), NEW t, NEW r, NEW phase, NEW ballot,
         t \in Byzantine \/ c.votes[phase][t][r] \in {None, ballot}
  PROVE  Told(s, recordVote(c, t, r, phase, ballot))
<1> DEFINE d == recordVote(c, t, r, phase, ballot)
           e == [kind |-> phase, seat |-> t, round |-> r]
<1>1. d.proposals = c.proposals /\ d.hints = c.hints
  BY DEF recordVote, Shaped, Fields
<1>2. \/ d.equivocations = c.equivocations
      \/ d.equivocations = c.equivocations \cup {e} /\ t \in Byzantine
  BY DEF recordVote, Shaped, Fields
<1>3. e.seat = t
  OBVIOUS
<1> HIDE DEF d, e
<1> QED
  BY <1>1, <1>2, <1>3 DEF Told, proposalAt, d

\* An honest proposer proposes one value in a round, so two different ones of a
\* round are evidence against a Byzantine proposer.
LEMMA ToldProposal ==
  ASSUME NEW s \in Active, SoundInv, NEW c \in Records, Told(s, c), NEW p \in Proposals,
         Heard(s, p.term, p.value),
         Proposer(p.term) = s => c.proposals[p.term] = <<>> \/ proposalAt(c, p.term, p.value)
  PROVE  Told(s, recordProposal(c, p))
<1> DEFINE list == c.proposals[p.term]
           longer == Append(list, p)
           e == [kind |-> "proposal", seat |-> Proposer(p.term), round |-> p.term]
           d == recordProposal(c, p)
<1>0. /\ p.term \in Rounds /\ list \in Seq(Proposals) /\ c.proposals \in ProposalTables
  BY DEF Records, ProposalTables, Proposals
<1>1. CASE d = c
  BY <1>1
<1>2. CASE d # c
  <2>1. /\ ~proposalAt(c, p.term, p.value) /\ d.hints = c.hints
        /\ d.proposals = [c.proposals EXCEPT ![p.term] = longer]
        /\ d.equivocations = IF list = <<>> THEN c.equivocations ELSE c.equivocations \cup {e}
    BY <1>2 DEF recordProposal, Records
  <2>2. d.proposals[p.term] = longer /\ \A q \in Rounds : q # p.term => d.proposals[q] = c.proposals[q]
    BY <1>0, <2>1 DEF ProposalTables
  <2> HIDE DEF d
  <2>3. ToSet(longer) = ToSet(list) \cup {p}
    <3>1. DOMAIN longer = 1..(Len(list) + 1) /\ DOMAIN list = 1..Len(list) /\ Len(list) \in Nat
      BY <1>0
    <3>2. \A i \in 1..(Len(list) + 1) : longer[i] = IF i = Len(list) + 1 THEN p ELSE list[i]
      BY <1>0, <3>1
    <3> HIDE DEF list, longer
    <3> QED
      BY <3>1, <3>2 DEF ToSet
  <2> HIDE DEF longer
  <2>4. \A v : proposalAt(d, p.term, v) <=> proposalAt(c, p.term, v) \/ v = p.value
    BY <2>2, <2>3 DEF proposalAt
  <2>5. \A q \in Rounds : \A v : q # p.term => (proposalAt(d, q, v) <=> proposalAt(c, q, v))
    BY <2>2 DEF proposalAt
  <2>6. ASSUME list # <<>>, Proposer(p.term) \notin Byzantine PROVE FALSE
    <3> DEFINE t == Proposer(p.term)
               own == rec[t].proposals[p.term]
    <3>1. t # s
      BY <2>1, <2>6
    <3>2. t \in Active /\ proposalAt(rec[t], p.term, p.value)
      BY <2>6, <3>1 DEF Heard
    <3>3. list[1] \in ToSet(list)
      BY <1>0, <2>6 DEF ToSet
    <3>4. proposalAt(c, p.term, list[1].value)
      BY <3>3 DEF proposalAt
    <3>5. proposalAt(rec[t], p.term, list[1].value)
      BY <1>0, <2>6, <3>1, <3>4 DEF Told, Heard
    <3>6. own \in Seq(Proposals) /\ Len(own) <= 1
      <4>1. Sound(t, rec[t])
        BY <3>2, OwnSound
      <4>2. rec[t].proposals \in ProposalTables
        BY <3>2, <4>1, GoodRecord DEF Sound
      <4> QED
        BY <1>0, <4>1, <4>2 DEF Sound, Intact, ListsStand, ProposalTables
    <3> HIDE DEF own
    <3>7. \A x, y \in ToSet(own) : x = y
      BY <3>6 DEF ToSet
    <3>8. list[1].value = p.value
      BY <3>2, <3>5, <3>7 DEF proposalAt, own
    <3> QED
      BY <2>1, <3>4, <3>8
  <2>7. \A x \in d.equivocations : x.seat \in Byzantine
    BY <2>1, <2>6 DEF Told
  <2> HIDE DEF list
  <2>8. Told(s, d)
    BY <2>1, <2>4, <2>5, <2>7 DEF Told
  <2> QED
    BY <2>8 DEF d
<1> QED
  BY <1>1, <1>2

LEMMA ProposedHeard ==
  ASSUME NEW s, NEW p, Proposed(p)
  PROVE  Heard(s, p.term, p.value)
BY DEF Proposed, Heard, proposalAt

LEMMA ToldHalt ==
  ASSUME NEW s, NEW c, Shaped(c), Told(s, c), NEW v
  PROVE  /\ Told(s, halt(c)) /\ Told(s, terminalFault(c)) /\ Told(s, haltForCertifiedValue(c, v))
         /\ Told(s, [c EXCEPT !.decision = v])
BY HaltQuiet, ToldQuiet

LEMMA ToldDrive ==
  ASSUME NEW s, NEW c, Shaped(c), Told(s, c), NEW refused
  PROVE  Told(s, drive(s, c, refused))
BY DriveQuiet, ToldQuiet

LEMMA ToldRetain ==
  ASSUME NEW s, NEW c, Shaped(c), Told(s, c), NEW o, NEW foreign
  PROVE  Told(s, retainAccusation(s, c, o, foreign))
<1> DEFINE d == retainAccusation(s, c, o, foreign)
<1>1. d.proposals = c.proposals /\ d.hints = c.hints /\ d.equivocations = c.equivocations
  BY DEF retainAccusation, terminalFault, halt, Shaped, Fields
<1> HIDE DEF d
<1> QED
  BY <1>1, ToldSame DEF d

LEMMA RecordShape ==
  ASSUME NEW c \in Records
  PROVE  Shaped(c)
BY DEF Records, Shaped, Fields

LEMMA ToldPropose ==
  ASSUME NEW s \in Active, SoundInv, Told(s, rec[s]), NEW candidate \in Values,
         NEW refused \in SUBSET Refusable, NEW foreign
  PROVE  Told(s, propose(s, rec[s], candidate, refused, foreign))
<1> DEFINE c == rec[s]
           value == IF c.valid # NoQuorumValue THEN c.valid.value ELSE candidate
           p == [term |-> c.round, value |-> value, validRound |-> c.valid.round]
           known == [c EXCEPT !.inputKnown = TRUE]
           retained == IF Offender[value] = None THEN known
                       ELSE retainAccusation(s, known, Offender[value], foreign)
           noted == recordProposal(retained, p)
           voted == prevoteProposal(s, noted, p, refused)
           d == propose(s, c, candidate, refused, foreign)
<1>0. /\ Sound(s, c) /\ Good(s, c) /\ c \in Records /\ c.valid \in QuorumValues
  BY OwnSound, GoodRecord DEF Sound
<1>1. \/ d \in {c, retained}
      \/ c.proposals[c.round] = <<>> /\ Proposer(c.round) = s /\ d = drive(s, voted, refused)
  BY DEF propose
<1>2. value \in Values
  BY <1>0 DEF QuorumValues
<1>3. Same(c, known) /\ Told(s, known) /\ known \in Records
  <2>1. Same(c, known) /\ known.equivocations = c.equivocations
    BY <1>0, InputSame DEF Records
  <2> HIDE DEF known, c
  <2> QED
    BY <2>1, ToldSame DEF Same, c
<1>4. Same(c, retained) /\ Told(s, retained)
  <2> HIDE DEF value, known
  <2>1. Offender[value] # None => Same(known, retainAccusation(s, known, Offender[value], foreign))
    BY <1>2, <1>3, AccusedFacts, RetainSame
  <2>2. Told(s, retained)
    BY <1>3, RecordShape, ToldRetain
  <2> QED
    BY <1>3, <2>1, <2>2, SameTwice
<1>5. c.proposals[c.round] = <<>> => p \in Proposals /\ p.term = c.round
  BY <1>0, OwnProposal
<1> HIDE DEF p, retained
<1>6. ASSUME c.proposals[c.round] = <<>>, Proposer(c.round) = s PROVE Told(s, noted)
  <2>1. retained \in Records /\ retained.proposals = c.proposals
    BY <1>4 DEF Same
  <2>2. Heard(s, p.term, p.value)
    BY <1>5, <1>6 DEF Heard
  <2> QED
    BY <1>4, <1>5, <1>6, <2>1, <2>2, ToldProposal
<1>7. ASSUME c.proposals[c.round] = <<>>, Proposer(c.round) = s PROVE Told(s, drive(s, voted, refused))
  <2>1. Told(s, noted) /\ Shaped(noted)
    BY <1>4, <1>6, <1>7, RecordShape, RecordShaped DEF Same
  <2> HIDE DEF noted
  <2>2. Told(s, voted) /\ Shaped(voted)
    BY <2>1, SignQuiet, ToldQuiet DEF Quiet, Calm
  <2> HIDE DEF voted
  <2> QED
    BY <2>2, ToldDrive
<1> HIDE DEF voted
<1> QED
  BY <1>1, <1>4, <1>7

LEMMA ToldReceiveRound ==
  ASSUME NEW s \in Active, SoundInv, NEW c, Sound(s, c), Unvoted(s, c.votes, c.locked),
         c.inputKnown, Told(s, c), NEW p \in Proposals, Proposed(p), NEW refused \in SUBSET Refusable,
         Proposer(p.term) = s => proposalAt(c, p.term, p.value)
  PROVE  Told(s, receiveRound(s, c, p, refused))
<1> DEFINE hint == ProposalHint(p)
           hinted == addHint(c, Proposer(p.term), hint)
           c1 == IF p.term > c.round THEN maybeJump(s, hinted) ELSE c
           c2 == recordProposal(c1, p)
           c3 == haltIfFaultThresholdExceeded(s, c2)
           voted == prevoteProposal(s, c3, p, refused)
           d == receiveRound(s, c, p, refused)
<1>0. /\ Inv /\ Good(s, c) /\ c \in Records /\ p.term \in Rounds
      /\ PlacedProposals(c.round, c.proposals)
  BY GoodRecord DEF SoundInv, Sound, Placed, Proposals
<1>1. d \in {c1, c2, c3, drive(s, c3, refused), drive(s, voted, refused)}
  BY DEF receiveRound
<1>2. p.term > c.round => Proposer(p.term) # s
  BY <1>0 DEF PlacedProposals, proposalAt, ToSet
<1>3. p.term > c.round => Told(s, hinted) /\ Sound(s, hinted) /\ Unvoted(s, hinted.votes, hinted.locked)
  <2>1. /\ Proposer(p.term) \in Voters /\ hint \in ProposalHints
        /\ KnownHint(s, c.votes, Proposer(p.term), hint)
    BY <1>0, ProposalHinted
  <2>2. hint.round = p.term /\ hint.proposal = p
    BY DEF ProposalHint
  <2>3. Heard(s, hint.round, hint.proposal.value)
    BY <2>2, ProposedHeard
  <2> HIDE DEF hint
  <2> QED
    BY <1>0, <1>2, <2>1, <2>2, <2>3, AddHintSound, ToldHint DEF Untouched
<1> HIDE DEF hinted
<1>4. Sound(s, c1) /\ Told(s, c1)
  BY <1>0, <1>3, MaybeJumpSound, ToldJump
<1>5. Proposer(p.term) = s => c1.proposals[p.term] = <<>> \/ proposalAt(c1, p.term, p.value)
  BY <1>2
<1> HIDE DEF c1, d
<1>6. Told(s, c2) /\ Shaped(c2)
  <2>1. c1 \in Records
    BY <1>4, GoodRecord DEF Sound
  <2> QED
    BY <1>4, <1>5, <2>1, ProposedHeard, ToldProposal, RecordShape, RecordShaped
<1> HIDE DEF c2
<1>7. Quiet(c2, c3)
  BY <1>6, HaltQuiet
<1> HIDE DEF c3
<1>8. Told(s, c3) /\ Shaped(c3)
  BY <1>6, <1>7, ToldQuiet DEF Quiet, Calm
<1>9. Quiet(c3, voted)
  BY <1>8, SignQuiet
<1> HIDE DEF voted
<1>10. Told(s, voted) /\ Shaped(voted)
  BY <1>8, <1>9, ToldQuiet DEF Quiet, Calm
<1> QED
  BY <1>1, <1>4, <1>6, <1>8, <1>10, ToldDrive DEF d

LEMMA ToldReceiveProposal ==
  ASSUME NEW s \in Active, SoundInv, Told(s, rec[s]), NEW p \in Proposals, Proposed(p), NEW signers,
         NEW refused \in SUBSET Refusable, NEW foreign
  PROVE  Told(s, receiveProposal(s, rec[s], p, signers, refused, foreign))
<1> DEFINE c == rec[s]
           o == Offender[p.value]
           c1 == IF o = None THEN c ELSE retainAccusation(s, c, o, foreign)
           known == [c1 EXCEPT !.inputKnown = TRUE]
<1>0. /\ Sound(s, c) /\ Good(s, c) /\ Unvoted(s, c.votes, c.locked) /\ c \in Records
      /\ p.value \in Values /\ c.hints[s] = NoHint /\ Shaped(c)
  BY OwnSound, OwnGood, RecordShape DEF SoundInv, Sound, Intact, HintsStand, Proposals
<1>1. \/ receiveProposal(s, c, p, signers, refused, foreign)
            \in {terminalFault(c), c, c1, halt(c1)}
      \/ /\ receiveProposal(s, c, p, signers, refused, foreign)
               = receiveRound(s, known, p, refused)
         /\ ~UnrecordedOwnProposal(s, c1, p)
  BY DEF receiveProposal
<1>2. Same(c, c1) /\ Sound(s, c1) /\ Told(s, c1) /\ Told(s, terminalFault(c))
  <2>1. o # None => o \in Accusable
    BY <1>0, AccusedFacts
  <2>2. Same(c, c1) /\ Sound(s, c1)
    BY <1>0, <2>1, HaltSame, RetainSame, RetainSound
  <2>3. Told(s, c1) /\ Told(s, terminalFault(c))
    BY <1>0, ToldRetain, ToldHalt
  <2> QED
    BY <2>2, <2>3
<1> HIDE DEF c1
<1>3. c1 \in Records /\ Told(s, halt(c1))
  BY <1>2, RecordShape, ToldHalt DEF Same
<1>4. Sound(s, known) /\ Same(c, known) /\ known.inputKnown /\ Same(c1, known)
      /\ known.equivocations = c1.equivocations
  BY <1>2, <1>3, InputSound, InputSame, SameTwice DEF Records
<1> HIDE DEF known
<1>5. Unvoted(s, known.votes, known.locked) /\ Told(s, known)
  BY <1>0, <1>2, <1>4, ToldSame DEF Same
<1>6. ~UnrecordedOwnProposal(s, c1, p) =>
         (Proposer(p.term) = s => proposalAt(known, p.term, p.value))
  <2>1. c1.hints[s].kind # "proposal"
    BY <1>0, <1>2 DEF Same, NoHint
  <2>2. proposalAt(c1, p.term, p.value) => proposalAt(known, p.term, p.value)
    BY <1>4 DEF Same, proposalAt
  <2> QED
    BY <2>1, <2>2 DEF UnrecordedOwnProposal
<1>7. ~UnrecordedOwnProposal(s, c1, p) => Told(s, receiveRound(s, known, p, refused))
  BY <1>4, <1>5, <1>6, ToldReceiveRound
<1> QED
  BY <1>1, <1>2, <1>3, <1>7

LEMMA ToldReceiveVote ==
  ASSUME NEW s \in Active, SoundInv, Told(s, rec[s]), NEW t \in Voters, NEW r \in Rounds,
         NEW phase \in Phases, NEW ballot \in Ballots, Signed(t, r, phase, ballot),
         NEW refused \in SUBSET Refusable
  PROVE  Told(s, receiveVote(s, rec[s], t, r, phase, ballot, refused))
<1> DEFINE c == rec[s]
           hint == VoteHint(r, phase, ballot)
           hinted == addHint(c, t, hint)
           c1 == IF r > c.round THEN maybeJump(s, hinted) ELSE c
           recorded == recordVote(c1, t, r, phase, ballot)
           c2 == haltIfFaultThresholdExceeded(s, recorded)
           d == receiveVote(s, c, t, r, phase, ballot, refused)
<1>0. /\ Inv /\ Sound(s, c) /\ Unvoted(s, c.votes, c.locked) /\ c \in Records /\ Shaped(c)
      /\ c.round \in Rounds /\ NoneAhead(c.round, c.votes) /\ ballot # None
  BY OwnSound, OwnGood, GoodRecord, RoundFacts, RecordShape
     DEF SoundInv, Sound, Placed, PlacedVotes, Ballots
<1>1. \/ d \in {halt(c), c}
      \/ ~(t = s /\ c.votes[phase][s][r] # ballot) /\ d \in {c1, c2, drive(s, c2, refused)}
  BY DEF receiveVote
<1>2. ASSUME ~(t = s /\ c.votes[phase][s][r] # ballot)
      PROVE  Told(s, c1) /\ Told(s, c2) /\ Told(s, drive(s, c2, refused))
  <2>1. r > c.round => t # s
    BY <1>0, <1>2 DEF NoneAhead
  <2>2. t \notin Byzantine => t \in Active /\ rec[t].votes[phase][t][r] = ballot
    BY DEF Signed
  <2>3. r > c.round => Sound(s, hinted) /\ Unvoted(s, hinted.votes, hinted.locked) /\ Told(s, hinted)
    <3>1. hint \in VoteHints /\ hint.round = r /\ hint.kind # "proposal"
      BY DEF VoteHint, VoteHints
    <3>2. r > c.round => KnownHint(s, c.votes, t, hint)
      BY <2>1, <2>2 DEF KnownHint, VoteHint
    <3> HIDE DEF hint
    <3>3. Told(s, hinted)
      BY <1>0, <3>1, ToldHint
    <3> QED
      BY <1>0, <2>1, <3>1, <3>2, <3>3, AddHintSound DEF Untouched
  <2> HIDE DEF hinted
  <2>4. Sound(s, c1) /\ Told(s, c1)
    BY <1>0, <2>3, MaybeJumpSound, ToldJump
  <2>5. t = s => c1.votes[phase][s][r] = ballot
    BY <1>2, <2>1
  <2> HIDE DEF c1
  <2>6. c1 \in Records /\ Shaped(c1) /\ KnownVotes(s, c1.votes)
    BY <2>4, GoodRecord, RecordShape DEF Sound, Good, Known
  <2>7. t \in Byzantine \/ c1.votes[phase][t][r] \in {None, ballot}
    BY <2>2, <2>5, <2>6 DEF KnownVotes
  <2>8. Told(s, recorded) /\ Shaped(recorded)
    BY <2>4, <2>6, <2>7, ToldVote, RecordShaped
  <2> HIDE DEF recorded
  <2>9. Quiet(recorded, c2)
    BY <2>8, HaltQuiet
  <2> HIDE DEF c2
  <2>10. Told(s, c2) /\ Shaped(c2)
    BY <2>8, <2>9, ToldQuiet DEF Quiet, Calm
  <2> QED
    BY <2>4, <2>10, ToldDrive
<1> HIDE DEF c1, c2, d
<1> QED
  BY <1>0, <1>1, <1>2, ToldHalt DEF d

LEMMA ToldTimeout ==
  ASSUME NEW s \in Active, SoundInv, Told(s, rec[s]), NEW phase \in Timers,
         NEW refused \in SUBSET Refusable, phase = "precommit" => rec[s].round < MaxRound
  PROVE  Told(s, timeout(s, rec[s], phase, refused))
<1> DEFINE c == rec[s]
           prevoted == IF c.step = "propose" THEN signLocalVote(s, c, "prevote", Nil, {}) ELSE c
           voted == signLocalVote(s, prevoted, "precommit", Nil, {})
           entered == enterRound(s, c, c.round + 1)
           d == timeout(s, c, phase, refused)
<1>0. Sound(s, c) /\ Good(s, c) /\ c \in Records /\ c.round \in Rounds /\ Shaped(c)
  BY OwnSound, GoodRecord, RecordShape DEF Sound
<1>1. /\ phase = "propose" => d \in {c, drive(s, prevoted, refused)}
      /\ phase = "prevote" => d \in {c, drive(s, voted, refused)}
      /\ phase = "precommit" => d \in {c, drive(s, entered, refused)}
  BY DEF timeout
<1>2. phase \in {"propose", "prevote", "precommit"}
  BY DEF Timers, Phases
<1>3. Quiet(c, prevoted)
  BY <1>0, SignQuiet, HaltQuiet
<1>4. phase = "precommit" => Told(s, entered) /\ Shaped(entered)
  <2>1. phase = "precommit" => c.round + 1 \in Rounds
    BY <1>0, ConsensusAssumption DEF Rounds
  <2>2. Shaped(entered)
    BY <1>0, EnterCalm DEF Calm
  <2> HIDE DEF c
  <2> QED
    BY <1>0, <2>1, <2>2, ToldEnter DEF c
<1> HIDE DEF prevoted, entered, d
<1>5. Told(s, prevoted) /\ Shaped(prevoted)
  BY <1>0, <1>3, ToldQuiet DEF Quiet, Calm
<1>6. Quiet(prevoted, voted)
  BY <1>5, SignQuiet
<1> HIDE DEF voted
<1>7. Told(s, voted) /\ Shaped(voted)
  BY <1>5, <1>6, ToldQuiet DEF Quiet, Calm
<1> QED
  BY <1>1, <1>2, <1>4, <1>5, <1>7, ToldDrive DEF d

LEMMA ToldOthers ==
  ASSUME NEW s, NEW c, Shaped(c), Told(s, c), NEW r, NEW v, NEW signers
  PROVE  /\ Told(s, receiveCommit(s, c, r, v, signers))
         /\ Told(s, inputAvailable(c)) /\ Told(s, clearStaleAccusation(c))
         /\ Told(s, halt(c)) /\ Told(s, restored(s, c)) /\ Told(s, resumeAfterReplay(s, c))
<1>1. /\ \A x : Told(s, [c EXCEPT !.decision = x]) /\ Told(s, haltForCertifiedValue(c, x))
      /\ Told(s, halt(c)) /\ Told(s, terminalFault(c))
  BY ToldHalt
<1>2. Told(s, receiveCommit(s, c, r, v, signers)) /\ Told(s, restored(s, c))
  BY <1>1 DEF receiveCommit, restored
<1>3. Told(s, clearStaleAccusation(c))
  <2> DEFINE d == [c EXCEPT !.pendingAccusation = None]
  <2>1. d.proposals = c.proposals /\ d.hints = c.hints /\ d.equivocations = c.equivocations
    BY DEF Shaped, Fields
  <2>2. clearStaleAccusation(c) \in {c, d}
    BY DEF clearStaleAccusation
  <2> HIDE DEF d
  <2> QED
    BY <2>1, <2>2, ToldSame
<1>4. Told(s, inputAvailable(c))
  <2> DEFINE timers == IF c.step = "propose" THEN c.timers \cup {"propose"} ELSE c.timers
             d == [c EXCEPT !.inputKnown = TRUE, !.timers = timers]
  <2>1. d.proposals = c.proposals /\ d.hints = c.hints /\ d.equivocations = c.equivocations
    BY DEF Shaped, Fields
  <2>2. inputAvailable(c) \in {c, d}
    BY DEF inputAvailable, Shaped, Fields
  <2> HIDE DEF d
  <2> QED
    BY <2>1, <2>2, ToldSame
<1>5. Told(s, resumeAfterReplay(s, c))
  <2> DEFINE d == [c EXCEPT !.decision = c.unapplied, !.halted = None, !.unapplied = None]
  <2>1. resumeAfterReplay(s, c) \in {c, terminalFault(c), d}
    BY DEF resumeAfterReplay
  <2>2. d.proposals = c.proposals /\ d.hints = c.hints /\ d.equivocations = c.equivocations
    BY DEF Shaped, Fields
  <2> HIDE DEF d
  <2> QED
    BY <1>1, <2>1, <2>2, ToldSame
<1> QED
  BY <1>1, <1>2, <1>3, <1>4, <1>5

ToldInv == SoundInv /\ \A s \in Active : Told(s, rec[s])

LEMMA InitTold == Init => ToldInv
<1> SUFFICES ASSUME Init PROVE ToldInv
  OBVIOUS
<1>1. PICK o \in [Active -> Carried], pending \in [Active -> BOOLEAN] :
         rec = [s \in Active |-> InitialRecord(s, o[s], IF pending[s] THEN o[s] ELSE None)]
  BY DEF Init
<1>2. ASSUME NEW s \in Active PROVE Told(s, rec[s])
  <2> DEFINE c == InitialRecord(s, o[s], IF pending[s] THEN o[s] ELSE None)
  <2>1. rec[s] = c
    BY <1>1
  <2>2. /\ c.proposals = [r \in Rounds |-> <<>>] /\ c.hints = [t \in Voters |-> NoHint]
        /\ c.equivocations = {}
    BY DEF InitialRecord
  <2> HIDE DEF c
  <2>3. \A r \in Rounds : \A v : ~proposalAt(c, r, v)
    BY <2>2 DEF proposalAt, ToSet
  <2>4. \A t \in Voters : c.hints[t].kind # "proposal"
    BY <2>2 DEF NoHint
  <2> QED
    BY <2>1, <2>2, <2>3, <2>4 DEF Told
<1> QED
  BY <1>2, InitSound DEF ToldInv

LEMMA NextInstallsTold ==
  ASSUME ToldInv, Next
  PROVE  \E s \in Active : \E c : Install(s, c) /\ Told(s, c)
<1>1. PICK s \in Active :
        \/ Restart(s) \/ InputAvailable(s) \/ StageAccusation(s) \/ ClearStaleAccusation(s)
        \/ ResumeAfterReplay(s) \/ TerminalHalt(s) \/ ReceiveCommit(s)
        \/ \E refused \in SUBSET Refusable :
              \/ Propose(s, refused) \/ ReceiveProposal(s, refused) \/ ReceiveVote(s, refused)
              \/ \E phase \in Timers : Timeout(s, phase, refused)
  BY DEF Next
<1> SUFFICES \E c : Install(s, c) /\ Told(s, c)
  OBVIOUS
<1>g. SoundInv /\ Told(s, rec[s]) /\ Shaped(rec[s])
  BY OwnSound, GoodRecord, RecordShape DEF ToldInv, Sound
<1>2. CASE Restart(s) \/ InputAvailable(s) \/ ClearStaleAccusation(s) \/ ResumeAfterReplay(s)
           \/ TerminalHalt(s) \/ ReceiveCommit(s)
  BY <1>2, <1>g, ToldOthers
     DEF Restart, InputAvailable, ClearStaleAccusation, ResumeAfterReplay, TerminalHalt, ReceiveCommit
<1>3. CASE StageAccusation(s)
  BY <1>3, <1>g, ToldRetain DEF StageAccusation
<1>4. ASSUME NEW refused \in SUBSET Refusable, Propose(s, refused)
      PROVE  \E c : Install(s, c) /\ Told(s, c)
  BY <1>4, <1>g, ToldPropose DEF Propose
<1>5. ASSUME NEW refused \in SUBSET Refusable, ReceiveProposal(s, refused)
      PROVE  \E c : Install(s, c) /\ Told(s, c)
  BY <1>5, <1>g, ToldReceiveProposal DEF ReceiveProposal
<1>6. ASSUME NEW refused \in SUBSET Refusable, ReceiveVote(s, refused)
      PROVE  \E c : Install(s, c) /\ Told(s, c)
  BY <1>6, <1>g, ToldReceiveVote DEF ReceiveVote
<1>7. ASSUME NEW refused \in SUBSET Refusable, NEW phase \in Timers, Timeout(s, phase, refused)
      PROVE  \E c : Install(s, c) /\ Told(s, c)
  BY <1>7, <1>g, ToldTimeout DEF Timeout
<1> QED
  BY <1>1, <1>2, <1>3, <1>4, <1>5, <1>6, <1>7

\* What was proposed stays proposed.
LEMMA HeardStays ==
  ASSUME excluded' = excluded, NEW s, NEW r \in Rounds, NEW v, Heard(s, r, v),
         \A t \in Active : proposalAt(rec[t], r, v) => proposalAt(rec'[t], r, v)
  PROVE  Heard(s, r, v)'
<1>1. Proposer(r)' = Proposer(r)
  BY DEF Proposer
<1>2. \A t \in Active : proposalAt(rec'[t], r, v) => proposalAt(rec[t], r, v)'
  BY DEF proposalAt
<1> QED
  BY <1>1, <1>2 DEF Heard

LEMMA NextTold ==
  ASSUME ToldInv, [Next]_vars
  PROVE  ToldInv'
<1>1. SoundInv'
  BY NextSound DEF ToldInv
<1>2. /\ excluded' = excluded
      /\ \A t \in Active : \A r \in Rounds : \A v :
            proposalAt(rec[t], r, v) => proposalAt(rec'[t], r, v)
      /\ \A t \in Active : rec'[t] = rec[t] \/ Told(t, rec'[t])
  <2>1. CASE Next
    <3>1. PICK s \in Active : \E c : Install(s, c) /\ Told(s, c)
      BY <2>1, NextInstallsTold
    <3>2. PICK c : Install(s, c) /\ Told(s, c)
      BY <3>1
    <3>3. rec' = [rec EXCEPT ![s] = c] /\ excluded' = excluded /\ rec = [u \in Active |-> rec[u]]
      BY <3>2 DEF Install, ToldInv, SoundInv, Inv
    <3>4. \A t \in Active : rec'[t] = IF t = s THEN c ELSE rec[t]
      BY <3>3
    <3> QED
      BY <3>2, <3>3, <3>4 DEF Told
  <2>2. CASE UNCHANGED vars
    BY <2>2 DEF vars
  <2> QED
    BY <2>1, <2>2
<1>3. ASSUME NEW t \in Active PROVE Told(t, rec[t])'
  <2>1. PICK x : x = rec'[t]
    OBVIOUS
  <2>2. Told(t, x)
    BY <1>2, <2>1 DEF ToldInv
  <2>3. /\ \A r \in Rounds : \A v : proposalAt(x, r, v) => Heard(t, r, v)'
        /\ \A u \in Voters : x.hints[u].kind = "proposal" /\ x.hints[u].round \in Rounds =>
              Heard(t, x.hints[u].round, x.hints[u].proposal.value)'
    <3>1. \A r \in Rounds : \A v : Heard(t, r, v) => Heard(t, r, v)'
      BY <1>2, HeardStays
    <3> QED
      BY <2>2, <3>1 DEF Told
  <2>4. \A u \in Voters : x.hints[u].kind = "proposal" => x.hints[u].round \in Rounds
    <3>1. Good(t, rec[t])'
      BY <1>1 DEF SoundInv, Inv
    <3>2. rec[t].hints' \in HintTables
      BY <3>1 DEF Good, Records
    <3>3. x.hints \in HintTables
      BY <2>1, <3>2
    <3> QED
      BY <3>3 DEF HintTables, NoHint, VoteHints, ProposalHints
  <2> QED
    BY <2>1, <2>2, <2>3, <2>4 DEF Told, proposalAt
<1> QED
  BY <1>1, <1>3 DEF ToldInv

\* What a voter holds as evidence names a Byzantine seat: no order, delay or
\* duplication of what the honest voters sign, and no restart of one, reads as
\* the misbehaviour of an honest voter.
THEOREM EvidenceIsTrue ==
  Spec => [](\A s \in Active : \A e \in rec[s].equivocations : e.seat \in Byzantine)
<1>1. ToldInv => \A s \in Active : \A e \in rec[s].equivocations : e.seat \in Byzantine
  BY DEF ToldInv, Told
<1>2. ToldInv /\ [Next]_vars => ToldInv'
  BY NextTold
<1> QED
  BY InitTold, <1>1, <1>2, PTL DEF Spec

-----------------------------------------------------------------------------
(***************************************************************************)
(* A restart adds nothing to what the live voter did.                      *)
(***************************************************************************)

\* The record of a voter accuses Byzantine seats only.
LEMMA AccusesByzantine ==
  ASSUME ToldInv, NEW s \in Active
  PROVE  AccusedBy(rec[s]) \subseteq Byzantine
<1> DEFINE c == rec[s]
<1>1. c \in Records /\ Told(s, c)
  BY OwnSound, GoodRecord DEF ToldInv, Sound
<1>2. \A v \in Values : Offender[v] \in Byzantine \cup {None}
  BY ConsensusAssumption
<1>3. {c.provenOffender, c.pendingAccusation} \subseteq Byzantine \cup {None}
  BY <1>1, ConsensusAssumption DEF Records, Accused
<1> QED
  BY <1>1, <1>2, <1>3 DEF AccusedBy, Told

\* Not more voters are Byzantine than the membership tolerates, and a voter is
\* excluded for objective evidence only.
FewByzantine == Cardinality(Byzantine) <= Limit
FairlyExcluded == \A e \in Exclusions : e \subseteq Byzantine

LEMMA LoneByzantine ==
  ASSUME FewByzantine
  PROVE  IsFiniteSet(Byzantine) /\ \A b1, b2 \in Byzantine : b1 = b2
<1>1. IsFiniteSet(Byzantine) /\ Cardinality(Byzantine) \in Nat
  BY VotersFinite, ConsensusAssumption, FS_Subset, FS_CardinalityType
<1>2. ~(Cardinality(Byzantine) > 1)
  BY <1>1 DEF FewByzantine, Limit, tolerated
<1> QED
  BY <1>1, <1>2, LoneElement

\* Evidence against the lone Byzantine voter does not stop an honest one.
LEMMA NoControlFault ==
  ASSUME FewByzantine, excluded \subseteq Byzantine, NEW s \in Honest,
         NEW c, c.provenOffender \in Accused, NEW o \in Byzantine
  PROVE  ~ControlFault(s, c, o)
<1>1. s \notin Byzantine /\ c.provenOffender \in Byzantine \cup {None}
  BY ConsensusAssumption DEF Honest, Accused
<1> QED
  BY <1>1, LoneByzantine DEF ControlFault

LEMMA RestoredSame ==
  ASSUME FewByzantine, ToldInv, excluded \subseteq Byzantine, NEW s \in Active, s \in Honest
  PROVE  restored(s, rec[s]) = rec[s]
<1> DEFINE c == rec[s]
           A == AccusedBy(c)
<1>1. A \subseteq Byzantine /\ s \notin Byzantine
  BY AccusesByzantine DEF Honest
<1>2. c.provenOffender \in Accused
  BY OwnSound, GoodRecord DEF ToldInv, Sound, Records
<1>3. \A o \in A : ~ControlFault(s, c, o)
  BY <1>1, <1>2, NoControlFault
<1> HIDE DEF A
<1>4. ~(Cardinality(A) > 1)
  <2>1. CASE A = {}
    BY <2>1, FS_EmptySet
  <2>2. CASE A # {}
    <3>1. PICK o \in A : TRUE
      BY <2>2
    <3>2. A = {o}
      BY <1>1, <3>1, LoneByzantine
    <3>3. Cardinality({o}) = 1
      BY ONLY FS_Singleton
    <3> QED
      BY ONLY <3>2, <3>3
  <2> QED
    BY <2>1, <2>2
<1> QED
  BY <1>1, <1>3, <1>4 DEF restored, A

\* With one Byzantine voter at most, restoring an honest voter gives exactly the
\* record that the crash left.
THEOREM RestartsAreExact ==
  ASSUME Active \subseteq Honest, FewByzantine, FairlyExcluded
  PROVE  Spec => []RestartIsExact
<1>1. ToldInv => RestartIsExact
  <2> SUFFICES ASSUME ToldInv, NEW s \in Active PROVE restored(s, rec[s]) = rec[s]
    BY DEF RestartIsExact
  <2>1. excluded \subseteq Byzantine
    BY DEF ToldInv, SoundInv, Inv, FairlyExcluded
  <2> QED
    BY <2>1, RestoredSame
<1>2. ToldInv /\ [Next]_vars => ToldInv'
  BY NextTold
<1> QED
  BY InitTold, <1>1, <1>2, PTL DEF Spec

-----------------------------------------------------------------------------
(***************************************************************************)
(* One Byzantine voter cannot make an honest one halt.                     *)
(***************************************************************************)

\* Two certified values of the height, as far as s can tell from these votes.
Conflict(s, votes) ==
    \E r1, r2 \in Rounds : \E v1, v2 \in Values :
        /\ v1 # v2
        /\ Backs(s, votes, "precommit", r1, v1) /\ Backs(s, votes, "precommit", r2, v2)

\* Only such a conflict stops an honest voter.
Upright(s, c) == c.halted = None \/ Conflict(s, c.votes)

\* What the honest voters decided is certified.
Decided(s) ==
    rec[s].decision # None =>
        \E r \in Rounds : Backs(s, rec[s].votes, "precommit", r, rec[s].decision)

\* A single Byzantine voter, and every honest voter runs and can validate what
\* is certified.
Orderly ==
    /\ FewByzantine /\ FairlyExcluded /\ Honest \subseteq Active
    /\ \A s \in Honest : Rejects[s] = {}

Peaceful(s) == Orderly /\ ToldInv /\ Decided(s)

LEMMA PeaceFacts ==
  ASSUME NEW s \in Honest, Peaceful(s)
  PROVE  /\ s \in Active /\ s \notin Byzantine /\ excluded \subseteq Byzantine
         /\ FewByzantine /\ SoundInv /\ Inv /\ Told(s, rec[s]) /\ Sound(s, rec[s])
         /\ Good(s, rec[s]) /\ rec[s] \in Records /\ Shaped(rec[s]) /\ Rejects[s] = {}
BY OwnSound, GoodRecord, RecordShape
   DEF Peaceful, Orderly, ToldInv, SoundInv, Inv, FairlyExcluded, Honest, Sound

\* The decision of a record stays certified through a transition.
LEMMA DecisionBacked ==
  ASSUME NEW s \in Honest, Peaceful(s), NEW c, Good(s, c), c.decision # None
  PROVE  /\ c.decision \in Values
         /\ \E r \in Rounds : Backs(s, c.votes, "precommit", r, c.decision)
<1>0. /\ s \in Active /\ Inv /\ c \in Records /\ MovesDecision(s, c.votes, c.decision)
  BY PeaceFacts, GoodRecord DEF Moves
<1>1. c.decision \in Values
  BY <1>0 DEF Records
<1>2. CASE c.decision = rec[s].decision
  <2>1. PICK r \in Rounds : Backs(s, rec[s].votes, "precommit", r, c.decision)
    BY <1>2 DEF Peaceful, Decided
  <2>2. PICK signers \in Quorums : \A t \in signers \ Byzantine :
           t \in Active /\ Cast(s, rec[s].votes, "precommit", t, r) = c.decision
    BY <2>1 DEF Backs
  <2>3. rec[s].votes["precommit"][s][r] = c.decision => c.votes["precommit"][s][r] = c.decision
    BY <1>0, RoundFacts, OwnVotesStay
  <2>4. \A t \in signers \ Byzantine :
           t \in Active /\ Cast(s, c.votes, "precommit", t, r) = c.decision
    BY <2>2, <2>3 DEF Cast
  <2>5. Backs(s, c.votes, "precommit", r, c.decision)
    BY <2>4 DEF Backs
  <2> QED
    BY <1>1, <2>5
<1>3. CASE c.decision # rec[s].decision
  BY <1>0, <1>1, <1>3 DEF MovesDecision
<1> QED
  BY <1>2, <1>3

\* A second certified value is a conflict.
LEMMA SecondValue ==
  ASSUME NEW s \in Honest, Peaceful(s), NEW c, Good(s, c), NEW r \in Rounds, NEW v \in Values,
         Backs(s, c.votes, "precommit", r, v), c.decision \notin {None, v}
  PROVE  Conflict(s, c.votes)
BY DecisionBacked DEF Conflict

LEMMA CommitAtUpright ==
  ASSUME NEW s \in Honest, Peaceful(s), NEW c, Good(s, c), Upright(s, c), NEW r \in Rounds
  PROVE  /\ Good(s, commitAt(s, c, r)) /\ Upright(s, commitAt(s, c, r))
         /\ commitAt(s, c, r).votes = c.votes
<1> DEFINE certified == {v \in Values : quorumFor(c, r, "precommit", v) /\ proposalAt(c, r, v)}
           v == CHOOSE x \in certified : TRUE
           d == commitAt(s, c, r)
<1>0. /\ s \in Active /\ s \notin Byzantine /\ c \in Records /\ Rejects[s] = {}
      /\ FewByzantine /\ excluded \subseteq Byzantine /\ c.provenOffender \in Accused
  BY PeaceFacts, GoodRecord DEF Records
<1>1. Good(s, d)
  BY <1>0, CommitAtGood
<1>2. CASE certified = {} \/ c.halted = "terminal"
  BY <1>1, <1>2 DEF commitAt
<1>3. CASE certified # {} /\ c.halted # "terminal"
  <2>1. v \in Values /\ quorumFor(c, r, "precommit", v) /\ v # None
    BY <1>3, RoundFacts
  <2>2. Offender[v] # None => ~ControlFault(s, c, Offender[v])
    BY <1>0, <2>1, NoControlFault, ConsensusAssumption
  <2>3. d = IF c.decision \notin {None, v} THEN halt(c) ELSE [c EXCEPT !.decision = v]
    BY <1>0, <1>3, <2>2 DEF commitAt
  <2> HIDE DEF v, d
  <2>4. Backs(s, c.votes, "precommit", r, v)
    BY <1>0, <2>1, QuorumBacks, RoundFacts
  <2>5. c.decision \notin {None, v} => Conflict(s, c.votes)
    BY <2>1, <2>4, SecondValue
  <2>6. /\ halt(c).votes = c.votes /\ [c EXCEPT !.decision = v].votes = c.votes
        /\ [c EXCEPT !.decision = v].halted = c.halted
    BY <1>0 DEF halt, Records
  <2> QED
    BY <1>1, <2>3, <2>5, <2>6 DEF Upright, d
<1> QED
  BY <1>2, <1>3

LEMMA MaybeCommitUpright ==
  ASSUME NEW s \in Honest, Peaceful(s), NEW c, Good(s, c), Upright(s, c)
  PROVE  Good(s, maybeCommit(s, c)) /\ Upright(s, maybeCommit(s, c))
<1> DEFINE A(x, r) == commitAt(s, x, r)
           Fine(x) == Good(s, x) /\ Upright(s, x)
<1>2. MaxRound \in Nat /\ \A r \in Nat : r > 0 /\ r <= MaxRound => r \in Rounds
  BY RoundFacts DEF Rounds
<1>3. ASSUME NEW x, Fine(x), NEW r \in Rounds PROVE Fine(A(x, r))
  BY <1>3, CommitAtUpright
<1>4. Fine(c)
  OBVIOUS
<1>5. PICK upTo : /\ maybeCommit(s, c) = upTo[MaxRound]
                  /\ \A r \in 0..MaxRound :
                        upTo[r] = IF r = 0 THEN c ELSE A(upTo[r - 1], r)
  BY CommitLoop
<1> HIDE DEF A, Fine
<1>8. Fine(upTo[MaxRound])
  <2> DEFINE T == {k \in Nat : k <= MaxRound /\ ~Fine(upTo[k])}
  <2>1. SUFFICES ASSUME T # {} PROVE FALSE
    BY <1>2
  <2>2. T \subseteq Nat
    OBVIOUS
  <2> HIDE DEF T
  <2>3. PICK k \in T : \A j \in T : k <= j
    BY ONLY <2>1, <2>2, LeastExists
  <2>4. k \in Nat /\ k <= MaxRound /\ ~Fine(upTo[k])
    BY <2>3 DEF T
  <2>5. CASE k = 0
    BY <1>2, <1>4, <1>5, <2>4, <2>5
  <2>6. CASE k > 0
    <3>1. k - 1 \in Nat /\ k - 1 \notin T /\ k - 1 <= MaxRound
      BY <1>2, <2>3, <2>4, <2>6
    <3>2. Fine(upTo[k - 1])
      BY <3>1 DEF T
    <3>3. upTo[k] = A(upTo[k - 1], k) /\ k \in Rounds
      BY <1>2, <1>5, <2>4, <2>6
    <3>4. Fine(A(upTo[k - 1], k))
      BY <1>3, <3>2, <3>3
    <3> QED
      BY <2>4, <3>3, <3>4
  <2> QED
    BY <2>4, <2>5, <2>6
<1> QED
  BY <1>5, <1>8 DEF Fine

\* The helpers that do not stop a voter.
LEMMA HaltedStays ==
  ASSUME NEW s, NEW c, Shaped(c), NEW refused, NEW p, NEW t, NEW r, NEW phase, NEW ballot, NEW hint
  PROVE  /\ signLocalVote(s, c, phase, ballot, refused).halted = c.halted
         /\ prevoteProposal(s, c, p, refused).halted = c.halted
         /\ enterRound(s, c, r).halted = c.halted /\ maybeJump(s, c).halted = c.halted
         /\ addHint(c, t, hint).halted = c.halted
         /\ recordVote(c, t, r, phase, ballot).halted = c.halted
         /\ recordProposal(c, p).halted = c.halted
<1>1. \A x, f, b, q : Shaped(x) => signLocalVote(s, x, f, b, q).halted = x.halted
  BY DEF signLocalVote, Shaped, Fields
<1>2. \A x, y : prevoteProposal(s, c, x, y).halted = c.halted
  BY <1>1 DEF prevoteProposal
<1>3. \A x : enterRound(s, c, x).halted = c.halted
  BY DEF enterRound, Shaped, Fields
<1>4. maybeJump(s, c).halted = c.halted
  BY <1>3 DEF maybeJump
<1>5. /\ addHint(c, t, hint).halted = c.halted /\ recordProposal(c, p).halted = c.halted
      /\ recordVote(c, t, r, phase, ballot).halted = c.halted
  BY DEF addHint, recordProposal, recordVote, Shaped, Fields
<1> QED
  BY <1>1, <1>2, <1>3, <1>4, <1>5

LEMMA DrivesOn ==
  ASSUME NEW s, NEW c, Shaped(c), NEW refused
  PROVE  /\ driveProposal(s, c, refused).halted = c.halted
         /\ drivePrevotes(s, c, refused).halted = c.halted
         /\ driveNil(s, c).halted = c.halted /\ driveTimers(c).halted = c.halted
<1>1. \A x, f, b, q : Shaped(x) => signLocalVote(s, x, f, b, q).halted = x.halted
  BY DEF signLocalVote, Shaped, Fields
<1>2. \A x, y : prevoteProposal(s, c, x, y).halted = c.halted
  BY <1>1 DEF prevoteProposal
<1>3. drivePrevotes(s, c, refused).halted = c.halted
  <2> DEFINE certified == {p \in ToSet(c.proposals[c.round]) :
                              quorumFor(c, c.round, "prevote", p.value)}
             value == (CHOOSE p \in certified : TRUE).value
             valid == [c EXCEPT !.valid = QuorumValue(c.round, value)]
             withValid == IF c.valid.round < c.round THEN valid ELSE c
             locked == [withValid EXCEPT !.locked = QuorumValue(c.round, value)]
  <2>1. drivePrevotes(s, c, refused)
           \in {c, withValid, signLocalVote(s, locked, "precommit", value, refused)}
    BY DEF drivePrevotes
  <2> HIDE DEF value
  <2>2. Shaped(withValid) /\ withValid.halted = c.halted
    BY DEF Shaped, Fields
  <2> HIDE DEF withValid
  <2>3. Shaped(locked) /\ locked.halted = c.halted
    BY <2>2 DEF Shaped, Fields
  <2> HIDE DEF locked
  <2> QED
    BY <1>1, <2>1, <2>2, <2>3
<1>4. driveProposal(s, c, refused).halted = c.halted
  BY <1>2 DEF driveProposal
<1>5. driveNil(s, c).halted = c.halted /\ driveTimers(c).halted = c.halted
  BY <1>1 DEF driveNil, driveTimers, Shaped, Fields
<1> QED
  BY <1>3, <1>4, <1>5

LEMMA GoodShape ==
  ASSUME NEW s, NEW c, Good(s, c)
  PROVE  Shaped(c)
BY RecordShape DEF Good

LEMMA DriveUpright ==
  ASSUME NEW s \in Honest, Peaceful(s), NEW c, Good(s, c), c.halted = None, NEW refused
  PROVE  Upright(s, drive(s, c, refused))
<1> DEFINE c0 == maybeCommit(s, c)
           c1 == driveProposal(s, c0, refused)
           c2 == drivePrevotes(s, c1, refused)
           c3 == driveNil(s, c2)
           c4 == driveTimers(c3)
<1>0. s \in Active
  BY PeaceFacts
<1>1. Good(s, c0) /\ Upright(s, c0)
  BY MaybeCommitUpright DEF Upright
<1>2. drive(s, c, refused) = IF c0.halted # None \/ c0.decision # None THEN c0 ELSE maybeCommit(s, c4)
  BY DEF drive
<1> HIDE DEF c0
<1>3. Good(s, c1) /\ c1.halted = c0.halted
  <2>1. Good(s, c1)
    BY <1>0, <1>1, DriveProposalGood
  <2>2. Shaped(c0)
    BY <1>1, GoodShape
  <2> QED
    BY <2>1, <2>2, DrivesOn
<1> HIDE DEF c1
<1>4. Good(s, c2) /\ c2.halted = c1.halted
  <2>1. Good(s, c2)
    BY <1>0, <1>3, DrivePrevotesGood
  <2>2. Shaped(c1)
    BY <1>3, GoodShape
  <2> QED
    BY <2>1, <2>2, DrivesOn
<1> HIDE DEF c2
<1>5. Good(s, c3) /\ c3.halted = c2.halted
  BY <1>0, <1>4, DriveNilGood, DrivesOn, GoodShape
<1> HIDE DEF c3
<1>6. Good(s, c4) /\ c4.halted = c3.halted
  BY <1>0, <1>5, DriveTimersGood, DrivesOn, GoodShape
<1> HIDE DEF c4
<1>7. c0.halted = None => Upright(s, maybeCommit(s, c4))
  BY <1>3, <1>4, <1>5, <1>6, MaybeCommitUpright DEF Upright
<1> QED
  BY <1>1, <1>2, <1>7

LEMMA NoThreshold ==
  ASSUME NEW s \in Honest, Peaceful(s), NEW c, c.provenOffender \in Accused, Told(s, c)
  PROVE  Equivocators(c) \subseteq Byzantine /\ haltIfFaultThresholdExceeded(s, c) = c
<1>1. Equivocators(c) \subseteq Byzantine
  BY PeaceFacts, ConsensusAssumption DEF Told, Equivocators, Accused
<1>2. /\ IsFiniteSet(Byzantine) /\ Cardinality(Byzantine) \in Nat
      /\ Cardinality(Byzantine) <= Limit
  BY PeaceFacts, LoneByzantine, FS_CardinalityType DEF FewByzantine
<1>3. /\ Cardinality(Equivocators(c)) <= Cardinality(Byzantine)
      /\ Cardinality(Equivocators(c)) \in Nat
  BY <1>1, <1>2, FS_Subset, FS_CardinalityType
<1>4. ~(Cardinality(Equivocators(c)) > Limit)
  BY <1>2, <1>3, LimitInt
<1>5. s \notin Equivocators(c)
  BY <1>1, PeaceFacts
<1> QED
  BY <1>1, <1>4, <1>5 DEF haltIfFaultThresholdExceeded, Limit

LEMMA RetainCalm ==
  ASSUME NEW s \in Honest, Peaceful(s), NEW c \in Records, NEW o \in Byzantine
  PROVE  retainAccusation(s, c, o, FALSE).halted = c.halted
<1>1. ~ControlFault(s, c, o)
  BY PeaceFacts, NoControlFault DEF Records
<1> QED
  BY <1>1 DEF retainAccusation, Records

LEMMA ProposeUpright ==
  ASSUME NEW s \in Honest, Peaceful(s), rec[s].halted = None, NEW candidate \in Values,
         NEW refused \in SUBSET Refusable
  PROVE  Upright(s, propose(s, rec[s], candidate, refused, FALSE))
<1> DEFINE c == rec[s]
           value == IF c.valid # NoQuorumValue THEN c.valid.value ELSE candidate
           p == [term |-> c.round, value |-> value, validRound |-> c.valid.round]
           known == [c EXCEPT !.inputKnown = TRUE]
           retained == IF Offender[value] = None THEN known
                       ELSE retainAccusation(s, known, Offender[value], FALSE)
           noted == recordProposal(retained, p)
           voted == prevoteProposal(s, noted, p, refused)
           d == propose(s, c, candidate, refused, FALSE)
<1>0. /\ s \in Active /\ Good(s, c) /\ c \in Records /\ c.valid \in QuorumValues
      /\ c.round \in Rounds /\ c.round \in Nat
  BY PeaceFacts, GoodRecord, RoundFacts
<1>1. \/ d \in {c, retained}
      \/ c.proposals[c.round] = <<>> /\ d = drive(s, voted, refused)
  BY DEF propose
<1>2. value \in Values
  BY <1>0 DEF QuorumValues
<1>3. known \in Records /\ Same(c, known) /\ known.halted = None
  BY <1>0, InputSame DEF Records
<1>4. Same(c, retained) /\ retained.halted = None
  <2> HIDE DEF value, known
  <2>1. Offender[value] # None =>
           /\ Offender[value] \in Byzantine /\ Offender[value] \in Accusable
           /\ Same(known, retainAccusation(s, known, Offender[value], FALSE))
    BY <1>2, <1>3, AccusedFacts, RetainSame
  <2>2. Offender[value] # None => retainAccusation(s, known, Offender[value], FALSE).halted = None
    BY <1>3, <2>1, RetainCalm
  <2>3. Offender[value] # None =>
           Same(c, retainAccusation(s, known, Offender[value], FALSE))
    BY <1>3, <2>1, SameTwice
  <2> QED
    BY <1>3, <2>2, <2>3
<1>5. c.proposals[c.round] = <<>> => p \in Proposals /\ Backed(s, c.votes, p) /\ p.term = c.round
  BY <1>0, OwnProposal
<1>6. Good(s, retained) /\ retained.round = c.round /\ retained.votes = c.votes
  BY <1>0, <1>4, SameGood DEF Same
<1> HIDE DEF p, retained, c, d
<1>7. ASSUME c.proposals[c.round] = <<>> PROVE Upright(s, drive(s, voted, refused))
  <2>1. p \in Proposals /\ Backed(s, retained.votes, p) /\ p.term <= retained.round
    BY <1>0, <1>5, <1>6, <1>7
  <2>2. Good(s, noted) /\ noted.votes = retained.votes
    BY <1>0, <1>6, <2>1, RecordProposalGood DEF Untouched
  <2>3. noted.halted = None
    BY <1>4, <1>6, GoodShape, HaltedStays
  <2> HIDE DEF noted
  <2>4. Good(s, voted)
    BY <1>0, <2>1, <2>2, PrevoteProposalGood
  <2>5. voted.halted = None
    <3>1. Shaped(noted)
      BY <2>2, GoodShape
    <3> QED
      BY <2>3, <3>1, HaltedStays
  <2> HIDE DEF voted
  <2> QED
    BY <2>4, <2>5, DriveUpright
<1> QED
  BY <1>1, <1>4, <1>7 DEF Upright, c, d

LEMMA ReceiveRoundUpright ==
  ASSUME NEW s \in Honest, Peaceful(s), NEW c, Sound(s, c), Unvoted(s, c.votes, c.locked),
         c.inputKnown, Told(s, c), c.halted = None, NEW p \in Proposals, Proposed(p),
         NEW refused \in SUBSET Refusable,
         Proposer(p.term) = s => proposalAt(c, p.term, p.value)
  PROVE  Upright(s, receiveRound(s, c, p, refused))
<1> DEFINE hint == ProposalHint(p)
           hinted == addHint(c, Proposer(p.term), hint)
           c1 == IF p.term > c.round THEN maybeJump(s, hinted) ELSE c
           c2 == recordProposal(c1, p)
           c3 == haltIfFaultThresholdExceeded(s, c2)
           c4 == IF c3.decision # None THEN c3 ELSE prevoteProposal(s, c3, p, refused)
           d == receiveRound(s, c, p, refused)
<1>0. /\ s \in Active /\ SoundInv /\ Inv /\ Good(s, c) /\ c \in Records /\ p.term \in Rounds
      /\ PlacedProposals(c.round, c.proposals) /\ Shaped(c)
  BY PeaceFacts, GoodRecord, RecordShape DEF Sound, Placed, Proposals
<1>1. \/ d = c1
      \/ ~(p.term > c1.round) /\ (d \in {c2, c3} \/ d = drive(s, c4, refused))
  BY DEF receiveRound
<1>2. p.term > c.round => Proposer(p.term) # s
  BY <1>0 DEF PlacedProposals, proposalAt, ToSet
<1>3. p.term > c.round => Told(s, hinted) /\ Sound(s, hinted) /\ Unvoted(s, hinted.votes, hinted.locked)
  <2>1. /\ Proposer(p.term) \in Voters /\ hint \in ProposalHints
        /\ KnownHint(s, c.votes, Proposer(p.term), hint)
    BY <1>0, ProposalHinted
  <2>2. hint.round = p.term /\ hint.proposal = p
    BY DEF ProposalHint
  <2>3. Heard(s, hint.round, hint.proposal.value)
    BY <2>2, ProposedHeard
  <2> HIDE DEF hint
  <2> QED
    BY <1>0, <1>2, <2>1, <2>2, <2>3, AddHintSound, ToldHint DEF Untouched
<1>4. hinted.halted = None /\ Shaped(hinted)
  BY <1>0, HaltedStays, RecordShaped
<1> HIDE DEF hinted
<1>5. Sound(s, c1) /\ Told(s, c1)
  BY <1>0, <1>3, MaybeJumpSound, ToldJump
<1>6. c1.halted = None
  BY <1>4, HaltedStays
<1>7. Proposer(p.term) = s => c1.proposals[p.term] = <<>> \/ proposalAt(c1, p.term, p.value)
  BY <1>2
<1> HIDE DEF c1, d
<1>8. c1 \in Records /\ Good(s, c1) /\ Shaped(c1) /\ c1.round \in Nat /\ p.term \in Nat
  <2>1. c1 \in Records /\ Good(s, c1) /\ c1.round \in Rounds
    BY <1>0, <1>5, GoodRecord DEF Sound
  <2> QED
    BY <1>0, <2>1, RecordShape, RoundFacts
<1>9. c2.halted = None /\ Told(s, c2)
  BY <1>0, <1>5, <1>6, <1>7, <1>8, ProposedHeard, ToldProposal, HaltedStays
<1>10. ASSUME ~(p.term > c1.round)
       PROVE  Upright(s, c3) /\ Upright(s, drive(s, c4, refused))
  <2>1. p.term <= c1.round
    BY <1>8, <1>10
  <2>2. Backed(s, c1.votes, p)
    BY <1>0, <1>8, ProposedBacked, BackedLater
  <2>3. Good(s, c2) /\ c2.votes = c1.votes
    BY <1>0, <1>8, <2>1, <2>2, RecordProposalGood DEF Untouched
  <2> HIDE DEF c2
  <2>4. c2.provenOffender \in Accused
    BY <2>3 DEF Good, Records
  <2>5. c3 = c2
    BY <1>9, <2>4, NoThreshold
  <2> HIDE DEF c3
  <2>6. Good(s, prevoteProposal(s, c2, p, refused))
    BY <1>0, <2>2, <2>3, PrevoteProposalGood
  <2>7. prevoteProposal(s, c2, p, refused).halted = None
    BY <1>9, <2>3, GoodShape, HaltedStays
  <2>8. Good(s, c4) /\ c4.halted = None
    BY <1>9, <2>3, <2>5, <2>6, <2>7
  <2> HIDE DEF c4
  <2> QED
    BY <1>9, <2>5, <2>8, DriveUpright DEF Upright
<1> QED
  BY <1>1, <1>6, <1>9, <1>10 DEF Upright, d

LEMMA ReceiveProposalUpright ==
  ASSUME NEW s \in Honest, Peaceful(s), rec[s].halted = None, NEW p \in Proposals, Proposed(p),
         NEW signers \in IF p.validRound = 0 THEN {{}}
                         ELSE CertificatesFor(p.validRound, "prevote", p.value),
         NEW refused \in SUBSET Refusable
  PROVE  Upright(s, receiveProposal(s, rec[s], p, signers, refused, FALSE))
<1> DEFINE c == rec[s]
           o == Offender[p.value]
           c1 == IF o = None THEN c ELSE retainAccusation(s, c, o, FALSE)
           known == [c1 EXCEPT !.inputKnown = TRUE]
           d == receiveProposal(s, c, p, signers, refused, FALSE)
<1>0. /\ s \in Active /\ s \notin Byzantine /\ Sound(s, c) /\ Good(s, c) /\ c \in Records
      /\ Unvoted(s, c.votes, c.locked) /\ p.value \in Values /\ Shaped(c) /\ Told(s, c)
      /\ FewByzantine /\ excluded \subseteq Byzantine
  BY PeaceFacts, OwnGood DEF Proposals
<1>1. o # None => o \in Accusable /\ o \in Byzantine /\ ~ControlFault(s, c, o)
  BY <1>0, AccusedFacts, NoControlFault DEF Records
<1>2. /\ Same(c, c1) /\ Sound(s, c1) /\ Told(s, c1) /\ c1.halted = None
  <2>1. o # None => retainAccusation(s, c, o, FALSE).halted = None
    BY <1>0, <1>1, RetainCalm
  <2>2. o # None => Same(c, retainAccusation(s, c, o, FALSE)) /\ Sound(s, retainAccusation(s, c, o, FALSE))
    BY <1>0, <1>1, RetainSame, RetainSound
  <2>3. o # None => Told(s, retainAccusation(s, c, o, FALSE))
    BY <1>0, ToldRetain
  <2> QED
    BY <1>0, <2>1, <2>2, <2>3, HaltSame
<1>3. ~UnrecordedOwnVote(s, c1, signers, "prevote", p.validRound, p.value)
  <2>1. s \in signers => c.votes["prevote"][s][p.validRound] = p.value
    BY <1>0 DEF CertificatesFor, Signed
  <2> HIDE DEF c1, c
  <2> QED
    BY <1>2, <2>1 DEF UnrecordedOwnVote, Same
<1>4. Proposer(p.term) = s => proposalAt(c1, p.term, p.value)
  <2>1. Proposer(p.term) = s => p \in ToSet(c.proposals[p.term])
    BY <1>0 DEF Proposed
  <2> HIDE DEF c1, c
  <2> QED
    BY <1>2, <2>1 DEF proposalAt, Same
<1>5. ~UnrecordedOwnProposal(s, c1, p)
  BY <1>4 DEF UnrecordedOwnProposal
<1>6. d \in {c, c1} \/ d = receiveRound(s, known, p, refused)
  BY <1>1, <1>3, <1>5 DEF receiveProposal
<1> HIDE DEF c1, d
<1>7. c1 \in Records
  BY <1>2 DEF Same
<1>8. Sound(s, known) /\ Same(c, known) /\ known.inputKnown /\ Same(c1, known)
      /\ known.equivocations = c1.equivocations /\ known.halted = c1.halted
  BY <1>0, <1>2, <1>7, InputSound, InputSame, SameTwice DEF Records
<1> HIDE DEF known
<1>9. Unvoted(s, known.votes, known.locked) /\ Told(s, known)
  BY <1>0, <1>2, <1>8, ToldSame DEF Same
<1>10. Proposer(p.term) = s => proposalAt(known, p.term, p.value)
  BY <1>4, <1>8 DEF proposalAt, Same
<1>11. Upright(s, receiveRound(s, known, p, refused))
  BY <1>2, <1>8, <1>9, <1>10, ReceiveRoundUpright
<1> QED
  BY <1>2, <1>6, <1>11 DEF Upright, d

LEMMA ReceiveVoteUpright ==
  ASSUME NEW s \in Honest, Peaceful(s), rec[s].halted = None, NEW t \in Voters, NEW r \in Rounds,
         NEW phase \in Phases, NEW ballot \in Ballots, Signed(t, r, phase, ballot),
         NEW refused \in SUBSET Refusable
  PROVE  Upright(s, receiveVote(s, rec[s], t, r, phase, ballot, refused))
<1> DEFINE c == rec[s]
           hint == VoteHint(r, phase, ballot)
           hinted == addHint(c, t, hint)
           c1 == IF r > c.round THEN maybeJump(s, hinted) ELSE c
           recorded == recordVote(c1, t, r, phase, ballot)
           c2 == haltIfFaultThresholdExceeded(s, recorded)
           d == receiveVote(s, c, t, r, phase, ballot, refused)
<1>0. /\ s \in Active /\ s \notin Byzantine /\ SoundInv /\ Inv /\ Good(s, c) /\ Sound(s, c)
      /\ Unvoted(s, c.votes, c.locked) /\ c \in Records /\ Shaped(c) /\ Told(s, c)
      /\ c.round \in Rounds /\ NoneAhead(c.round, c.votes) /\ ballot # None
  BY PeaceFacts, OwnGood, GoodRecord, RoundFacts DEF Placed, PlacedVotes, Ballots
<1>1. t \notin Byzantine => t \in Active /\ rec[t].votes[phase][t][r] = ballot
  BY DEF Signed
<1>2. \/ d = c1
      \/ ~(r > c1.round) /\ d \in {c2, drive(s, c2, refused)}
  BY <1>0, <1>1 DEF receiveVote
<1>3. r > c.round => t # s
  BY <1>0, <1>1 DEF NoneAhead
<1>4. r > c.round => Sound(s, hinted) /\ Unvoted(s, hinted.votes, hinted.locked) /\ Told(s, hinted)
  <2>1. hint \in VoteHints /\ hint.round = r /\ hint.kind # "proposal"
    BY DEF VoteHint, VoteHints
  <2>2. r > c.round => KnownHint(s, c.votes, t, hint)
    BY <1>1, <1>3 DEF KnownHint, VoteHint
  <2> HIDE DEF hint
  <2>3. Told(s, hinted)
    BY <1>0, <2>1, ToldHint
  <2> QED
    BY <1>0, <1>3, <2>1, <2>2, <2>3, AddHintSound DEF Untouched
<1>5. hinted.halted = None /\ Shaped(hinted)
  BY <1>0, HaltedStays, RecordShaped
<1> HIDE DEF hinted
<1>6. Sound(s, c1) /\ Told(s, c1)
  BY <1>0, <1>4, MaybeJumpSound, ToldJump
<1>7. c1.halted = None
  BY <1>5, HaltedStays
<1>8. t = s => c1.votes[phase][s][r] = ballot
  BY <1>0, <1>1, <1>3
<1> HIDE DEF c1, d
<1>9. /\ c1 \in Records /\ Good(s, c1) /\ Shaped(c1) /\ KnownVotes(s, c1.votes)
      /\ c1.round \in Nat /\ r \in Nat
  <2>1. c1 \in Records /\ Good(s, c1) /\ c1.round \in Rounds /\ KnownVotes(s, c1.votes)
    BY <1>0, <1>6, GoodRecord DEF Sound, Known
  <2> QED
    BY <2>1, RecordShape, RoundFacts
<1>10. ASSUME ~(r > c1.round) PROVE Upright(s, c2) /\ Upright(s, drive(s, c2, refused))
  <2>1. r <= c1.round
    BY <1>9, <1>10
  <2>2. Good(s, recorded)
    BY <1>0, <1>1, <1>8, <1>9, <2>1, RecordVoteGood
  <2>3. t \in Byzantine \/ c1.votes[phase][t][r] \in {None, ballot}
    BY <1>1, <1>8, <1>9 DEF KnownVotes
  <2>4. Told(s, recorded)
    BY <1>6, <1>9, <2>3, ToldVote
  <2>5. recorded.halted = None
    BY <1>7, <1>9, HaltedStays
  <2> HIDE DEF recorded
  <2>6. recorded.provenOffender \in Accused
    BY <2>2 DEF Good, Records
  <2>7. c2 = recorded
    BY <2>4, <2>6, NoThreshold
  <2> HIDE DEF c2
  <2> QED
    BY <2>2, <2>5, <2>7, DriveUpright DEF Upright
<1> QED
  BY <1>2, <1>7, <1>10 DEF Upright, d

LEMMA ReceiveCommitUpright ==
  ASSUME NEW s \in Honest, Peaceful(s), rec[s].halted = None, NEW r \in Rounds, NEW value \in Values,
         Entered(r, value), NEW signers \in CertificatesFor(r, "precommit", value)
  PROVE  Upright(s, receiveCommit(s, rec[s], r, value, signers))
<1> DEFINE c == rec[s]
           d == receiveCommit(s, c, r, value, signers)
<1>0. /\ s \in Active /\ s \notin Byzantine /\ Good(s, c) /\ c \in Records /\ Rejects[s] = {}
      /\ FewByzantine /\ excluded \subseteq Byzantine /\ c.provenOffender \in Accused
  BY PeaceFacts DEF Records
<1>1. ~UnrecordedOwnVote(s, c, signers, "precommit", r, value)
  BY <1>0 DEF CertificatesFor, Signed, UnrecordedOwnVote
<1>2. ~(Proposer(r) = s /\ ~proposalAt(c, r, value))
  BY <1>0 DEF Entered
<1>3. Offender[value] # None => ~ControlFault(s, c, Offender[value])
  BY <1>0, AccusedFacts, NoControlFault
<1>4. \/ c.decision \notin {None, value} /\ d = halt(c)
      \/ d \in {c, [c EXCEPT !.decision = value]}
  BY <1>0, <1>1, <1>2, <1>3 DEF receiveCommit
<1>5. Backs(s, c.votes, "precommit", r, value)
  BY <1>0, CertificateBacks, RoundFacts
<1>6. c.decision \notin {None, value} => Conflict(s, c.votes)
  BY <1>0, <1>5, SecondValue
<1>7. /\ halt(c).votes = c.votes /\ [c EXCEPT !.decision = value].votes = c.votes
      /\ [c EXCEPT !.decision = value].halted = c.halted
  BY <1>0 DEF halt, Records
<1> QED
  BY <1>4, <1>6, <1>7 DEF Upright

LEMMA TimeoutUpright ==
  ASSUME NEW s \in Honest, Peaceful(s), rec[s].halted = None, NEW phase \in Timers,
         NEW refused \in SUBSET Refusable, phase = "precommit" => rec[s].round < MaxRound
  PROVE  Upright(s, timeout(s, rec[s], phase, refused))
<1> DEFINE c == rec[s]
           signed == signLocalVote(s, c, "prevote", Nil, {})
           prevoted == IF c.step = "propose" THEN signed ELSE c
           nothing == signLocalVote(s, prevoted, "precommit", Nil, {})
           left == enterRound(s, c, c.round + 1)
           d == timeout(s, c, phase, refused)
<1>0. /\ s \in Active /\ Good(s, c) /\ Unvoted(s, c.votes, c.locked) /\ c \in Records
      /\ c.round \in Rounds /\ PlacedTimers(c.timers, c.round, c.votes) /\ Shaped(c)
  BY PeaceFacts, OwnGood, GoodRecord DEF Placed
<1>1. \/ d = c
      \/ c.step = "propose" /\ d = drive(s, prevoted, refused)
      \/ c.step \in {"propose", "prevote"} /\ d = drive(s, nothing, refused)
      \/ phase = "precommit" /\ phase \in c.timers /\ d = drive(s, left, refused)
  BY DEF timeout, Timers, Phases
<1>2. signed.halted = None
  BY <1>0 DEF signLocalVote, Shaped, Fields
<1>3. c.step \in {"propose", "prevote"} =>
         Good(s, prevoted) /\ prevoted.step = "prevote" /\ prevoted.halted = None
  <2>1. c.step = "propose" => Good(s, signed) /\ signed.step = "prevote"
    BY <1>0, PrevoteGood
  <2> HIDE DEF signed
  <2> QED
    BY <1>0, <1>2, <2>1
<1> HIDE DEF prevoted
<1>4. c.step \in {"propose", "prevote"} => Good(s, nothing) /\ nothing.halted = None
  <2>1. c.step \in {"propose", "prevote"} => Good(s, nothing)
    BY <1>0, <1>3, PrecommitNilGood
  <2>2. c.step \in {"propose", "prevote"} => Shaped(prevoted)
    BY <1>3, GoodShape
  <2> QED
    BY <1>3, <2>1, <2>2, HaltedStays
<1>5. ASSUME phase = "precommit", phase \in c.timers PROVE Good(s, left) /\ left.halted = None
  <2>1. c.round + 1 \in Rounds
    BY <1>0, <1>5, ConsensusAssumption DEF Rounds
  <2>2. anyQuorum(c, c.round, "precommit")
    BY <1>0, <1>5 DEF PlacedTimers, anyQuorum, Present
  <2>3. Earned(s, c.round + 1)
    BY <2>2 DEF Earned
  <2>4. Good(s, left)
    BY <1>0, <2>1, <2>3, EnterRoundGood
  <2> QED
    BY <1>0, <2>4, HaltedStays
<1> HIDE DEF nothing, left, d
<1>6. \A x : Good(s, x) /\ x.halted = None => Upright(s, drive(s, x, refused))
  BY DriveUpright
<1> QED
  BY <1>1, <1>3, <1>4, <1>5, <1>6 DEF Upright, d

LEMMA OthersUpright ==
  ASSUME NEW s \in Honest, Peaceful(s), rec[s].halted = None
  PROVE  /\ Upright(s, inputAvailable(rec[s])) /\ Upright(s, clearStaleAccusation(rec[s]))
         /\ Upright(s, restored(s, rec[s])) /\ Upright(s, resumeAfterReplay(s, rec[s]))
         /\ \A o \in Accusable : Upright(s, retainAccusation(s, rec[s], o, FALSE))
<1> DEFINE c == rec[s]
<1>0. /\ s \in Active /\ c \in Records /\ FewByzantine /\ excluded \subseteq Byzantine /\ ToldInv
  BY PeaceFacts DEF Peaceful
<1>1. inputAvailable(c).halted = None /\ clearStaleAccusation(c).halted = None
  BY <1>0 DEF inputAvailable, clearStaleAccusation, Records
<1>2. restored(s, c) = c
  BY <1>0, RestoredSame
<1>3. resumeAfterReplay(s, c) = c
  BY <1>2, ConsensusAssumption DEF resumeAfterReplay
<1>4. \A o \in Accusable : retainAccusation(s, c, o, FALSE).halted = None
  BY <1>0, AccusedFacts, RetainCalm
<1> QED
  BY <1>1, <1>2, <1>3, <1>4 DEF Upright

LEMMA HaltUpright ==
  ASSUME NEW s \in Honest, Peaceful(s), TerminalHalt(s)
  PROVE  Conflict(s, rec[s].votes) /\ halt(rec[s]).votes = rec[s].votes
<1>1. s \in Active /\ rec[s] \in Records /\ "precommit" \in Phases
  BY PeaceFacts, RoundFacts
<1>2. PICK r1 \in Rounds, r2 \in Rounds : \E v1, v2 \in Values :
         /\ v1 # v2
         /\ CertificatesFor(r1, "precommit", v1) # {} /\ CertificatesFor(r2, "precommit", v2) # {}
  BY DEF TerminalHalt
<1>3. Conflict(s, rec[s].votes)
  BY <1>1, <1>2, CertificateBacks DEF Conflict
<1> QED
  BY <1>1, <1>3 DEF halt, Records

\* No two values of the height are certified.
Certified == \A s \in Honest : Decided(s) /\ ~Conflict(s, rec[s].votes)

LEMMA AgreementCertified ==
  ASSUME Orderly, Inv, Agreed!AgreementInv
  PROVE  Certified
<1> SUFFICES ASSUME NEW s \in Honest PROVE Decided(s) /\ ~Conflict(s, rec[s].votes)
  BY DEF Certified
<1>1. s \in Running /\ Honest \subseteq Running /\ s \in Agreed!Honest
  BY DEF Orderly, Running, Honest, Agreed!Honest
<1>2. \A t \in Running : precommits[t] = rec[t].votes["precommit"][t]
                         /\ decisions[t] = rec[t].decision
  BY MappedVoter
<1>3. Decided(s)
  <2> SUFFICES ASSUME rec[s].decision # None
               PROVE  \E r \in Rounds : Backs(s, rec[s].votes, "precommit", r, rec[s].decision)
    BY DEF Decided
  <2>1. PICK r \in Rounds : Agreed!Certifies(precommits, r, rec[s].decision)
    BY <1>1, <1>2 DEF Agreed!AgreementInv
  <2>2. PICK signers \in Agreed!Quorums :
           \A t \in signers \ Byzantine : precommits[t][r] = rec[s].decision
    BY <2>1 DEF Agreed!Certifies
  <2>3. signers \in Quorums
    BY <2>2 DEF Agreed!Quorums, Quorums, Agreed!Certificates, Certificates,
       Agreed!quorumSize, quorumSize, Agreed!Cardinality, Cardinality
  <2>4. ASSUME NEW t \in signers \ Byzantine
        PROVE  t \in Active /\ Cast(s, rec[s].votes, "precommit", t, r) = rec[s].decision
    <3>1. t \in Honest
      BY <2>3 DEF Quorums, Certificates, Honest
    <3> QED
      BY <1>1, <1>2, <2>2, <3>1, RunningVoter DEF Cast
  <2> QED
    BY <2>3, <2>4 DEF Backs
<1>4. ~Conflict(s, rec[s].votes)
  <2>1. ASSUME NEW r \in Rounds, NEW v \in Values, Backs(s, rec[s].votes, "precommit", r, v)
        PROVE  Agreed!Certifies(precommits, r, v)
    <3>1. Abstract!Certifies(precommits, r, v)
      BY <1>1, <1>2, <2>1, BacksCertifies, RoundFacts
    <3> QED
      BY <3>1, SameQuorums DEF Abstract!Certifies, Agreed!Certifies
  <2> QED
    BY <2>1 DEF Conflict, Agreed!AgreementInv
<1> QED
  BY <1>3, <1>4

LEMMA AlwaysCertified ==
  ASSUME Orderly
  PROVE  Spec => []Certified
<1>1. Cardinality(Byzantine) <= tolerated(Cardinality(Voters))
  BY DEF Orderly, FewByzantine, Limit
<1>2. Spec => []Agreed!AgreementInv
  BY <1>1, ReplicasAgree
<1>3. Inv /\ Agreed!AgreementInv => Certified
  BY AgreementCertified
<1> QED
  BY Invariance, <1>2, <1>3, PTL

NeverHalted == \A s \in Honest : rec[s].halted = None

LEMMA InitNeverHalted ==
  ASSUME Orderly, Init
  PROVE  NeverHalted
<1> SUFFICES ASSUME NEW s \in Honest PROVE rec[s].halted = None
  BY DEF NeverHalted
<1>1. PICK o \in [Active -> Carried], pending \in [Active -> BOOLEAN] :
         rec = [t \in Active |-> InitialRecord(t, o[t], IF pending[t] THEN o[t] ELSE None)]
  BY DEF Init
<1>2. s \in Active /\ s \notin Byzantine /\ excluded \subseteq Byzantine /\ FewByzantine
  BY DEF Orderly, FairlyExcluded, Honest, Init
<1>3. o[s] \in Byzantine \cup {None}
  BY <1>1, <1>2, ConsensusAssumption
<1>4. o[s] # None => o[s] # s /\ excluded \ {o[s]} = {}
  BY <1>2, <1>3, LoneByzantine
<1> QED
  BY <1>1, <1>2, <1>4 DEF InitialRecord

\* Every step of an honest voter that runs leaves it running, or with two
\* certified values.
LEMMA NextInstallsUpright ==
  ASSUME ToldInv, Next
  PROVE  \E s \in Active : \E c :
            /\ Install(s, c)
            /\ s \in Honest /\ Peaceful(s) /\ rec[s].halted = None => Upright(s, c)
<1>1. PICK s \in Active :
        \/ Restart(s) \/ InputAvailable(s) \/ StageAccusation(s) \/ ClearStaleAccusation(s)
        \/ ResumeAfterReplay(s) \/ TerminalHalt(s) \/ ReceiveCommit(s)
        \/ \E refused \in SUBSET Refusable :
              \/ Propose(s, refused) \/ ReceiveProposal(s, refused) \/ ReceiveVote(s, refused)
              \/ \E phase \in Timers : Timeout(s, phase, refused)
  BY DEF Next
<1>a. \E c : Install(s, c)
  BY <1>1 DEF Restart, InputAvailable, StageAccusation, ClearStaleAccusation, ResumeAfterReplay,
              TerminalHalt, ReceiveCommit, Propose, ReceiveProposal, ReceiveVote, Timeout
<1> SUFFICES ASSUME s \in Honest, Peaceful(s), rec[s].halted = None
             PROVE  \E c : Install(s, c) /\ Upright(s, c)
  BY <1>a
<1>f. Foreign(s) = {FALSE}
  BY DEF Foreign, Honest
<1>2. CASE Restart(s) \/ InputAvailable(s) \/ ClearStaleAccusation(s) \/ ResumeAfterReplay(s)
  BY <1>2, OthersUpright DEF Restart, InputAvailable, ClearStaleAccusation, ResumeAfterReplay
<1>3. CASE StageAccusation(s)
  BY <1>3, <1>f, OthersUpright DEF StageAccusation
<1>4. CASE TerminalHalt(s)
  BY <1>4, HaltUpright DEF TerminalHalt, Upright
<1>5. CASE ReceiveCommit(s)
  BY <1>5, ReceiveCommitUpright DEF ReceiveCommit
<1>6. ASSUME NEW refused \in SUBSET Refusable, Propose(s, refused)
      PROVE  \E c : Install(s, c) /\ Upright(s, c)
  BY <1>6, <1>f, ProposeUpright DEF Propose
<1>7. ASSUME NEW refused \in SUBSET Refusable, ReceiveProposal(s, refused)
      PROVE  \E c : Install(s, c) /\ Upright(s, c)
  BY <1>7, <1>f, ReceiveProposalUpright DEF ReceiveProposal
<1>8. ASSUME NEW refused \in SUBSET Refusable, ReceiveVote(s, refused)
      PROVE  \E c : Install(s, c) /\ Upright(s, c)
  BY <1>8, ReceiveVoteUpright DEF ReceiveVote
<1>9. ASSUME NEW refused \in SUBSET Refusable, NEW phase \in Timers, Timeout(s, phase, refused)
      PROVE  \E c : Install(s, c) /\ Upright(s, c)
  BY <1>9, TimeoutUpright DEF Timeout
<1> QED
  BY <1>1, <1>2, <1>3, <1>4, <1>5, <1>6, <1>7, <1>8, <1>9

LEMMA NextNeverHalted ==
  ASSUME Orderly, ToldInv, Certified, Certified', NeverHalted, [Next]_vars
  PROVE  NeverHalted'
<1>1. CASE UNCHANGED vars
  BY <1>1 DEF vars, NeverHalted
<1>2. CASE Next
  <2>1. PICK s \in Active : \E c :
            /\ Install(s, c)
            /\ s \in Honest /\ Peaceful(s) /\ rec[s].halted = None => Upright(s, c)
    BY <1>2, NextInstallsUpright
  <2>2. PICK c : /\ Install(s, c)
                 /\ s \in Honest /\ Peaceful(s) /\ rec[s].halted = None => Upright(s, c)
    BY <2>1
  <2>3. \A t \in Active : rec'[t] = IF t = s THEN c ELSE rec[t]
    BY <2>2 DEF Install, ToldInv, SoundInv, Inv
  <2>4. Honest \subseteq Active
    BY DEF Orderly
  <2>5. ASSUME s \in Honest PROVE c.halted = None
    <3>1. Upright(s, c)
      BY <2>2, <2>5 DEF Peaceful, Certified, NeverHalted
    <3>2. ~Conflict(s, c.votes)
      <4>1. ~Conflict(s, rec[s].votes)'
        BY <2>5 DEF Certified
      <4>2. ASSUME NEW r \in Rounds, NEW v, Backs(s, c.votes, "precommit", r, v)
            PROVE  Backs(s, rec[s].votes, "precommit", r, v)'
        <5>1. PICK signers \in Quorums : \A t \in signers \ Byzantine :
                 t \in Active /\ Cast(s, c.votes, "precommit", t, r) = v
          BY <4>2 DEF Backs
        <5>2. \A t \in signers \ Byzantine :
                 t \in Active /\ Cast(s, rec[s].votes, "precommit", t, r)' = v
          BY <2>3, <5>1 DEF Cast
        <5> QED
          BY <5>1, <5>2 DEF Backs
      <4> QED
        BY <4>1, <4>2 DEF Conflict
    <3> QED
      BY <3>1, <3>2 DEF Upright
  <2> QED
    BY <2>3, <2>4, <2>5 DEF NeverHalted
<1> QED
  BY <1>1, <1>2

\* A single Byzantine voter, whatever it signs and in whatever order that and
\* the votes of the others arrive, makes no honest voter halt and no honest
\* voter hold evidence against an honest one.
THEOREM HonestStayUp ==
  ASSUME Orderly
  PROVE  Spec => []HonestNeverHalts
<1>1. Init => ToldInv /\ NeverHalted
  BY InitTold, InitNeverHalted
<1>2. ToldInv /\ [Next]_vars => ToldInv'
  BY NextTold
<1>3. ToldInv /\ Certified /\ Certified' /\ NeverHalted /\ [Next]_vars => NeverHalted'
  BY NextNeverHalted
<1>4. ToldInv /\ Certified /\ NeverHalted => HonestNeverHalts
  <2> SUFFICES ASSUME ToldInv, Certified, NeverHalted, NEW s \in Honest
               PROVE  rec[s].halted = None /\ Equivocators(rec[s]) \subseteq Byzantine
    BY DEF HonestNeverHalts
  <2>1. Peaceful(s)
    BY DEF Peaceful, Certified
  <2>2. Told(s, rec[s]) /\ rec[s].provenOffender \in Accused
    BY <2>1, PeaceFacts DEF Records
  <2> QED
    BY <2>1, <2>2, NoThreshold DEF NeverHalted
<1> QED
  BY <1>1, <1>2, <1>3, <1>4, AlwaysCertified, PTL DEF Spec
=============================================================================
