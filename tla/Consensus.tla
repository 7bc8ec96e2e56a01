----------------------------- MODULE Consensus -----------------------------
(***************************************************************************)
(* The voters of one log height: the reducers of                           *)
(* packages/protocol/src/consensus.ts, one action per reducer.             *)
(*                                                                         *)
(* rec[s] is the safety record of voter s.  ConsensusController persists   *)
(* the record of a transition before it sends the votes and the proposal   *)
(* that the transition signed, and sends them again after a restart, so    *)
(* what other voters can receive is exactly what stands in the records:    *)
(* a message is lost, delayed, duplicated or reordered by receiving it     *)
(* never, late, twice or in any order.  A crash loses nothing but an       *)
(* unfinished transition (module SafetyWriter models that ordering).       *)
(*                                                                         *)
(* Data.  A value is the hash of a log entry, which ignores the round and  *)
(* the proposer (entryHash).  A proposal is its round, value and           *)
(* validRound; its signer follows from the round.  The prevote certificate *)
(* of a proposal is chosen when it is received: see Justified.             *)
(***************************************************************************)
EXTENDS Votes, SequencesExt

CONSTANTS
    Membership,  \* the voters in seat order
    Byzantine,   \* voters whose key has signed anything one can think of
    Active,      \* voters that run the reducers
    Values,      \* entry hashes that can be proposed at this height
    MaxRound,    \* bound on the rounds
    Height,      \* sequence number of this height
    Exclusions,  \* the sets of voters that the certified log may have excluded
    Accusable,   \* Byzantine voters against whom objective evidence exists
    Offender,    \* value -> seat it accuses (control entry), or None
    Carried,     \* offenders proven at an earlier height, or None
    Rejects,     \* voter -> values that its engine fails to validate
    Refusable,   \* values the local policy admitLocalValue may decline
    Nil,         \* the vote for no value
    None         \* no vote, no lock, no decision, no halt

Voters == {Membership[i] : i \in DOMAIN Membership}
Quorums == Certificates(Voters)
Rounds == 1..MaxRound
Phases == {"prevote", "precommit"}
Timers == {"propose"} \cup Phases
Ballots == Values \cup {Nil}
Proposals == [term : Rounds, value : Values, validRound : 0..MaxRound]
ProposerIn ==
    [e \in Exclusions |-> [r \in Rounds |-> proposerFor(Height, r, Membership, e)]]

ASSUME ConsensusAssumption ==
    /\ Membership \in Seq(Voters) \ {<<>>} /\ IsInjective(Membership)
    /\ Byzantine \subseteq Voters /\ Active \subseteq Voters
    /\ Exclusions \subseteq SUBSET Voters
    /\ MaxRound \in Nat \ {0} /\ Height \in Nat \ {0}
    /\ Accusable \subseteq Byzantine
    /\ Offender \in [Values -> Accusable \cup {None}]
    /\ Carried \subseteq Accusable \cup {None}
    /\ Rejects \in [Active -> SUBSET Values]
    /\ Refusable \subseteq Values
    /\ Nil \notin Values /\ None \notin Values /\ Nil # None /\ None \notin Voters
    /\ None \notin {"terminal", "certified-validation"}

VARIABLES
    rec,       \* voter -> its safety record (ConsensusState)
    excluded   \* context.excludedProposers: fixed when the height starts

vars == <<rec, excluded>>

Proposer(term) == ProposerIn[excluded][term]

-----------------------------------------------------------------------------
(***************************************************************************)
(* Reading a record.                                                       *)
(***************************************************************************)

SignersOf(c, phase, r, ballot) == {t \in Voters : c.votes[phase][t][r] = ballot}

Quorum == quorumSize(Cardinality(Voters))

quorumFor(c, r, phase, ballot) == Cardinality(SignersOf(c, phase, r, ballot)) >= Quorum

anyQuorum(c, r, phase) == Cardinality({t \in Voters : c.votes[phase][t][r] # None}) >= Quorum

proposalAt(c, r, value) == \E p \in ToSet(c.proposals[r]) : p.value = value

\* The lock or the valid value: a value with the round of its certificate.
QuorumValue(r, value) == [round |-> r, value |-> value]
NoQuorumValue == [round |-> 0, value |-> None]

-----------------------------------------------------------------------------
(***************************************************************************)
(* Stopping for good.  The record keeps the kind of the halt; the text of  *)
(* the reason is left out.                                                 *)
(***************************************************************************)

halt(c) == IF c.halted = None THEN [c EXCEPT !.halted = "terminal"] ELSE c

terminalFault(c) == [c EXCEPT !.halted = "terminal", !.unapplied = None]

\* Fault: a recoverable halt replaces a terminal one.
haltForCertifiedValueAlways(c, value) ==
    [c EXCEPT !.halted = "certified-validation", !.unapplied = value]

haltForCertifiedValue(c, value) ==
    IF c.halted = None
    THEN [c EXCEPT !.halted = "certified-validation", !.unapplied = value]
    ELSE c

\* haltForControlFault: objective evidence against seat o proves that the local
\* key misbehaved, or that a second voter did.
ControlFault(s, c, o) ==
    \/ o = s
    \/ c.provenOffender \notin {None, o}
    \/ excluded \ {o} # {}

Equivocators(c) ==
    {e.seat : e \in c.equivocations} \cup excluded \cup ({c.provenOffender} \ {None})

\* Fault: one offender too many is tolerated.
haltIfFaultThresholdExceededLate(s, c) ==
    IF s \in Equivocators(c) \/ Cardinality(Equivocators(c)) > tolerated(Cardinality(Voters)) + 1
    THEN terminalFault(c)
    ELSE c

haltIfFaultThresholdExceeded(s, c) ==
    IF s \in Equivocators(c) \/ Cardinality(Equivocators(c)) > tolerated(Cardinality(Voters))
    THEN terminalFault(c)
    ELSE c

-----------------------------------------------------------------------------
(***************************************************************************)
(* Recording.                                                              *)
(***************************************************************************)

\* The first vote of a seat in a round and phase stays; a different one is
\* evidence, kept once.
recordVote(c, t, r, phase, ballot) ==
    CASE c.votes[phase][t][r] = None   -> [c EXCEPT !.votes[phase][t][r] = ballot]
      [] c.votes[phase][t][r] = ballot -> c
      [] OTHER -> [c EXCEPT !.equivocations = @ \cup {[kind |-> phase, seat |-> t, round |-> r]}]

\* Two different proposals of a round are evidence; a third is not kept.
recordProposal(c, p) ==
    IF proposalAt(c, p.term, p.value) \/ Len(c.proposals[p.term]) >= 2
    THEN c
    ELSE [c EXCEPT !.proposals[p.term] = Append(@, p),
                   !.equivocations = IF c.proposals[p.term] = <<>> THEN @
                        ELSE @ \cup {[kind |-> "proposal", seat |-> Proposer(p.term), round |-> p.term]}]

\* One hint about a future round per seat, the one of the highest round.
addHint(c, t, hint) ==
    IF c.hints[t].round < hint.round THEN [c EXCEPT !.hints[t] = hint] ELSE c

NoHint == [kind |-> "none", round |-> 0]
VoteHint(r, phase, ballot) ==
    [kind |-> "vote", round |-> r, phase |-> phase, ballot |-> ballot]
ProposalHint(p) == [kind |-> "proposal", round |-> p.term, proposal |-> p]

-----------------------------------------------------------------------------
(***************************************************************************)
(* Voting.  `refused` is the set of values that the local policy           *)
(* admitLocalValue declines during the transition.                         *)
(***************************************************************************)

signLocalVote(s, c, phase, ballot, refused) ==
    IF c.votes[phase][s][c.round] # None
    THEN c
    ELSE [c EXCEPT !.step = phase,
                   !.votes[phase][s][c.round] =
                        IF ballot \in refused \/ (ballot # Nil /\ ~proposalAt(c, c.round, ballot))
                        THEN Nil ELSE ballot]

\* Fault: the lock does not restrict the prevote.
prevoteProposalUnlocked(s, c, p, refused) ==
    IF p.term # c.round \/ c.step # "propose"
    THEN c
    ELSE signLocalVote(s, c, "prevote", p.value, refused)

prevoteProposal(s, c, p, refused) ==
    LET accepts == \/ c.locked = NoQuorumValue
                   \/ c.locked.value = p.value
                   \/ p.validRound # 0 /\ p.validRound >= c.locked.round
    IN  IF p.term # c.round \/ c.step # "propose"
        THEN c
        ELSE signLocalVote(s, c, "prevote", IF accepts THEN p.value ELSE Nil, refused)

\* The body of maybeCommit's loop for round r.  A record holds one vote per
\* seat, so at most one value of a round has a certificate in it.
commitAt(s, c, r) ==
    LET certified == {v \in Values : quorumFor(c, r, "precommit", v) /\ proposalAt(c, r, v)}
        v == CHOOSE x \in certified : TRUE
    IN  IF certified = {} \/ c.halted = "terminal" THEN c
        ELSE IF v \in Rejects[s] THEN haltForCertifiedValue(c, v)
        ELSE IF Offender[v] # None /\ ControlFault(s, c, Offender[v]) THEN terminalFault(c)
        ELSE IF c.decision \notin {None, v} THEN halt(c)
        ELSE [c EXCEPT !.decision = v]

\* maybeCommit: all rounds with precommits, the oldest first.
maybeCommit(s, c) ==
    LET upTo[r \in 0..MaxRound] == IF r = 0 THEN c ELSE commitAt(s, upTo[r - 1], r)
    IN  upTo[MaxRound]

\* A waiting proposal of the current round is prevoted.
driveProposal(s, c, refused) ==
    IF c.step = "propose" /\ c.proposals[c.round] # <<>>
    THEN prevoteProposal(s, c, Head(c.proposals[c.round]), refused)
    ELSE c

\* A prevote certificate of the current round makes its value valid, and locks
\* it when this voter has still to precommit.
drivePrevotes(s, c, refused) ==
    LET certified == {p \in ToSet(c.proposals[c.round]) :
                         quorumFor(c, c.round, "prevote", p.value)}
        value == (CHOOSE p \in certified : TRUE).value
        withValid == IF c.valid.round < c.round
                     THEN [c EXCEPT !.valid = QuorumValue(c.round, value)] ELSE c
    IN  IF certified = {} THEN c
        ELSE IF c.step = "prevote" /\ c.votes["precommit"][s][c.round] = None
        THEN signLocalVote(s, [withValid EXCEPT !.locked = QuorumValue(c.round, value)],
                           "precommit", value, refused)
        ELSE withValid

driveNil(s, c) ==
    IF c.step = "prevote" /\ quorumFor(c, c.round, "prevote", Nil)
    THEN signLocalVote(s, c, "precommit", Nil, {})
    ELSE c

driveTimers(c) ==
    [c EXCEPT !.timers = @ \cup {phase \in Phases : anyQuorum(c, c.round, phase)}]

drive(s, c, refused) ==
    LET c0 == maybeCommit(s, c)
    IN  IF c0.halted # None \/ c0.decision # None
        THEN c0
        ELSE maybeCommit(s, driveTimers(driveNil(s,
                    drivePrevotes(s, driveProposal(s, c0, refused), refused))))

-----------------------------------------------------------------------------
(***************************************************************************)
(* Rounds.                                                                 *)
(***************************************************************************)

\* The hints of the round become votes and proposals, the older ones go.
enterRound(s, c, r) ==
    LET ready == {t \in Voters : c.hints[t].round = r}
        proposals == {c.hints[t].proposal : t \in {u \in ready : c.hints[u].kind = "proposal"}}
        hinted(phase, t) == t \in ready /\ c.hints[t].kind = "vote" /\ c.hints[t].phase = phase
    IN  IF r <= c.round
        THEN c
        ELSE [c EXCEPT
                !.round = r,
                !.step = "propose",
                !.timers = IF c.inputKnown THEN {"propose"} ELSE {},
                !.hints = [t \in Voters |-> IF @[t].round > r THEN @[t] ELSE NoHint],
                !.votes = [phase \in Phases |-> [t \in Voters |->
                              IF hinted(phase, t)
                              THEN [@[phase][t] EXCEPT ![r] = c.hints[t].ballot]
                              ELSE @[phase][t]]],
                !.proposals[r] = @ \o SetToSeq(proposals)]

\* Fault: the highest hint alone decides.
maybeJumpAlone(s, c) ==
    LET hinted == {c.hints[t].round : t \in Voters} IN enterRound(s, c, Max(hinted))

\* The second highest hinted round has the support of two voters, so one
\* Byzantine voter cannot force it.
maybeJump(s, c) ==
    LET supported == {r \in Rounds : Cardinality({t \in Voters : c.hints[t].round >= r}) >= 2}
    IN  IF supported = {} THEN c ELSE enterRound(s, c, Max(supported))

-----------------------------------------------------------------------------
(***************************************************************************)
(* Messages that exist.  A vote or a proposal can be received when its     *)
(* signer's record holds it, or when its signer is Byzantine.              *)
(***************************************************************************)

Signed(t, r, phase, ballot) ==
    \/ t \in Byzantine
    \/ t \in Active /\ rec[t].votes[phase][t][r] = ballot

\* The signer sets of the certificates that somebody could assemble.
CertificatesFor(r, phase, ballot) ==
    {signers \in Quorums : \A t \in signers : Signed(t, r, phase, ballot)}

\* verifyCertificate in validateProposal: the proposal carries no certificate,
\* or one of an earlier round for its value.
Justified(p) ==
    p.validRound \in
        {0} \cup {r \in 1..(p.term - 1) : CertificatesFor(r, "prevote", p.value) # {}}

Proposed(p) ==
    /\ Justified(p)
    /\ \/ Proposer(p.term) \in Byzantine
       \/ Proposer(p.term) \in Active /\ p \in ToSet(rec[Proposer(p.term)].proposals[p.term])

\* The proposer of round r signed the log entry of the value.
Entered(r, value) ==
    \/ Proposer(r) \in Byzantine
    \/ Proposer(r) \in Active /\ proposalAt(rec[Proposer(r)], r, value)

-----------------------------------------------------------------------------
(***************************************************************************)
(* The reducers.                                                           *)
(***************************************************************************)

\* createConsensusState, with the offender that an earlier height proved.
InitialRecord(s, o, pending) ==
    [round |-> 1, step |-> "propose", inputKnown |-> FALSE, timers |-> {},
     proposals |-> [r \in Rounds |-> <<>>],
     votes |-> [phase \in Phases |-> [t \in Voters |-> [r \in Rounds |-> None]]],
     hints |-> [t \in Voters |-> NoHint],
     equivocations |-> {}, pendingAccusation |-> pending, provenOffender |-> o,
     locked |-> NoQuorumValue, valid |-> NoQuorumValue,
     decision |-> None, unapplied |-> None,
     halted |-> IF s \in excluded \/ (o # None /\ (o = s \/ excluded \ {o} # {}))
                THEN "terminal" ELSE None]

Init ==
    /\ excluded \in Exclusions
    /\ \E o \in [Active -> Carried], pending \in [Active -> BOOLEAN] :
          rec = [s \in Active |-> InitialRecord(s, o[s], IF pending[s] THEN o[s] ELSE None)]

\* Fault: the timer starts but the record does not say that an input is known.
inputAvailableForgotten(c) ==
    IF c.decision # None \/ c.halted # None \/ c.step # "propose" THEN c
    ELSE [c EXCEPT !.timers = @ \cup {"propose"}]

\* Fault: the input is known but the proposal timer never starts.
inputAvailableUntimed(c) ==
    IF c.decision # None \/ c.halted # None THEN c ELSE [c EXCEPT !.inputKnown = TRUE]

\* An applicable input exists: only now does the proposal timer start.
inputAvailable(c) ==
    IF c.decision # None \/ c.halted # None THEN c
    ELSE [c EXCEPT !.inputKnown = TRUE,
                   !.timers = IF c.step = "propose" THEN @ \cup {"propose"} ELSE @]

\* Objective evidence against seat o is kept.  `foreign`: the evidence carries
\* a signature of this voter that its record does not know.
retainAccusation(s, c, o, foreign) ==
    IF ControlFault(s, c, o) THEN terminalFault(c)
    ELSE IF o \in excluded \/ c.decision # None \/ c.halted # None THEN c
    ELSE IF foreign THEN halt(c)
    ELSE IF c.pendingAccusation # None THEN c
    ELSE [c EXCEPT !.pendingAccusation = o, !.provenOffender = IF @ = None THEN o ELSE @]

\* A control entry needs an empty exclusion list and another voter.
Validates(s, value) ==
    /\ value \notin Rejects[s]
    /\ Offender[value] # None => excluded = {} /\ Cardinality(Voters) > 1

\* Fault: a new candidate is proposed with the certificate of the valid value.
proposeMismatched(s, c, candidate, refused, foreign) ==
    LET p == [term |-> c.round, value |-> candidate, validRound |-> c.valid.round]
    IN  IF \/ c.decision # None \/ c.halted # None \/ c.step # "propose"
           \/ Proposer(c.round) # s
           \/ c.proposals[c.round] # <<>>
           \/ ~Validates(s, candidate)
        THEN c
        ELSE drive(s, prevoteProposal(s, recordProposal([c EXCEPT !.inputKnown = TRUE], p),
                                      p, refused), refused)

\* The elected proposer signs its valid value, or else the given candidate.
propose(s, c, candidate, refused, foreign) ==
    LET value == IF c.valid # NoQuorumValue THEN c.valid.value ELSE candidate
        p == [term |-> c.round, value |-> value, validRound |-> c.valid.round]
        known == [c EXCEPT !.inputKnown = TRUE]
        retained == IF Offender[value] = None THEN known
                    ELSE retainAccusation(s, known, Offender[value], foreign)
    IN  IF \/ c.decision # None \/ c.halted # None \/ c.step # "propose"
           \/ Proposer(c.round) # s
           \/ c.proposals[c.round] # <<>>
           \/ ~Validates(s, value)
        THEN c
        ELSE IF retained.halted # None THEN retained
        ELSE drive(s, prevoteProposal(s, recordProposal(retained, p), p, refused), refused)

\* Own signatures that the record does not know reveal a second writer.
UnrecordedOwnVote(s, c, signers, phase, r, ballot) ==
    s \in signers /\ c.votes[phase][s][r] # ballot

UnrecordedOwnProposal(s, c, p) ==
    /\ Proposer(p.term) = s
    /\ ~proposalAt(c, p.term, p.value)
    /\ ~(c.hints[s].kind = "proposal" /\ c.hints[s].round = p.term
            /\ c.hints[s].proposal.value = p.value)

\* receiveProposal after the checks: a future round is only hinted at until a
\* second voter supports it.
receiveRound(s, c, p, refused) ==
    LET c1 == IF p.term > c.round
              THEN maybeJump(s, addHint(c, Proposer(p.term), ProposalHint(p))) ELSE c
        c2 == recordProposal(c1, p)
        c3 == haltIfFaultThresholdExceeded(s, c2)
    IN  IF p.term > c1.round THEN c1
        ELSE IF ~proposalAt(c2, p.term, p.value) THEN c2
        ELSE IF c3.halted # None THEN c3
        ELSE drive(s, IF c3.decision # None THEN c3 ELSE prevoteProposal(s, c3, p, refused),
                   refused)

\* `signers` made the prevotes that justify the proposal.
receiveProposal(s, c, p, signers, refused, foreign) ==
    LET o == Offender[p.value]
        c1 == IF o = None THEN c ELSE retainAccusation(s, c, o, foreign)
    IN  IF ~Validates(s, p.value)
        THEN IF o # None /\ ControlFault(s, c, o) THEN terminalFault(c) ELSE c
        ELSE IF o # None /\ c1.halted # None THEN c1
        ELSE IF \/ UnrecordedOwnVote(s, c1, signers, "prevote", p.validRound, p.value)
                \/ UnrecordedOwnProposal(s, c1, p)
        THEN halt(c1)
        ELSE IF c1.halted # None THEN c1
        ELSE receiveRound(s, [c1 EXCEPT !.inputKnown = TRUE], p, refused)

\* Fault: a vote of this voter that comes back is taken for a foreign one.
receiveVoteEcho(s, c, t, r, phase, ballot, refused) ==
    IF t = s \/ c.halted # None THEN halt(c)
    ELSE drive(s, haltIfFaultThresholdExceeded(s, recordVote(c, t, r, phase, ballot)), refused)

receiveVote(s, c, t, r, phase, ballot, refused) ==
    LET c1 == IF r > c.round THEN maybeJump(s, addHint(c, t, VoteHint(r, phase, ballot))) ELSE c
        c2 == haltIfFaultThresholdExceeded(s, recordVote(c1, t, r, phase, ballot))
    IN  IF t = s /\ c.votes[phase][s][r] # ballot THEN halt(c)
        ELSE IF c.halted # None THEN c
        ELSE IF r > c1.round THEN c1
        ELSE IF c2.halted # None THEN c2
        ELSE drive(s, c2, refused)

\* A commit certificate of any round, relayed with its entry.
receiveCommit(s, c, r, value, signers) ==
    IF \/ UnrecordedOwnVote(s, c, signers, "precommit", r, value)
       \/ Proposer(r) = s /\ ~proposalAt(c, r, value)
    THEN halt(c)
    ELSE IF value \in Rejects[s] THEN haltForCertifiedValue(c, value)
    ELSE IF Offender[value] # None /\ ControlFault(s, c, Offender[value]) THEN terminalFault(c)
    ELSE IF c.decision \notin {None, value} THEN halt(c)
    ELSE IF c.decision = None /\ c.halted = None THEN [c EXCEPT !.decision = value]
    ELSE c

\* An accusation that a certified exclusion already represents is dropped.
clearStaleAccusation(c) ==
    IF c.pendingAccusation \in excluded /\ c.pendingAccusation = c.provenOffender
    THEN [c EXCEPT !.pendingAccusation = None]
    ELSE c

\* A timer is stale unless its round is current and it is armed.
timeout(s, c, phase, refused) ==
    LET prevoted == IF c.step = "propose" THEN signLocalVote(s, c, "prevote", Nil, {}) ELSE c
    IN  IF c.decision # None \/ c.halted # None \/ phase \notin c.timers THEN c
        ELSE CASE phase = "propose" /\ c.step = "propose" -> drive(s, prevoted, refused)
               [] phase = "prevote" /\ c.step \in {"propose", "prevote"} ->
                     drive(s, signLocalVote(s, prevoted, "precommit", Nil, {}), refused)
               [] phase = "precommit" -> drive(s, enterRound(s, c, c.round + 1), refused)
               [] OTHER -> c

-----------------------------------------------------------------------------
(***************************************************************************)
(* The steps of voter s: an input that exists, given to its reducer.       *)
(***************************************************************************)

Install(s, c) ==
    /\ c # rec[s] /\ rec' = [rec EXCEPT ![s] = c]
    /\ UNCHANGED excluded

\* Only a second writer with the same key makes foreign signatures exist.
Foreign(s) == IF s \in Byzantine THEN BOOLEAN ELSE {FALSE}

InputAvailable(s) == Install(s, inputAvailable(rec[s]))

Propose(s, refused) ==
    \E candidate \in Values, foreign \in Foreign(s) :
        Install(s, propose(s, rec[s], candidate, refused, foreign))

ReceiveProposal(s, refused) ==
    \E p \in {q \in Proposals : Proposed(q)}, foreign \in Foreign(s) :
        \E signers \in IF p.validRound = 0 THEN {{}}
                       ELSE CertificatesFor(p.validRound, "prevote", p.value) :
            Install(s, receiveProposal(s, rec[s], p, signers, refused, foreign))

ReceiveVote(s, refused) ==
    \E t \in Voters, r \in Rounds, phase \in Phases, ballot \in Ballots :
        /\ Signed(t, r, phase, ballot)
        /\ Install(s, receiveVote(s, rec[s], t, r, phase, ballot, refused))

ReceiveCommit(s) ==
    \E r \in Rounds, value \in Values :
        /\ Entered(r, value)
        /\ \E signers \in CertificatesFor(r, "precommit", value) :
              Install(s, receiveCommit(s, rec[s], r, value, signers))

StageAccusation(s) ==
    \E o \in Accusable, foreign \in Foreign(s) :
        Install(s, retainAccusation(s, rec[s], o, foreign))

ClearStaleAccusation(s) == Install(s, clearStaleAccusation(rec[s]))

Timeout(s, phase, refused) ==
    /\ phase = "precommit" => rec[s].round < MaxRound
    /\ Install(s, timeout(s, rec[s], phase, refused))

\* The log found a certified history that conflicts with this one.
TerminalHalt(s) ==
    /\ \E r1, r2 \in Rounds : \E v1, v2 \in Values :
          v1 # v2 /\ CertificatesFor(r1, "precommit", v1) # {}
                  /\ CertificatesFor(r2, "precommit", v2) # {}
    /\ Install(s, halt(rec[s]))

-----------------------------------------------------------------------------
(***************************************************************************)
(* Restarting from the persisted record (restoreConsensusState).           *)
(***************************************************************************)

\* A stored lock or valid value has its proposal and its certificate.
ProofRestores(c, q) ==
    q # NoQuorumValue =>
        /\ q.round <= c.round
        /\ proposalAt(c, q.round, q.value)
        /\ quorumFor(c, q.round, "prevote", q.value)

\* The lock is exactly the newest value that this voter precommitted, and the
\* valid value is at least as new.
LockRestores(s, c) ==
    LET committed == {r \in Rounds : c.votes["precommit"][s][r] \in Values} IN
    /\ c.locked # NoQuorumValue =>
          /\ c.votes["precommit"][s][c.locked.round] = c.locked.value
          /\ c.valid # NoQuorumValue
          /\ c.valid.round >= c.locked.round
          /\ c.valid.round = c.locked.round => c.valid.value = c.locked.value
    /\ committed # {} =>
          c.locked = QuorumValue(Max(committed), c.votes["precommit"][s][Max(committed)])

\* The step agrees with the votes signed in this round.
StepRestores(s, c) ==
    LET voted(phase) == c.votes[phase][s][c.round] # None IN
    CASE c.step = "propose"   -> ~voted("prevote") /\ ~voted("precommit")
      [] c.step = "prevote"   -> voted("prevote") /\ ~voted("precommit")
      [] c.step = "precommit" -> voted("prevote") /\ voted("precommit")

TimersRestore(c) ==
    /\ "propose" \in c.timers => c.inputKnown
    /\ \A phase \in Phases : phase \in c.timers => anyQuorum(c, c.round, phase)

\* Nothing recorded is ahead of the round, and every hint is.
RoundsRestore(s, c) ==
    /\ \A r \in Rounds : r > c.round =>
          /\ c.proposals[r] = <<>>
          /\ \A phase \in Phases, t \in Voters : c.votes[phase][t][r] = None
    /\ \A t \in Voters : c.hints[t] # NoHint => c.hints[t].round > c.round
    /\ c.hints[s].kind # "vote"
    /\ \A r \in Rounds : Len(c.proposals[r]) <= (IF Proposer(r) = s THEN 1 ELSE 2)
    /\ ~c.inputKnown =>
          /\ \A r \in Rounds : c.proposals[r] = <<>>
          /\ \A t \in Voters : c.hints[t].kind # "proposal"

HaltRestores(c) ==
    /\ c.halted = "certified-validation" => c.decision = None /\ c.unapplied # None
    /\ c.halted # "certified-validation" => c.unapplied = None
    /\ c.pendingAccusation \in {None, c.provenOffender}

\* restoreConsensusState succeeds on record c of voter s.
Restorable(s, c) ==
    /\ RoundsRestore(s, c)
    /\ ProofRestores(c, c.valid) /\ ProofRestores(c, c.locked)
    /\ LockRestores(s, c)
    /\ StepRestores(s, c)
    /\ TimersRestore(c)
    /\ HaltRestores(c)

\* The seats that the record's own contents accuse.
AccusedBy(c) ==
    LET stored == UNION {{p.value : p \in ToSet(c.proposals[r])} : r \in Rounds}
        hinted == {c.hints[t].proposal.value : t \in {u \in Voters : c.hints[u].kind = "proposal"}}
        held == {c.valid.value, c.locked.value, c.decision}
    IN  ({Offender[v] : v \in (stored \cup hinted \cup held) \cap Values}
            \cup {e.seat : e \in c.equivocations}
            \cup {c.provenOffender, c.pendingAccusation}) \ {None}

\* Fault: a single offender stops the restarted voter.
restoredEager(s, c) ==
    IF AccusedBy(c) # {} \/ s \in excluded THEN terminalFault(c) ELSE c

\* A restart turns evidence against this key, or a second one, into a halt.
restored(s, c) ==
    IF \/ Cardinality(AccusedBy(c)) > 1
       \/ \E o \in AccusedBy(c) : ControlFault(s, c, o)
       \/ s \in excluded
    THEN terminalFault(c)
    ELSE c

Restart(s) ==
    /\ Restorable(s, rec[s])
    /\ Install(s, restored(s, rec[s]))

\* The entry that a certified-value halt kept validates after a fresh replay.
\* The record is restored first, and may turn out to be halted for good.
resumeAfterReplay(s, c) ==
    IF ~Restorable(s, c) \/ restored(s, c).halted # "certified-validation" THEN c
    ELSE IF Offender[c.unapplied] # None /\ ControlFault(s, c, Offender[c.unapplied])
    THEN terminalFault(c)
    ELSE [c EXCEPT !.decision = c.unapplied, !.halted = None, !.unapplied = None]

ResumeAfterReplay(s) == Install(s, resumeAfterReplay(s, rec[s]))

-----------------------------------------------------------------------------
Next ==
    \E s \in Active :
        \/ Restart(s)
        \/ InputAvailable(s)
        \/ StageAccusation(s)
        \/ ClearStaleAccusation(s)
        \/ ResumeAfterReplay(s)
        \/ TerminalHalt(s)
        \/ ReceiveCommit(s)
        \/ \E refused \in SUBSET Refusable :
              \/ Propose(s, refused)
              \/ ReceiveProposal(s, refused)
              \/ ReceiveVote(s, refused)
              \/ \E phase \in Timers : Timeout(s, phase, refused)

Spec == Init /\ [][Next]_vars

-----------------------------------------------------------------------------
(***************************************************************************)
(* Progress.  ReplicatedLog.pulse sends the signed votes and proposals of  *)
(* the height again every two seconds, offers the available input and asks *)
(* for missing commits, so what a running voter has signed reaches every   *)
(* other running voter in the end.  The delay of a timer doubles with its  *)
(* round (scheduleConsensusTimeout): in the last round of the model it is  *)
(* longer than anything else takes, in the earlier ones it may be shorter. *)
(***************************************************************************)

\* Something is left for voter s to do, other than waiting for a timer of the
\* last round.
Pending(s) ==
    LET c == rec[s] IN
    \/ inputAvailable(c) # c
    \/ \E v \in Values : propose(s, c, v, {}, FALSE) # c
    \/ \E p \in {q \in Proposals : Proposed(q)} : receiveProposal(s, c, p, {}, {}, FALSE) # c
    \/ \E t \in Voters, r \in Rounds, phase \in Phases, ballot \in Ballots :
          Signed(t, r, phase, ballot) /\ receiveVote(s, c, t, r, phase, ballot, {}) # c
    \/ \E r \in Rounds, v \in Values :
          /\ Entered(r, v) /\ CertificatesFor(r, "precommit", v) # {}
          /\ receiveCommit(s, c, r, v, {}) # c
    \/ c.round < MaxRound /\ \E phase \in Timers : timeout(s, c, phase, {}) # c

LiveNext ==
    \E s \in Active :
        \/ InputAvailable(s)
        \/ Propose(s, {})
        \/ ReceiveProposal(s, {})
        \/ ReceiveVote(s, {})
        \/ ReceiveCommit(s)
        \/ \E phase \in Timers :
              /\ rec[s].round = MaxRound => \A t \in Active : ~Pending(t)
              /\ Timeout(s, phase, {})

\* A voter with something left to do does not stand still.
LiveSpec ==
    /\ Init /\ [][LiveNext]_vars
    /\ \A s \in Active : []<>~Pending(s) \/ []<><<rec'[s] # rec[s]>>_rec

-----------------------------------------------------------------------------
(***************************************************************************)
(* The reducers implement Agreement.  Its votes are the ones that each     *)
(* honest voter's own record holds.                                        *)
(***************************************************************************)

Honest == Voters \ Byzantine

\* A voter that runs no reducers stands where it started.
Record(s) == IF s \in Active THEN rec[s] ELSE InitialRecord(s, None, None)

rounds == [s \in Honest |-> Record(s).round]
prevotes == [s \in Honest |-> Record(s).votes["prevote"][s]]
precommits == [s \in Honest |-> Record(s).votes["precommit"][s]]
lockRounds == [s \in Honest |-> Record(s).locked.round]
lockValues == [s \in Honest |-> Record(s).locked.value]
decisions == [s \in Honest |-> Record(s).decision]

Abstract == INSTANCE Agreement WITH
    round <- rounds, prevote <- prevotes, precommit <- precommits,
    lockRound <- lockRounds, lockValue <- lockValues, decision <- decisions

\* Every transition of a voter, whatever the order, duplication and loss of
\* messages and whatever the Byzantine voters sign, obeys the voting rules of
\* Agreement: one vote per round and phase, never against the lock, a lock and
\* a decision only under a certificate.
Implements == Abstract!Spec

-----------------------------------------------------------------------------
(***************************************************************************)
(* Properties.                                                             *)
(***************************************************************************)

\* A voter can always be restarted: whatever transition persisted its record,
\* restoreConsensusState accepts that record.  It is also run on the live
\* record by every retransmission (recoverConsensusEffects), where a failure
\* stops the voter for good.
AlwaysRestorable == \A s \in Active : Restorable(s, rec[s])

\* With at most one Byzantine voter a restart changes nothing: the evidence it
\* re-examines is the evidence the live voter already acted on.
RestartIsExact == \A s \in Active : restored(s, rec[s]) = rec[s]

\* One Byzantine voter, whatever it signs, cannot make an honest voter halt,
\* nor make it hold evidence against another honest voter.
HonestNeverHalts ==
    \A s \in Honest : rec[s].halted = None /\ Equivocators(rec[s]) \subseteq Byzantine

\* An honest voter leaves its round after a quorum of precommits for the next
\* one, or to join another honest voter: one Byzantine voter cannot drag it
\* ahead with a message of a high round.
RoundIsEarned ==
    [][\A s \in Honest : rec'[s].round > rec[s].round =>
          \/ /\ rec'[s].round = rec[s].round + 1
             /\ anyQuorum(rec[s], rec[s].round, "precommit")
          \/ \E t \in Honest : rec[t].round >= rec'[s].round]_rec

\* What an honest proposer signs is acceptable everywhere: its justification
\* is a certificate that any receiver can verify, and it never proposes twice
\* in a round.
HonestProposalIsJustified ==
    \A s \in Honest, r \in Rounds : Proposer(r) = s =>
        /\ Len(rec[s].proposals[r]) <= 1
        /\ \A p \in ToSet(rec[s].proposals[r]) : Justified(p)

\* Every running voter decides: a height is not lost to the loss and delay of
\* messages, to timers that fire early, to a voter that never answers, nor to
\* a round that was entered by a jump before its messages were processed.
EveryoneDecides == \A s \in Active : <>(rec[s].decision # None)

\* A voter that halted for good signs nothing, decides nothing and never
\* resumes, whatever arrives and however often it is restarted.
HaltIsFinal ==
    [][\A s \in Active : rec[s].halted = "terminal" =>
          /\ rec'[s].halted = "terminal"
          /\ rec'[s].decision = rec[s].decision
          /\ \A phase \in Phases : rec'[s].votes[phase][s] = rec[s].votes[phase][s]]_rec

\* A voter that holds evidence against its own key has stopped; so has one
\* with evidence against more voters than the membership tolerates, among the
\* equivocations it saw or among the accusations it accepted.  One of each is
\* noticed with the next vote or proposal it receives, or when it restarts.
EvidenceStopsVoter ==
    \A s \in Active :
        LET c == rec[s]
            limit == tolerated(Cardinality(Voters))
        IN  \/ c.halted = "terminal"
            \/ /\ s \notin Equivocators(c)
               /\ Cardinality({e.seat : e \in c.equivocations} \cup excluded) <= limit
               /\ Cardinality(({c.provenOffender} \ {None}) \cup excluded) <= limit
               /\ Cardinality(Equivocators(c)) > limit => restored(s, c).halted = "terminal"
=============================================================================
