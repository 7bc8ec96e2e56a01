----------------------------- MODULE Agreement -----------------------------
(***************************************************************************)
(* What the voters of one log height promise, without messages.            *)
(*                                                                         *)
(* Every honest voter owns a round, at most one prevote and one precommit  *)
(* per round, a lock and a decision.  A voter reads the votes of the       *)
(* others directly, so a step here stands for any interleaving of sends,   *)
(* losses, duplicates and deliveries.  A Byzantine voter has signed every  *)
(* vote from the start, which is more than it could do on the wire: it     *)
(* shows different votes to different voters at no cost.                   *)
(*                                                                         *)
(* The reducers of consensus.ts do several of the things below in one      *)
(* transition (jump to a round, prevote, lock, precommit, decide), so the  *)
(* single action Step may do any of them; its conjuncts are the voting     *)
(* rules.  Module Consensus models the reducers and is checked to          *)
(* implement this specification.                                           *)
(***************************************************************************)
EXTENDS Votes

CONSTANTS
    Voters,     \* the seats of the certified membership
    Byzantine,  \* the voters whose signatures may say anything
    Values,     \* the entry hashes that can be proposed at this height
    Rounds,     \* the round numbers ("terms"), in increasing order
    Nil,        \* the vote for no value (valueHash = null)
    None        \* no vote, no lock, no decision

ASSUME VotersAssumption ==
    /\ IsFiniteSet(Voters)
    /\ Voters # {}
    /\ Byzantine \subseteq Voters
    /\ Cardinality(Byzantine) <= tolerated(Cardinality(Voters))

ASSUME ValuesAssumption ==
    /\ Rounds \subseteq Nat
    /\ 1 \in Rounds
    /\ 0 \notin Rounds
    /\ Nil \notin Values
    /\ None \notin Values
    /\ Nil # None

VARIABLES
    round,      \* honest voter -> its current round
    prevote,    \* honest voter -> round -> Values, Nil or None
    precommit,  \* honest voter -> round -> Values, Nil or None
    lockRound,  \* honest voter -> round of its lock, 0 when unlocked
    lockValue,  \* honest voter -> value of its lock, None when unlocked
    decision    \* honest voter -> Values or None

vars == <<round, prevote, precommit, lockRound, lockValue, decision>>

Honest == Voters \ Byzantine
Quorums == Certificates(Voters)
Ballots == Values \cup {Nil, None}

TypeOK ==
    /\ round \in [Honest -> Rounds]
    /\ prevote \in [Honest -> [Rounds -> Ballots]]
    /\ precommit \in [Honest -> [Rounds -> Ballots]]
    /\ lockRound \in [Honest -> Rounds \cup {0}]
    /\ lockValue \in [Honest -> Values \cup {None}]
    /\ decision \in [Honest -> Values \cup {None}]

\* A certificate of prevotes (of precommits) for value at round r exists: its
\* honest signers cast that vote, its Byzantine signers vote for anything.
Certifies(ballot, r, value) ==
    \E signers \in Quorums :
        \A s \in signers \ Byzantine : ballot[s][r] = value

Init ==
    /\ round = [s \in Honest |-> 1]
    /\ prevote = [s \in Honest |-> [r \in Rounds |-> None]]
    /\ precommit = [s \in Honest |-> [r \in Rounds |-> None]]
    /\ lockRound = [s \in Honest |-> 0]
    /\ lockValue = [s \in Honest |-> None]
    /\ decision = [s \in Honest |-> None]

(***************************************************************************)
(* The voting rules for a step in which voter s ends in round r.           *)
(***************************************************************************)

\* Fault: a justification older than the lock opens it.
LockAllowsStale(s, r, value) ==
    \/ lockRound[s] = 0
    \/ lockValue[s] = value
    \/ \E vr \in Rounds : vr < r /\ Certifies(prevote, vr, value)

\* A value may be prevoted when there is no lock, when it is the locked value,
\* or when it has a justification at least as new as the lock.
LockAllows(s, r, value) ==
    \/ lockRound[s] = 0
    \/ lockValue[s] = value
    \/ \E vr \in Rounds :
          vr >= lockRound[s] /\ vr < r /\ Certifies(prevote, vr, value)

\* At most one prevote per round, before the precommit of that round.
Prevote(s, r) ==
    \/ UNCHANGED prevote
    \/ /\ prevote[s][r] = None
       /\ \E ballot \in {Nil} \cup {value \in Values : LockAllows(s, r, value)} :
             prevote' = [prevote EXCEPT ![s][r] = ballot]

\* At most one precommit per round, after the prevote of that round.  A value
\* is locked, and then precommitted, only when it has a prevote certificate of
\* this very round; a voter that declines it keeps the lock and signs nil.
Precommit(s, r) ==
    \/ UNCHANGED <<precommit, lockRound, lockValue>>
    \/ /\ precommit[s][r] = None
       /\ prevote'[s][r] # None
       /\ precommit' = [precommit EXCEPT ![s][r] = Nil]
       /\ UNCHANGED <<lockRound, lockValue>>
    \/ /\ precommit[s][r] = None
       /\ prevote'[s][r] # None
       /\ \E value \in {v \in Values : Certifies(prevote', r, v)} :
             /\ lockRound' = [lockRound EXCEPT ![s] = r]
             /\ lockValue' = [lockValue EXCEPT ![s] = value]
             /\ \E ballot \in {value, Nil} :
                   precommit' = [precommit EXCEPT ![s][r] = ballot]

\* A decision needs a precommit certificate of any round and is never revised.
Decide(s) ==
    \/ UNCHANGED decision
    \/ /\ decision[s] = None
       /\ \E value \in {v \in Values : \E r \in Rounds : Certifies(precommit', r, v)} :
             decision' = [decision EXCEPT ![s] = value]

Step(s) ==
    \E r \in Rounds :
        /\ r >= round[s]
        /\ round' = [round EXCEPT ![s] = r]
        /\ Prevote(s, r)
        /\ Precommit(s, r)
        /\ Decide(s)

Next == \E s \in Honest : Step(s)

Spec == Init /\ [][Next]_vars

-----------------------------------------------------------------------------
(***************************************************************************)
(* Properties.                                                             *)
(***************************************************************************)

\* Two precommit certificates of this height never name different values,
\* whatever their rounds, and nobody decides a value without one.  This is why
\* maybeCommit and receiveCommit may install any certificate they can verify.
AgreementInv ==
    /\ \A r1, r2 \in Rounds : \A v1, v2 \in Values :
          Certifies(precommit, r1, v1) /\ Certifies(precommit, r2, v2) => v1 = v2
    /\ \A s \in Honest : decision[s] # None =>
          \E r \in Rounds : Certifies(precommit, r, decision[s])

\* Once a value is certified, no later round can certify the prevotes another
\* value would need, so no honest voter is ever unlocked towards it.
CommittedValueIsLocked ==
    \A r1, r2 \in Rounds : \A v1, v2 \in Values :
        Certifies(precommit, r1, v1) /\ r1 < r2 /\ Certifies(prevote, r2, v2) => v1 = v2

\* A voter's round and its lock round only grow, and a vote or a decision that
\* was made stays as it is.
VoterIsMonotone ==
    [][\A s \in Honest :
          /\ round'[s] >= round[s]
          /\ lockRound'[s] >= lockRound[s]
          /\ decision[s] # None => decision'[s] = decision[s]
          /\ \A r \in Rounds :
                /\ prevote[s][r] # None => prevote'[s][r] = prevote[s][r]
                /\ precommit[s][r] # None => precommit'[s][r] = precommit[s][r]]_vars

-----------------------------------------------------------------------------
(***************************************************************************)
(* The inductive invariant behind AgreementInv.                            *)
(***************************************************************************)

\* No vote is ahead of its voter's round, and a precommit follows a prevote.
VotesAreBehindRound ==
    \A s \in Honest, r \in Rounds :
        /\ r > round[s] => prevote[s][r] = None /\ precommit[s][r] = None
        /\ precommit[s][r] # None => prevote[s][r] # None

\* A lock carries a prevote certificate of a round in which its owner has
\* already precommitted (the value, or nil when it declined it).
LockIsCertified ==
    \A s \in Honest :
        /\ (lockRound[s] = 0) <=> (lockValue[s] = None)
        /\ lockRound[s] # 0 =>
              /\ lockRound[s] <= round[s]
              /\ precommit[s][lockRound[s]] # None
              /\ Certifies(prevote, lockRound[s], lockValue[s])

\* A precommit for a value carries a certificate, and the lock covers it.
PrecommitIsLocked ==
    \A s \in Honest, r \in Rounds : precommit[s][r] \in Values =>
        /\ Certifies(prevote, r, precommit[s][r])
        /\ lockRound[s] >= r
        /\ lockRound[s] = r => lockValue[s] = precommit[s][r]

\* A voter that precommitted one value and later prevoted another did so
\* because the second had a certificate from the round of the precommit on.
SwitchIsJustified ==
    \A s \in Honest, r, r0 \in Rounds :
        /\ r0 < r
        /\ precommit[s][r0] \in Values
        /\ prevote[s][r] \in Values
        /\ prevote[s][r] # precommit[s][r0]
        => \E vr \in Rounds : r0 <= vr /\ vr < r /\ Certifies(prevote, vr, prevote[s][r])

\* Voter s will never precommit value at round r: it voted otherwise there, or
\* left the round without doing so.
NeverPrecommits(s, r, value) ==
    /\ precommit[s][r] # value
    /\ round[s] > r \/ precommit[s][r] # None

\* A prevote certificate for a value rules out every other value in all the
\* earlier rounds: each quorum has an honest voter that will never complete it.
CertificateIsSafe ==
    \A r, r0 \in Rounds : \A v, w \in Values :
        r0 < r /\ v # w /\ Certifies(prevote, r, w) =>
            \A signers \in Quorums :
                \E s \in signers \ Byzantine : NeverPrecommits(s, r0, v)

DecisionIsCertified ==
    \A s \in Honest : decision[s] # None =>
        \E r \in Rounds : Certifies(precommit, r, decision[s])

IndInv ==
    /\ TypeOK
    /\ VotesAreBehindRound
    /\ LockIsCertified
    /\ PrecommitIsLocked
    /\ SwitchIsJustified
    /\ CertificateIsSafe
    /\ DecisionIsCertified
=============================================================================
