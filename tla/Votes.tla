------------------------------- MODULE Votes -------------------------------
(***************************************************************************)
(* Certificates and proposer selection of one certified membership         *)
(* (packages/protocol/src/votes.ts and proposal.ts).                       *)
(*                                                                         *)
(* A signature is abstract: a vote exists when its signer made it, and     *)
(* nobody else can make it.  A certificate is then the set of the seats    *)
(* that signed one height, round, phase and value; verifyCertificate's     *)
(* ordering rule (strictly increasing seats) says it is a set.             *)
(***************************************************************************)
EXTENDS Integers, FiniteSets, Sequences

\* Fault: a plain majority, which lets two quorums share only a faulty voter.
quorumSizeMajority(voterCount) == voterCount \div 2 + 1

\* votes.ts quorumSize: 1, 2, 3, 3, 4, 4 for one to six voters.
quorumSize(voterCount) == IF voterCount = 1 THEN 1 ELSE (voterCount + 1) \div 2 + 1

\* The signer sets that verifyCertificate accepts for the membership `voters`.
Certificates(voters) ==
    {signers \in SUBSET voters : Cardinality(signers) >= quorumSize(Cardinality(voters))}

\* consensus.ts haltIfFaultThresholdExceeded: how many proven offenders a
\* voter tolerates before it stops voting.
tolerated(voterCount) == IF voterCount = 1 THEN 0 ELSE 1

\* proposal.ts proposerFor: round robin over the voters in seat order, without
\* the ones a certified control entry has excluded from proposing.
proposerFor(seq, term, membership, excluded) ==
    LET eligible == SelectSeq(membership, LAMBDA voter : voter \notin excluded)
        n == Len(eligible)
    IN  eligible[((((seq - 1) % n) + ((term - 1) % n)) % n) + 1]
=============================================================================
