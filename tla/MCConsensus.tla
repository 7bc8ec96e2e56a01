---------------------------- MODULE MCConsensus ----------------------------
(* Instances of Consensus for TLC. *)
EXTENDS Consensus

CONSTANTS
    s1, s2, s3, s4,   \* seats
    a, b,             \* values
    ByzantineBudget   \* bound on the Byzantine messages that stand in the records

Seats2 == <<s1, s2>>
Seats3 == <<s1, s2, s3>>
Seats4 == <<s1, s2, s3, s4>>

\* No control entries: no value accuses anybody.
NoOffender == [v \in Values |-> None]
\* The value b is a control entry that excludes seat s2 from proposing.
AccusesS2 == [v \in Values |-> IF v = b THEN s2 ELSE None]

\* Every engine validates every value; the engine of every voter rejects b.
RejectsNothing == [s \in Active |-> {}]
RejectsB == [s \in Active |-> {b}]

\* Without a control entry or a rejected value, values are interchangeable.
Symmetry == Permutations(Values)

\* The votes, hints and proposals of other voters' Byzantine keys in the record
\* of s.
ByzantineUse(s) ==
    LET others == Byzantine \ {s} IN
    Cardinality({<<phase, t, r>> \in Phases \X others \X Rounds :
                    rec[s].votes[phase][t][r] # None})
    + Cardinality({t \in others : rec[s].hints[t] # NoHint})
    + Cardinality({r \in Rounds : Proposer(r) \in others /\ rec[s].proposals[r] # <<>>})

\* Messages that contradict each other are free, or count as one more.
WithinMessages == MapThenSumSet(ByzantineUse, Active) <= ByzantineBudget
WithinBudget ==
    LET use(s) == ByzantineUse(s) + Cardinality(rec[s].equivocations)
    IN  MapThenSumSet(use, Active) <= ByzantineBudget
=============================================================================
