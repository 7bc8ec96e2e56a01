\* Two honest voters and a Byzantine one that proposes in round 2.
SPECIFICATION Spec
CONSTANTS
    s1 = s1
    s2 = s2
    s3 = s3
    s4 = s4
    a = a
    b = b
    Nil = Nil
    None = None
    Membership <- Seats3
    Byzantine = {s3}
    Active = {s1, s2}
    Height = 2
    Exclusions = {{}}
    Accusable = {}
    Offender <- NoOffender
    Carried = {None}
    Rejects <- RejectsNothing
    Refusable = {}
    ByzantineBudget = 3
    Values = {a, b}
    MaxRound = 2
CONSTRAINT WithinBudget
SYMMETRY Symmetry
INVARIANTS HonestNeverHalts
PROPERTIES Implements RoundIsEarned
CHECK_DEADLOCK FALSE
