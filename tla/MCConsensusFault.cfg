\* One voter among four keys that sign anything; its engine rejects a value the others certify.
SPECIFICATION Spec
CONSTANTS
    s1 = s1
    s2 = s2
    s3 = s3
    s4 = s4
    a = a
    b = b
    Nil = Nil
    None = None
    Membership <- Seats4
    Byzantine = {s1, s2, s3, s4}
    Active = {s1}
    Height = 1
    Exclusions = {{}, {s2}}
    Accusable = {s2, s3}
    Offender <- AccusesS2
    Carried = {None}
    Rejects <- RejectsB
    Refusable = {}
    ByzantineBudget = 2
    Values = {a, b}
    MaxRound = 2
CONSTRAINT WithinMessages
INVARIANTS EvidenceStopsVoter
PROPERTIES HaltIsFinal
CHECK_DEADLOCK FALSE
