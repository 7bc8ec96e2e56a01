\* Four voters, the proposer of round 1 never answers; the others have two candidates.
SPECIFICATION LiveSpec
CONSTANTS
    s1 = s1
    s2 = s2
    s3 = s3
    s4 = s4
    a = a
    b = b
    Nil = Nil
    None = None
    Membership <- Seats4
    Byzantine = {}
    Active = {s2, s3, s4}
    Height = 1
    Exclusions = {{}}
    Accusable = {}
    Offender <- NoOffender
    Carried = {None}
    Rejects <- RejectsNothing
    Refusable = {}
    ByzantineBudget = 0
    Values = {a, b}
    MaxRound = 2
PROPERTIES EveryoneDecides
CHECK_DEADLOCK FALSE
