\* A voter whose local policy may start to refuse the value between its two votes.
SPECIFICATION Spec
CONSTANTS
    s1 = s1
    s2 = s2
    s3 = s3
    s4 = s4
    a = a
    b = b
    Nil = Nil
    None = None
    Membership <- Seats2
    Byzantine = {s2}
    Active = {s1}
    Height = 1
    Exclusions = {{}}
    Accusable = {}
    Offender <- NoOffender
    Carried = {None}
    Rejects <- RejectsNothing
    Refusable = {a}
    ByzantineBudget = 20
    Values = {a}
    MaxRound = 2
CONSTRAINT WithinBudget
INVARIANTS AlwaysRestorable
CHECK_DEADLOCK FALSE
