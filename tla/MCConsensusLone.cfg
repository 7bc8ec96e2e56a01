\* One honest voter and a Byzantine one, which evidence and a control entry accuse.
SPECIFICATION Spec
CONSTANTS
    s1 = s1
    s2 = s2
    s3 = s3
    s4 = s4
    a = a
    b = b
    Nil = Nil
    None = None
    Membership <- Seats2
    Byzantine = {s2}
    Active = {s1}
    Height = 2
    Exclusions = {{}, {s2}}
    Accusable = {s2}
    Offender <- AccusesS2
    Carried = {None, s2}
    Rejects <- RejectsNothing
    Refusable = {}
    ByzantineBudget = 20
    Values = {a, b}
    MaxRound = 2
CONSTRAINT WithinBudget
INVARIANTS AlwaysRestorable RestartIsExact HonestProposalIsJustified
CHECK_DEADLOCK FALSE
