\* Three voters (certificates need all three), one Byzantine, three rounds; a
\* table of four players and a bot, two of whom go away, move and come back.
SPECIFICATION MCSpec
CONSTANTS
    Voters = {s1, s2, s3}
    Byzantine = {s3}
    Values = {a, b}
    Rounds = {1, 2, 3}
    Nil = Nil
    None = None
    h1 = h1
    h2 = h2
    h3 = h3
    h4 = h4
    b1 = b1
    k1 = k1
    k2 = k2
    k3 = k3
    k4 = k4
    kb = kb
    x1 = x1
    x2 = x2
    x3 = x3
    x4 = x4
    Seats = {h1, h2, h3, h4, b1}
    Bots = {b1}
    FirstHost <- HostOfBot
    Keys <- AllKeys
    FirstKey <- KeyOfSeat
    Window = 2
    Movers = {h1, h2}
    MaxHeight = 9
    MaxIdle = 2
    MaxConsents = 1
SYMMETRY Symmetry
ACTION_CONSTRAINTS KeysInOrder LateEntries
INVARIANTS AgreementInv CommittedValueIsLocked AuthorityIsValid PendingStaysUsable KeysServeOnce ConsentIsOwned ConsentIsFresh MarkersAreCurrent VotersSurvive
CHECK_DEADLOCK FALSE
