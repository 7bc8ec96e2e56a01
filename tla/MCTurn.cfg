\* Games of two card kinds; one timer that may end and begin again.
SPECIFICATION MCSpec
CONSTANTS
    k1 = k1
    Kinds = {1, 2}
    Configs <- Games
    Voters = {1, 2, 3, 4}
    Byzantine = {4}
    Keys = {k1}
    Private = {}
    Durations = {2}
    Tolerance = 1
    Floor = 1
    MaxHeight = 4
INVARIANTS HandsWithinBounds OffersAreSound
PROPERTIES TurnsEnd TimedOutHadTheirTime TimersRunOut
CHECK_DEADLOCK FALSE
