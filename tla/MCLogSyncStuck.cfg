SPECIFICATION FairSpec
CONSTANTS
  a = a
  b = b
  Replicas = {a, b}
  Other = Other
  MaxHeight = 1
  LinkCapacity = 3
  Window = 2
  RequestLimit = 3
  MaxTroubles = 2
  Users = {b}
  Deciders = {a}
  OnlyServed = FALSE
PROPERTY EveryoneCatchesUp
CHECK_DEADLOCK FALSE
