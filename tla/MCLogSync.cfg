SPECIFICATION FairSpec
CONSTANTS
  a = a
  b = b
  Replicas = {a, b}
  Other = Other
  MaxHeight = 2
  LinkCapacity = 3
  Window = 2
  RequestLimit = 3
  MaxTroubles = 1
  Users = {b}
  Deciders = {a}
  OnlyServed = TRUE
INVARIANTS VerdictIsTrue
PROPERTIES ImplementsCertifiedLog HeldCommitIsApplied EveryoneCatchesUp
CHECK_DEADLOCK FALSE
