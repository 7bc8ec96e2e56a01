SPECIFICATION FairSpec
CONSTANTS
  low = low
  high = high
  Ends = {low, high}
  Polite = low
  MaxPending = 8
  UnauthLimit = 4
  OfferRetries = 1
  MaxTroubles = 1
INVARIANTS HonestEndsNeverAccuse SettledEndsAgree
PROPERTIES AttemptSettles
CHECK_DEADLOCK FALSE
