SPECIFICATION FairSpec
CONSTANTS
  k1 = k1
  k2 = k2
  None = None
  Callbacks = {c1, c2}
  Payments = {k1}
  Orders <- TheOrder
  Order <- OneOrder
  Amount <- Prices
  Gateway <- Zibal
  Receiver = "inprocess"
  ReplayGuard = TRUE
  FrontFailure = TRUE
  Retry = TRUE
  VerifyTries = 2
  AdminAsks = TRUE
  Faults = {"answer", "ttl"}
  MaxCrashes = 0
  LedgerIO = {"ok", "unreadable", "unwritten"}
PROPERTIES TurnedAwayIsHeld VerifiedIsConcluded FailureIsTrue
CHECK_DEADLOCK FALSE
