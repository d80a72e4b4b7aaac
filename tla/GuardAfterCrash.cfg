SPECIFICATION Spec
CONSTANTS
  k1 = k1
  k2 = k2
  None = None
  Callbacks = {c1, c2}
  Payments = {k1}
  Orders <- TheOrder
  Order <- OneOrder
  Amount <- Prices
  Gateway <- Zibal
  Receiver = "http"
  ReplayGuard = TRUE
  FrontFailure = TRUE
  Retry = FALSE
  VerifyTries = 1
  AdminAsks = FALSE
  Faults = {"crash"}
  MaxCrashes = 1
  LedgerIO = {"ok"}
SYMMETRY Interchangeable
PROPERTIES TurnedAwayIsHeld
CHECK_DEADLOCK FALSE
