SPECIFICATION Spec
CONSTANTS
  k1 = k1
  k2 = k2
  None = None
  Callbacks = {c1, c2, c3}
  Payments = {k1, k2}
  Orders <- TheOrder
  Order <- OneOrder
  Amount <- Prices
  Gateway <- SepFirst
  Receiver = "http"
  ReplayGuard = TRUE
  FrontFailure = TRUE
  Retry = FALSE
  VerifyTries = 2
  AdminAsks = TRUE
  Faults = {"crash", "answer", "queue"}
  MaxCrashes = 1
  LedgerIO = {"ok"}
SYMMETRY Interchangeable
INVARIANTS HandedOncePerRun SuccessMeansTaken DoneMeansTaken ChargedIsPaid
CHECK_DEADLOCK FALSE
