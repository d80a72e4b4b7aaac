SPECIFICATION FairSpec
CONSTANTS
  Items = {a, b}
  OldItems = {b}
  None = None
  Passes = {p}
  MaxItems = 1
  MaxAttempts = 2
  Faults = {"disk", "corrupt", "crash", "answer"}
  MaxMishaps = 1
  TestRoutes = FALSE
INVARIANTS TypeOK Accounted LossIsTold HeldIsRetried
PROPERTIES ImplementsOutbox Settles
