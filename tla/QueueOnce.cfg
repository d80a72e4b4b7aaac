SPECIFICATION Spec
CONSTANTS
  Items = {a, b, c}
  OldItems = {b, c}
  None = None
  Passes = {p, q}
  MaxItems = 1
  MaxAttempts = 2
  Faults = {"corrupt"}
  MaxMishaps = 1
  TestRoutes = TRUE
SYMMETRY Interchangeable
INVARIANTS AtMostOnce DeadIsLeftAlone
PROPERTIES CapIsHard RetriesOnlyGrow
