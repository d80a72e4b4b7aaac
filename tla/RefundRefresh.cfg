SPECIFICATION FairSpec
CONSTANTS
  Calls = {c1, c2, c3}
  Refunds = {r1}
  None = None
  Shared = TRUE
  Faults = {"crash", "store", "sep", "answer"}
  MaxCrashes = 1
INVARIANTS NeverTwice ClaimIsExclusive
PROPERTIES ClaimEnds
CHECK_DEADLOCK FALSE
