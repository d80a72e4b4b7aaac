SPECIFICATION FairSpec
CONSTANTS
  NoCode = NoCode
  BankCodes = {NoCode, b1, b2}
  MaxRefreshAttempts = 3
  MaxRefreshCallFailures = 2
INVARIANTS PaidOnce RefreshesAreBounded GaveUpFinalIsTrue
PROPERTIES NeverSilent
CHECK_DEADLOCK FALSE
