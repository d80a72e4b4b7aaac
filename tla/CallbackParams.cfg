SPECIFICATION Spec
CONSTANTS
  Refs = {r1, r2}
  Orders = {o1}
  Absent = Absent
  Empty = Empty
  Odd = Odd
  List = List
  FailureUrl = TRUE
INVARIANTS BankIsUnderstood CodeIsVerified PlainGoesOut FailureIsTold
CHECK_DEADLOCK FALSE
