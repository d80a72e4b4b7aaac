SPECIFICATION Spec
CONSTANTS
  None = None
  o1 = o1
  Orders = {o1}
  Minimum = 1000
  Failover = TRUE
  Forced = None
  Tries = 2
  LastTries = 1
  Calls = {c1, c2, c3}
  Keys = {k1}
  Bodies <- AllBodies
  KeyIO = {"ok", "unreadable", "unwritten"}
  Faults = {"refuses", "network", "session", "ttl", "crash"}
  MaxCrashes = 1
  MaxMisses = 1
SYMMETRY Interchangeable
CHECK_DEADLOCK FALSE
INVARIANTS OneAnswerPerKey AnswerIsForThisCall KeptWasTold SessionIsOfAPayment KeyIsOfACall
