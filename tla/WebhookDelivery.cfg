SPECIFICATION Spec
CONSTANTS
  MaxAddresses = 3
  Retries = 3
CHECK_DEADLOCK FALSE
INVARIANTS OncePerAttempt OkMeansTaken
