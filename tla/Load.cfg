CONSTANTS
  NULL = NULL
  MaxTasks = 2
  Cancellables = {c1}
  Documents = {"good", "bad", "empty"}
  Length <- MCLength
  Malformed = {"bad"}
  MaxThreads = 2
  MaxLoads = 1
SPECIFICATION Spec
INVARIANTS OwnText Verdict
PROPERTIES CancelledQuiet Answered
