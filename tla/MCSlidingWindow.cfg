\* One waiting acquire beside any number of attempts, a window of three, and readings that may be one unit old.
CONSTANTS
  Waiters = {x1}
  Limit = 2
  W = 3
  Costs = {1, 2}
  Timeouts = {1, 20}
  Pauses = {2}
  Charges = {1}
  Refunds = {1}
  MaxLag = 1
  MaxUsed = 2
  MaxNow = 4
  Forever = 20
SPECIFICATION Spec
INVARIANTS
  LogExact
  WindowBoundUnlessStray
