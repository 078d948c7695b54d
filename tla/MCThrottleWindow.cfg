\* Waiting acquires that may be dropped.
CONSTANTS
  Waiters = {x1, x2, x3}
  Cap = 2
  Costs = {1, 2}
  Timeouts = {20}
  MaxWaits = {}
  Pauses = {}
  Refunds = {}
  Drains = {}
  Charges = {}
  MaxNow = 4
  MaxDebt = 0
  Forever = 20
SYMMETRY Symmetry
SPECIFICATION Spec
INVARIANT WindowBound
CHECK_DEADLOCK FALSE
