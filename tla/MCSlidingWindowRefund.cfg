\* No waiters and a clock that is read at once: the refund of a grant that
\* has left the window.
CONSTANTS
  Waiters = {}
  Limit = 2
  W = 3
  Costs = {1, 2}
  Timeouts = {}
  Pauses = {}
  Charges = {}
  Refunds = {1}
  MaxLag = 0
  MaxUsed = 2
  MaxNow = 6
  Forever = 20
SPECIFICATION Spec
INVARIANT WindowBound
CHECK_DEADLOCK FALSE
