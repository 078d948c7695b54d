\* A call that does not wait, beside a pause.
CONSTANTS
  Waiters = {x1}
  Cap = 2
  Costs = {1, 2}
  Timeouts = {}
  MaxWaits = {1}
  Pauses = {2}
  Refunds = {}
  Drains = {}
  Charges = {}
  MaxNow = 2
  MaxDebt = 0
  Forever = 20
SPECIFICATION Spec
PROPERTY NothingGrantedWhilePaused
CHECK_DEADLOCK FALSE
