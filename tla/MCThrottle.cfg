\* Every operation at once on a bucket two waiters can put into debt.
CONSTANTS
  Waiters = {x1, x2}
  Cap = 2
  Costs = {1, 2}
  Timeouts = {1, 20}
  MaxWaits = {1}
  Pauses = {2}
  Refunds = {1}
  Drains = {1}
  Charges = {1}
  MaxNow = 3
  MaxDebt = 3
  Forever = 20
SYMMETRY Symmetry
SPECIFICATION Spec
INVARIANTS
  TokensConserved
  GrantsBounded
  WaitsHonored
PROPERTIES
  PauseStopsCalls
