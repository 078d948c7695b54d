\* Five composites, and every small dimension table.
CONSTANTS
  Callers = {x1, x2}
  Composites <- Setups
  HoldSlack = 1
  MaxSwitches = 1
  RaceYields = 1
  RaceBackoff = 1
  Attempts = 2
  U32Max = 5
  Forever = 99
SPECIFICATION CompositeSpec
CHECK_DEADLOCK FALSE
INVARIANTS
  UnitsConserved
  PassedAll
  HoldsBounded
  EveryCostCharged
