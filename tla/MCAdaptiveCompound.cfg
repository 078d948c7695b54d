\* Two requests of one congestion event fail at the same time.
CONSTANTS
  Tasks = {t1, t2}
  Floor = 1
  Ceiling = 4
  Initial = 4
  Strategies = {"aimd"}
  Increase = 1
  CutNum = 1
  CutDen = 2
  Costs = {}
  MaxEpoch = 2
SYMMETRY Symmetry
SPECIFICATION Spec
PROPERTY OneDecreasePerEvent
CHECK_DEADLOCK FALSE
