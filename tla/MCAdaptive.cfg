\* A limit that moves between 1 and 3 under three tasks.
CONSTANTS
  Tasks = {t1, t2, t3}
  Floor = 1
  Ceiling = 3
  Initial = 2
  Strategies = {"aimd", "vegas"}
  Increase = 2
  CutNum = 1
  CutDen = 2
  Costs = {2}
  MaxEpoch = 1
SYMMETRY Symmetry
SPECIFICATION Spec
CHECK_DEADLOCK FALSE
INVARIANTS
  SlotsAccounted
  WithinCeiling
  NoLostWakeup
PROPERTIES
  OnlyRacersLowerAgain
