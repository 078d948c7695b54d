\* Reports of outcomes of earlier calls during a half-open period.
CONSTANTS
  Callers = {c1, c2, c3, c4}
  Configs <- OneTrip
  Cooldown = 0
  MaxLag = 0
  MaxNow = 0
  MaxGen = 3
  MaxFailed = 4
SYMMETRY Symmetry
SPECIFICATION Spec
INVARIANT NeverMoreThanTrials
CHECK_DEADLOCK FALSE
