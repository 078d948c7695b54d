\* A deadline passes between a registration and the first look.
CONSTANTS
  Callers = {t1, t2, t3}
  Keys = {k1}
  Configs <- NoBackstop
  Capacity = 3
  NoTask = none
SYMMETRY Symmetry
SPECIFICATION QueueSpec
INVARIANT SomebodyHasTheTurn
