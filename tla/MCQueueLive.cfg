\* Whether everybody is served.
CONSTANTS
  Callers = {t1, t2, t3}
  Keys = {k1, k2}
  Configs <- Served
  Capacity = 2
  NoTask = none
SPECIFICATION QueueFairSpec
PROPERTIES
  EverybodyLeaves
