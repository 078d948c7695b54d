\* A full queue that evicts, with priorities or with deadlines.
CONSTANTS
  Callers = {t1, t2, t3}
  Keys = {k1, k2}
  Configs <- Safety
  Capacity = 2
  NoTask = none
SYMMETRY Symmetry
SPECIFICATION QueueSpec
INVARIANTS
  CapacityKept
  EvictedAreTold
  TurnHolderIsWoken
