\* Hedges, shared budgets, every backoff, dates, and services in users' hands.
CONSTANTS
  p1 = p1
  s1 = s1
  p2 = p2
  s2 = s2
  t1 = t1
  t2 = t2
  Tasks = {t1, t2}
  Handles = {p1, s1, p2, s2}
  Primary <- First
  Secondary <- Second
  Configs <- Setups
  Capacity = 3
  Cost = 2
  Permits = 1
  MaxCalls = 3
  Milli = 2
  MaxAccruals = 2
  U64Max = 400000
  MaxExponent = 3
SPECIFICATION FairSpec
CHECK_DEADLOCK FALSE
INVARIANTS
  NothingLeaks
  BudgetBound
  WaitsKept
PROPERTIES
  HonestFailure
  EveryRunEnds
