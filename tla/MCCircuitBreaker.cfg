\* Two callers through several half-open periods of each kind of breaker.
CONSTANTS
  Callers = {c1, c2}
  Configs <- EveryTrip
  Cooldown = 2
  MaxLag = 1
  MaxNow = 3
  MaxGen = 4
  MaxFailed = 4
SPECIFICATION FairSpec
CHECK_DEADLOCK FALSE
INVARIANTS
  TrialsAccounted
  CountsAreRecent
PROPERTIES
  PeriodsRespected
  TrialSlotComesBack
