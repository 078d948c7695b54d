\* Waiters only meet in the event, so one waiter shows all that two would;
\* two resumes may overlap, pauses may end by themselves or never.
CONSTANTS
  Waiters = {x1}
  Resumers = {r1, r2}
  Waits = {0, 1, 2}
  Timeouts = {1, 3, 9}
  Pauses = {2, 9}
  RaceYields = 2
  MaxNow = 3
  MaxResumes = 2
  Forever = 9
SPECIFICATION FairSpec
INVARIANTS
  UnitsFollowOutcome
  ResolvedByDeadline
  MaturedBeforeUse
  EarlyReaderIsWoken
PROPERTIES
  NoSpin
