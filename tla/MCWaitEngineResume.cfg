\* The window between the epoch and the pause word in rt::resume.
CONSTANTS
  Waiters = {x1}
  Resumers = {r1, r2}
  Waits = {0, 1, 2}
  Timeouts = {1, 3, 9}
  Pauses = {2, 9}
  RaceYields = 2
  MaxNow = 3
  MaxResumes = 2
  Forever = 9
SYMMETRY Symmetry
SPECIFICATION Spec
INVARIANT NeverSleepsThroughResume
