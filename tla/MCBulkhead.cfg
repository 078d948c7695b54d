\* Four tasks on two slots: two releases, a waiter and a newcomer race.
CONSTANTS
  Tasks = {t1, t2, t3, t4}
  Limit = 2
  Spurious = FALSE
SPECIFICATION FairSpec
INVARIANTS
  SlotsAccounted
  NoLostWakeup
PROPERTIES
  NoSleepBesideFreeSlot
  ImplementsSemaphore
