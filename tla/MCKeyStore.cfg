\* Three keys on one shard, and a caller caught between its two locks.
CONSTANTS
  Keys = {k1, k2, k3}
  Callers = {c1}
  Setups <- MCSetups
  Period = 2
  Costs = {1}
  Budgets = {1}
  Ms = 2
  MaxKeysPerShard = 1
  MaxShards = 2
  MaxSlots = 3
  ClockScan = 1
  TtlSweep = 1
  LedgerScan = 1
  MaxLag = 0
  MaxHold = 2
SYMMETRY Symmetry
SPECIFICATION StoreSpec
CHECK_DEADLOCK FALSE
INVARIANTS
  MapSound
  NoFreeTokens
PROPERTIES
  DebtorsReturn
  IdleIsIdle
