\* Idle expiry, with a reader that may be overtaken inside the read lock.
CONSTANTS
  Keys = {k1, k2, k3}
  Callers = {c1}
  Setups <- MCSetups
  Period = 2
  Costs = {1}
  Budgets = {1}
  Ms = 2
  MaxKeysPerShard = 1
  MaxShards = 2
  MaxSlots = 3
  ClockScan = 1
  TtlSweep = 1
  LedgerScan = 1
  MaxLag = 0
  MaxHold = 2
SYMMETRY Symmetry
SPECIFICATION StoreSpec
CHECK_DEADLOCK FALSE
PROPERTY
  IdleForWholeTtl
