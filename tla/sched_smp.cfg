SPECIFICATION SchedSpec
CONSTANTS
  t1 = t1
  Threads = {t1, t2, t3}
  LWPs = {l1, l2}
  MaxPrio = 1
  SyncObjs = {}
  Boot <- MCBoot
  Creators = {t1}
  Calls = {"yield", "wake", "setprio"}
  MaxDrift = 1
  NoThread = NoThread  NoLwp = NoLwp  NoObj = NoObj
SYMMETRY Symmetry
CONSTRAINT DriftBounded
INVARIANTS OneStackOneLwp QueuedAtItsPriority
CHECK_DEADLOCK FALSE
