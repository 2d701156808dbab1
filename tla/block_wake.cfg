SPECIFICATION SchedSpec
CONSTANTS
  t1 = t1
  Threads = {t1, t2}
  LWPs = {l1, l2}
  MaxPrio = 0
  SyncObjs = {}
  Boot <- MCBoot
  Creators = {t1}
  Calls = {"yield", "block", "wake"}
  MaxDrift = 1
  NoThread = NoThread  NoLwp = NoLwp  NoObj = NoObj
INVARIANTS OneStackOneLwp
CHECK_DEADLOCK FALSE
