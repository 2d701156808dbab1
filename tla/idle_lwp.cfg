SPECIFICATION SchedFairSpec
CONSTANTS
  t1 = t1
  Threads = {t1, t2, t3}
  LWPs = {l1, l2, l3}
  MaxPrio = 1
  SyncObjs = {}
  Boot <- MCBoot
  Creators = {t1}
  Calls = {}
  MaxDrift = 1
  NoThread = NoThread  NoLwp = NoLwp  NoObj = NoObj
PROPERTIES IdleLwpTakesThread
CHECK_DEADLOCK FALSE
