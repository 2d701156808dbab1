SPECIFICATION SchedSpec
CONSTANTS
  t1 = t1
  Threads = {t1, t2}
  LWPs = {l1}
  MaxPrio = 1
  SyncObjs = {}
  Boot <- MCBoot
  Creators = {t1}
  Calls = {"setprio"}
  MaxDrift = 1
  NoThread = NoThread  NoLwp = NoLwp  NoObj = NoObj
INVARIANTS NoSelfDeadlock
CHECK_DEADLOCK FALSE
