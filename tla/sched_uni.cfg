SPECIFICATION SchedSpec
CONSTANTS
  t1 = t1
  Threads = {t1, t2, t3}
  LWPs = {l1}
  MaxPrio = 1
  SyncObjs = {}
  Boot <- MCBoot
  Creators = {t1, t2}
  Calls = {"yield", "block", "wake", "setprio", "enomem"}
  MaxDrift = 1
  NoThread = NoThread  NoLwp = NoLwp  NoObj = NoObj
INVARIANTS SchedTypeOK QueueCountsAgree AllocatedOnce
CHECK_DEADLOCK FALSE
