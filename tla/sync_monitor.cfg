SPECIFICATION SyncFairSpec
CONSTANTS
  t1 = t1
  Threads = {t1, t2, t3}
  LWPs = {l1, l2}
  MaxPrio = 0
  SyncObjs <- MCSyncObjs
  Boot <- MCBoot
  Creators = {t1}
  Calls = {}
  Mutexes = {m}
  Conds = {c}
  SyncCalls = {"lock", "trylock", "wait", "signal", "broadcast"}
  NoThread = NoThread  NoLwp = NoLwp  NoObj = NoObj
INVARIANTS SyncTypeOK ThreadInOnePlace MutualExclusion NoStrandedWaiter WaitIsAtomic NoLockWhilePreemptible ParkAssertMeansStuck MonitorInv
PROPERTIES HandOff ImplementsMonitor GrantedMutexIsTaken RunnableThreadRuns
CHECK_DEADLOCK FALSE
