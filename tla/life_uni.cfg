SPECIFICATION LifeFairSpec
CONSTANTS
  t1 = t1  t2 = t2
  Reaper = reaper
  Threads = {t1, t2, t3, reaper}
  LWPs = {l1}
  MaxPrio = 0
  reap_mtx = reap_mtx  reap_cond = reap_cond
  SyncObjs <- MCSyncObjs
  Mutexes = {reap_mtx}
  Conds = {reap_cond}
  SyncCalls = {}
  Boot <- MCBoot
  Creators = {t1, t2}
  Calls = {}
  JoinPairs <- AllPairs
  DetachPairs <- BothPairs
  NoThread = NoThread  NoLwp = NoLwp  NoObj = NoObj
INVARIANTS LifeTypeOK BuriedOnce NoAbort OnlyClientsGetStuck
PROPERTIES DetachedIsReaped JoinReturns
CHECK_DEADLOCK FALSE
