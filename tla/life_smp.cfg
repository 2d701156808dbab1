SPECIFICATION LifeSpec
CONSTANTS
  t1 = t1  t2 = t2
  Reaper = reaper
  Threads = {t1, t2, t3, reaper}
  LWPs = {l1, l2}
  MaxPrio = 0
  reap_mtx = reap_mtx  reap_cond = reap_cond
  SyncObjs <- MCSyncObjs
  Mutexes = {reap_mtx}
  Conds = {reap_cond}
  SyncCalls = {}
  Boot <- MCBoot
  Creators = {t1}
  Calls = {}
  JoinPairs <- MainJoins
  DetachPairs <- SelfPairs
  NoThread = NoThread  NoLwp = NoLwp  NoObj = NoObj
INVARIANTS DetachedOffStack NoJoinerStranded
CHECK_DEADLOCK FALSE
