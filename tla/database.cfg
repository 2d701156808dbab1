CONSTANTS Updater = updater
          Remover = remover
          Querier = querier
          Clients = {updater, remover, querier}
          Keys = {1, 2, 3, 4}
          Absent = Absent
          PoolSize = 4
          MaxCalls = 1
          Requests <- MCRequests
          Trees <- MCTrees
SPECIFICATION FairSpec
INVARIANTS TypeOK TreeSound NoStalePointer
PROPERTIES ImplementsDictionary CallReturns
CHECK_DEADLOCK FALSE
