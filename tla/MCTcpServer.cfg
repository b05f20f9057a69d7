SPECIFICATION Spec
CONSTANTS
  MaxThreads = 2
  MaxConnections = 3
  MaxFds = 2
  InitEventListSize = 1
  TeardownPools <- WithoutPool
INVARIANTS EpollHoldsLiveChannels 
PROPERTIES EndedConnectionsAreFreed WaitingClientsAreAccepted
CHECK_DEADLOCK FALSE
