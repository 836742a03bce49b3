\* Two tabs, three chunks, a cap of two, two workers.
CONSTANTS
  Clients = {c1, c2}
  Cap = 2
  MaxChunks = 3
  MaxOrders = 1
  PoolSize = 2
SPECIFICATION FairSpec
INVARIANTS ScrollbackIsOutput LostOnlyWhileJoining 
PROPERTIES OutputShown
CHECK_DEADLOCK FALSE
