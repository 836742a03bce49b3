\* One chunk more than the cap.
CONSTANTS
  Clients = {c1}
  Cap = 2
  MaxChunks = 3
  MaxOrders = 1
  PoolSize = 1
SPECIFICATION Spec
INVARIANT ScrollbackCapped
CHECK_DEADLOCK FALSE
