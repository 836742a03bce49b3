\* The same session's console on two pages, one after the other; two sockets.
SPECIFICATION FairSpec
CONSTANTS
    Pages = 2
    Session <- MCSession
    PoolSize = 2
    MaxSockets = 2
    MaxTimers = 1
    MaxUp = 2
    MaxInputs = 1
INVARIANTS
    ConnectedIsOnline
    ListsAgree
    InputAccepted
PROPERTY Settles
CHECK_DEADLOCK FALSE
