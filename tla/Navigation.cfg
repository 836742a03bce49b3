\* The page of the host, a VM and its console; four acts, one change.
SPECIFICATION FairSpec
CONSTANTS
    Locs = {"host", "vm", "console"}
    Consoles = {"console"}
    Redirects <- MCRedirects
    MaxChanges = 1
    MaxActs = 4
    None = None
INVARIANTS
    NothingOlder
    CacheIsItsPage
PROPERTY Settles
CHECK_DEADLOCK FALSE
