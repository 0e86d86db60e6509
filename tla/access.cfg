\* One key and one client without a key; two calls may fail, the server may
\* restart once, and a key is created, revoked and enabled again.
CONSTANTS
    k1 = k1  ip1 = ip1  w1 = w1  w2 = w2
    Keys = {k1}
    IPs = {ip1}
    Workers = {w1, w2}
    RpmLimits = {1}
    IpRpm = 1
    CountCap = 2
    Window = 2
    MaxFaults = 1
    MaxRestarts = 1
    MaxCommands = 2
SPECIFICATION FairSpec
INVARIANTS
    TypeOK
    WindowWithinLimit
    StoreIsRecent
PROPERTIES
    StoreFollowsTable
    WindowsEnd
