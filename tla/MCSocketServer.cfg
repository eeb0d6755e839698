\* Two daemons of root, one of another user, started three times in all and
\* killed twice, at a path that is free, has a leftover of anyone or a file.
\* When the starts are used up, nothing may be left to do.
CONSTANTS
    d1 = d1
    d2 = d2
    d3 = d3
    root = root
    user = user
    Daemon = {d1, d2, d3}
    UID = {root, user}
    UidOf <- Uids
    Superuser = root
    NoFile = NoFile
    MaxStarts = 3
    MaxCrashes = 2
CHECK_DEADLOCK FALSE
SPECIFICATION SSpec
INVARIANTS ServedAtPath ServedSocketSafe
PROPERTIES LeftoversOwned RestartServes
