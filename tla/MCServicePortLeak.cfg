\* One container, one request at a time, a process that may exit at once.
CONSTANTS
    ContainerID = {c1}
    Name = {web}
    NoName = NoName
    Absent = Absent
    NoID = NoID
    Proto = {"tcp"}
    any = any
    lo = lo
    HostIP = {any, lo}
    Wildcard = {any}
    Port = {80}
    Thread = {t1}
    Ops = {"create", "start", "stop", "remove", "inspect"}
    PortRequests <- PublishOne
    NetModes = {TRUE}
    Overlapping = FALSE
    FastExit = TRUE
    Timeouts = FALSE
SYMMETRY Symmetry
SPECIFICATION Spec
INVARIANTS NoPortLeak
