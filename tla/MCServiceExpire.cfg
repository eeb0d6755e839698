\* One request at a time whose context may expire between any two calls; any
\* call may fail, one of them without anybody making up for it; a process may
\* exit during its start.
\* Containers are on a CNI network or in host or none mode.
CONSTANTS
    ContainerID = {c1, c2}
    Name = {web}
    NoName = NoName
    Absent = Absent
    NoID = NoID
    Proto = {"tcp"}
    any = any
    lo = lo
    HostIP = {any, lo}
    Wildcard = {any}
    Port = {80}
    Thread = {t1}
    Ops = {"create", "start", "stop", "remove", "inspect"}
    PortRequests <- PublishOneOrNone
    NetModes = {TRUE, FALSE}
    Overlapping = FALSE
    FastExit = TRUE
    Timeouts = TRUE
SYMMETRY Symmetry
SPECIFICATION Spec
CONSTRAINT OneFailure
INVARIANTS NoOrphans AttachmentsOwned LogsWhileRunning RegistryMirrors
