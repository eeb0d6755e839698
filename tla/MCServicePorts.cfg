\* Two containers that publish overlapping ports on a bridge network, two
\* requests at a time, one per container; any call may fail, one of them
\* without anybody making up for it.
CONSTANTS
    ContainerID = {c1, c2}
    Name = {web}
    NoName = NoName
    Absent = Absent
    NoID = NoID
    Proto = {"tcp"}
    any = any
    lo = lo
    HostIP = {any, lo}
    Wildcard = {any}
    Port = {80}
    Thread = {t1, t2}
    Ops = {"create", "start", "stop", "remove"}
    PortRequests <- Publish
    NetModes = {TRUE}
    Overlapping = FALSE
    FastExit = FALSE
    Timeouts = FALSE
SYMMETRY Symmetry
SPECIFICATION Spec
CONSTRAINT OneFailure
INVARIANTS ReservationsDisjoint ReservationsKept NoPortLeak PublishedExclusive
