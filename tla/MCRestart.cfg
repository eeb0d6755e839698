\* One request at a time, two crashes: the second restart meets what the first
\* one left behind, with unsupported task statuses and failing reads.
CONSTANTS
    ContainerID = {c1, c2}
    Name = {web}
    NoName = NoName
    Absent = Absent
    NoID = NoID
    Creator = {t1}
    Statuses = {"created", "running", "paused", "pausing", "unknown", "stopped"}
    ReadErrors = TRUE
    MaxCrashes = 2
SPECIFICATION RFairSpec
INVARIANTS StoredNamesUnique CompleteRestore
PROPERTY EventuallyServes
