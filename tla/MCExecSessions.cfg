\* Three sessions compete for two slots and start the same exec; the
\* container restarts once.  All sessions end, and then nothing happens.
CONSTANTS
    Exec = {e1}
    Session = {s1, s2, s3}
    Detached = {s3}
    Code = {c1}
    Limit = 2
    MaxRestarts = 1
CHECK_DEADLOCK FALSE
SPECIFICATION ESpec
INVARIANTS SlotsCounted ExitCodesReal NoResidue
PROPERTY SessionsEnd
