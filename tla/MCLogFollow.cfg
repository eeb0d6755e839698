\* Two lines over two starts of the container and one rotation.
CONSTANTS
    MaxLines = 2
    MaxStarts = 2
    MaxRotations = 1
    Request <- MCRequest
CHECK_DEADLOCK FALSE
SPECIFICATION LSpec
INVARIANTS InOrderOnce WholeLines TailExact FinalFlush
PROPERTY FollowEnds
