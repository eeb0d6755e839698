\* Two build steps and a channel of one: a third batch finds the channel full
\* while the translator is busy or the client is gone.  One request; it ends.
CONSTANTS
    Vertex = {v1, v2}
    ChanCap = 1
    MaxBatches = 3
CHECK_DEADLOCK FALSE
SPECIFICATION BSpec
INVARIANTS FailureIsLast SuccessIsTrue BuildLeavesNothing
PROPERTY BuildReturns
